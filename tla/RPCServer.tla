----------------------------- MODULE RPCServer -----------------------------
(***************************************************************************)
(* Base::RPCServer (src/src/rpc_server.cpp): one thread accepts a client,  *)
(* reads its requests one after the other, calls the handler of each and   *)
(* sends the answer back, until the connection ends; then it accepts the   *)
(* next client.                                                            *)
(*                                                                         *)
(* Clients and TCP are external.  A connection delivers the requests of    *)
(* its client in order.  A client may close at any time, even with answers *)
(* outstanding; the first answer sent after that is lost and makes the     *)
(* peer reset the connection, and writing to it again raises SIGPIPE.  A   *)
(* connection that breaks while it is open makes recv and send fail with   *)
(* ECONNRESET.  A client that comes back is another client.                *)
(*                                                                         *)
(* A definition introduced by "Mistake" is the one after it with a         *)
(* plausible bug, to show that a property would notice.                    *)
(***************************************************************************)
EXTENDS Integers, Sequences

CONSTANTS
  Clients,
  Backlog,       \* the second argument of listen
  MaxRequests,   \* bound: requests a client sends
  Requests,      \* bound: kinds of requests clients send
  None

\* What a request is to the server: a command whose handler succeeds, fails or
\* throws, a command nobody registered, a message without separator, a message
\* of length 0, one whose length cannot be allocated, and one the client never
\* completes.
Handled  == {"succeeds", "fails", "throws"}
AllRequests == Handled \cup {"unknown", "garbled", "empty", "huge", "short"}

ASSUME RPCServerAssumption ==
  /\ Backlog \in Nat
  /\ MaxRequests \in Nat
  /\ Requests \subseteq AllRequests
  /\ None \notin Clients

Verdicts == {"success", "fail", "error"}

Places == {"start", "accept", "read", "handle", "send", "end", "stopped", "aborted", "killed"}

VARIABLES
  running,     \* running_
  connected,   \* connected_
  current,     \* the client of current_client_fd_, or None
  at,          \* where the server is
  response,    \* the answer about to be sent
  queue,       \* connections the kernel has completed and nobody has accepted
  peer,        \* state of each client's connection
  sent,        \* requests each client has sent
  taken,       \* how many of them the server has read
  answers      \* answers each client has received

server  == <<running, connected, current, at, response>>
network == <<queue, peer, sent, taken, answers>>
vars    == <<server, network>>

NoResponse == [of |-> 0, verdict |-> "error"]

TypeOK ==
  /\ running \in BOOLEAN /\ connected \in BOOLEAN
  /\ current \in Clients \cup {None}
  /\ at \in Places
  /\ response \in [of : 0 .. MaxRequests, verdict : Verdicts]
  /\ queue \in Seq(Clients)
  /\ peer \in [Clients -> {"new", "open", "closed", "reset", "broken"}]
  /\ sent \in [Clients -> Seq(Requests)]
  /\ taken \in [Clients -> 0 .. MaxRequests]
  /\ answers \in [Clients -> Seq([of : 1 .. MaxRequests, verdict : Verdicts])]

Init ==
  /\ running = FALSE
  /\ connected = FALSE
  /\ current = None
  /\ at = "start"
  /\ response = NoResponse
  /\ queue = <<>>
  /\ peer = [c \in Clients |-> "new"]
  /\ sent = [c \in Clients |-> <<>>]
  /\ taken = [c \in Clients |-> 0]
  /\ answers = [c \in Clients |-> <<>>]

-----------------------------------------------------------------------------
(* The clients.                                                            *)

\* listen(fd, n) lets n + 1 connections wait.
Connect(c) ==
  /\ at \notin {"start", "stopped", "aborted", "killed"}
  /\ peer[c] = "new"
  /\ Len(queue) <= Backlog
  /\ queue' = Append(queue, c)
  /\ peer' = [peer EXCEPT ![c] = "open"]
  /\ UNCHANGED <<server, sent, taken, answers>>

\* Nothing can follow a request the client does not complete.
SendRequest(c, r) ==
  /\ peer[c] = "open"
  /\ Len(sent[c]) < MaxRequests
  /\ \A i \in 1 .. Len(sent[c]) : sent[c][i] # "short"
  /\ sent' = [sent EXCEPT ![c] = Append(@, r)]
  /\ UNCHANGED <<server, queue, peer, taken, answers>>

\* The client closes, or the connection breaks.
Leave(c) ==
  /\ peer[c] = "open"
  /\ \E state \in {"closed", "broken"} : peer' = [peer EXCEPT ![c] = state]
  /\ UNCHANGED <<server, queue, sent, taken, answers>>

-----------------------------------------------------------------------------
(* The server.                                                             *)

\* start: creating, binding or listening on the socket may fail.
Begin ==
  /\ at = "start"
  /\ \/ at' = "accept" /\ running' = TRUE
     \/ at' = "stopped" /\ UNCHANGED running
  /\ UNCHANGED <<connected, current, response, network>>

\* server_loop: while handle_client runs nobody accepts, so connected is always
\* false here.
Accept ==
  /\ at = "accept" /\ running
  /\ queue # <<>>
  /\ current' = Head(queue)
  /\ connected' = TRUE
  /\ queue' = Tail(queue)
  /\ at' = "read"
  /\ UNCHANGED <<running, response, peer, sent, taken, answers>>

\* accept fails: the loop ends, start returns, main returns and the destructor
\* calls stop.
AcceptFails ==
  /\ at = "accept"
  /\ at' = "stopped"
  /\ running' = FALSE
  /\ connected' = FALSE
  /\ current' = None
  /\ UNCHANGED <<response, network>>

Unread(c) == taken[c] < Len(sent[c])
NextRequest(c) == sent[c][taken[c] + 1]

Goto(place) ==
  /\ at' = place
  /\ UNCHANGED <<running, connected, current>>

\* Mistake: only a clean end of the stream ends the connection; an error is
\* tried again.
ReadMessageRetries ==
  LET c == current IN
  /\ at = "read"
  /\ \/ /\ Unread(c) /\ NextRequest(c) \notin {"short", "huge"}
        /\ taken' = [taken EXCEPT ![c] = @ + 1]
        /\ Goto(IF NextRequest(c) = "empty" THEN "end" ELSE "handle")
     \/ /\ Unread(c) /\ NextRequest(c) = "huge"
        /\ taken' = [taken EXCEPT ![c] = @ + 1]
        /\ Goto("aborted")
     \/ /\ peer[c] = "closed" /\ ~Unread(c)
        /\ Goto("end")
        /\ UNCHANGED taken
  /\ UNCHANGED <<response, queue, peer, sent, answers>>

\* read_message: a length, then that many bytes.  A length of 0, the end of the
\* stream, a stream that ends inside a message and an error of recv end the
\* connection; an allocation that fails throws, and nobody catches it.
ReadMessage ==
  LET c == current IN
  /\ at = "read"
  /\ \/ /\ Unread(c) /\ NextRequest(c) \notin {"short", "huge"}
        /\ taken' = [taken EXCEPT ![c] = @ + 1]
        /\ Goto(IF NextRequest(c) = "empty" THEN "end" ELSE "handle")
     \/ /\ Unread(c) /\ NextRequest(c) = "huge"
        /\ taken' = [taken EXCEPT ![c] = @ + 1]
        /\ Goto("aborted")
     \/ /\ \/ peer[c] \in {"reset", "broken"}
           \/ peer[c] = "closed" /\ (Unread(c) => NextRequest(c) = "short")
        /\ Goto("end")
        /\ UNCHANGED taken
  /\ UNCHANGED <<response, queue, peer, sent, answers>>

\* A handler's Status is reported as it is; an exception, an unknown command
\* and a message without separator, whose command is empty, give an error.
VerdictOn(r) ==
  CASE r = "succeeds" -> "success"
    [] r = "fails" -> "fail"
    [] OTHER -> "error"

\* Mistake: only a registered command is answered.
HandleRegisteredOnly ==
  LET n == taken[current] r == sent[current][n] IN
  /\ at = "handle"
  /\ IF r \in Handled
     THEN response' = [of |-> n, verdict |-> VerdictOn(r)] /\ Goto("send")
     ELSE UNCHANGED response /\ Goto("read")
  /\ UNCHANGED network

\* Mistake: the answer bears the number of the next request.
HandleOffByOne ==
  LET n == taken[current] IN
  /\ at = "handle"
  /\ response' = [of |-> n + 1, verdict |-> VerdictOn(sent[current][n])]
  /\ Goto("send")
  /\ UNCHANGED network

\* handle_client, from deserialize_message to serialize_message.
HandleRequest ==
  LET n == taken[current] IN
  /\ at = "handle"
  /\ response' = [of |-> n, verdict |-> VerdictOn(sent[current][n])]
  /\ Goto("send")
  /\ UNCHANGED network

\* Mistake: the answer goes to the client that connected last.
SendToNewest ==
  LET c == IF queue = <<>> THEN current ELSE queue[Len(queue)] IN
  /\ at = "send"
  /\ \/ /\ peer[c] = "open"
        /\ answers' = [answers EXCEPT ![c] = Append(@, response)]
        /\ Goto("read")
        /\ UNCHANGED peer
     \/ /\ peer[c] # "open"
        /\ Goto("end")
        /\ UNCHANGED <<peer, answers>>
  /\ UNCHANGED <<response, queue, sent, taken>>

\* send_message, without MSG_NOSIGNAL.
SendMessage ==
  LET c == current IN
  /\ at = "send"
  /\ \/ /\ peer[c] = "open"
        /\ answers' = [answers EXCEPT ![c] = Append(@, response)]
        /\ Goto("read")
        /\ UNCHANGED peer
     \/ /\ peer[c] = "closed"
        /\ peer' = [peer EXCEPT ![c] = "reset"]
        /\ Goto("read")
        /\ UNCHANGED answers
     \/ /\ peer[c] = "broken"
        /\ Goto("end")
        /\ UNCHANGED <<peer, answers>>
     \/ /\ peer[c] = "reset"
        /\ Goto("killed")
        /\ UNCHANGED <<peer, answers>>
  /\ UNCHANGED <<response, queue, sent, taken>>

\* Mistake: the connection is closed and connected is left set.
EndClientConnected ==
  /\ at = "end"
  /\ at' = "accept"
  /\ current' = None
  /\ peer' = [peer EXCEPT ![current] = "broken"]
  /\ UNCHANGED <<running, connected, response, queue, sent, taken, answers>>

\* The end of the loop in server_loop: the connection is closed.
EndClient ==
  /\ at = "end"
  /\ at' = "accept"
  /\ current' = None
  /\ connected' = FALSE
  /\ peer' = [peer EXCEPT ![current] = "broken"]
  /\ UNCHANGED <<running, response, queue, sent, taken, answers>>

Server ==
  \/ Begin \/ Accept \/ AcceptFails
  \/ ReadMessage \/ HandleRequest \/ SendMessage \/ EndClient

Next ==
  \/ Server
  \/ \E c \in Clients :
       Connect(c) \/ Leave(c) \/ \E r \in Requests : SendRequest(c, r)

Spec == Init /\ [][Next]_vars

\* The server's thread goes on whenever it can; handlers return, and accept
\* does not fail for ever.
FairSpec == Spec /\ WF_vars(Begin \/ Accept \/ ReadMessage \/ HandleRequest
                            \/ SendMessage \/ EndClient)

-----------------------------------------------------------------------------
(* Correctness.                                                            *)

Dead == at \in {"stopped", "aborted", "killed"}

\* A client receives one answer per request, in the order of its requests, and
\* each is the verdict on its own request: no answer is skipped after an error
\* or an exception, repeated, or sent to somebody else (handle_client).
AnswersMatch ==
  \A c \in Clients : \A i \in 1 .. Len(answers[c]) :
    /\ i <= Len(sent[c])
    /\ answers[c][i] = [of |-> i, verdict |-> VerdictOn(sent[c][i])]

\* The flag, the descriptor and the program counter tell the same story, and
\* only the current client can have a request read and not answered
\* (server_loop, stop).
OneDialogue ==
  /\ connected <=> current # None
  /\ at \in {"read", "handle", "send", "end"} => connected
  /\ at = "accept" => ~connected
  /\ \A c \in Clients :
       taken[c] > Len(answers[c]) => c = current \/ peer[c] = "broken" \/ Dead

\* The answers due to a client: the verdicts on its requests, numbered.
Due(c) ==
  [i \in 1 .. Len(sent[c]) |-> [of |-> i, verdict |-> VerdictOn(sent[c][i])]]

Promise == INSTANCE Dialogue WITH
  Answers <- [of : 1 .. MaxRequests, verdict : Verdicts],
  known <- {c \in Clients : peer[c] # "new"},
  line <- queue,
  serving <- current,
  due <- [c \in Clients |-> Due(c)],
  given <- answers

\* Every step of the server, of its clients and of their connections is a step
\* of the dialogue or none: clients are served once each, in the order in which
\* they connected, and are given an answer only while they are served, each the
\* next that is due (server_loop, handle_client).
KeepsDialogue == Promise!Spec

\* A complete request of the client being served is answered, or the connection
\* or the server ends (handle_client).
RequestsAreServed ==
  \A c \in Clients : \A i \in 1 .. MaxRequests :
    (current = c /\ Len(sent[c]) >= i /\ sent[c][i] # "short")
      ~> (Len(answers[c]) >= i \/ peer[c] # "open" \/ Dead)

\* The requests of client c that are still to be answered, were its connection
\* to last: from the one at hand to the first that ends the dialogue.
Pending(c) ==
  LET first == IF at \in {"handle", "send"} THEN taken[c] ELSE taken[c] + 1 IN
  {i \in first .. Len(sent[c]) :
     \A j \in first .. i : sent[c][j] \notin {"empty", "short"}}

\* The dialogue with c is over, or c has left in a way the server survives: it
\* left no message too long to allocate, and a client that closed left one answer
\* to be sent at most.  The first answer sent after the client closed resets the
\* connection and the second raises SIGPIPE, which ends the server.
LeftSafely(c) ==
  /\ current = c /\ ~Dead
  /\ \/ at = "end"
     \/ /\ \A i \in Pending(c) : sent[c][i] # "huge"
        /\ \/ peer[c] = "broken"
           \/ peer[c] = "closed" /\ \A i, j \in Pending(c) : i = j
           \/ peer[c] = "reset" /\ Pending(c) = {}

\* A client that leaves safely frees the server: it comes back to accept, and
\* the client at the head of the queue is the next to be served, unless accept
\* fails (server_loop).  A server that died has not come back.
LeavingFreesTheServer ==
  \A c \in Clients :
    /\ LeftSafely(c) ~> at = "accept"
    /\ \A d \in Clients :
         (LeftSafely(c) /\ queue # <<>> /\ Head(queue) = d)
           ~> (current = d \/ at = "stopped")

=============================================================================
