-------------------------- MODULE RPCServerProofs --------------------------
(***************************************************************************)
(* Proofs that RPCServer keeps its invariants for any number of clients    *)
(* and requests.                                                           *)
(***************************************************************************)
EXTENDS RPCServer, TLAPS

\* The requests of c that the server has read are answered, but for the one it
\* is busy with; once the client has left nothing more reaches it.
Answered(c) ==
  /\ Len(answers[c]) <= taken[c]
  /\ taken[c] <= Len(sent[c])
  /\ Len(sent[c]) <= MaxRequests
  /\ peer[c] = "open" /\ c # current => Len(answers[c]) = taken[c]

\* Where the server is with the current client.
Busy ==
  /\ at = "start" => current = None
  /\ at \in {"read", "handle", "send", "end", "aborted", "killed"} => current \in Clients
  /\ at \in {"handle", "send"} =>
       /\ taken[current] >= 1
       /\ peer[current] = "open" => Len(answers[current]) = taken[current] - 1
  /\ at = "read" =>
       (peer[current] = "open" => Len(answers[current]) = taken[current])
  /\ at = "send" =>
       response = [of |-> taken[current],
                   verdict |-> VerdictOn(sent[current][taken[current]])]

\* The i-th client waiting to be accepted waits once and has had nothing read.
Waiting(i) ==
  /\ queue[i] # current
  /\ taken[queue[i]] = 0
  /\ peer[queue[i]] # "new"
  /\ \A j \in 1 .. Len(queue) : queue[i] = queue[j] => i = j

\* A client has sent nothing before it connects.
Untouched ==
  /\ \A c \in Clients : peer[c] = "new" => Len(sent[c]) = 0
  /\ current # None => peer[current] # "new"
  /\ \A i \in 1 .. Len(queue) : Waiting(i)

(***************************************************************************)
(* The inductive invariant: AnswersMatch needs to know which request the   *)
(* answer about to be sent belongs to, and OneDialogue that a client still *)
(* waiting has had nothing read.                                           *)
(***************************************************************************)
Inv ==
  /\ TypeOK
  /\ AnswersMatch
  /\ OneDialogue
  /\ \A c \in Clients : Answered(c)
  /\ Busy
  /\ Untouched

\* What the proofs use of sequences.
LEMMA Elements ==
  \A S : \A s \in Seq(S) : Len(s) \in Nat /\ \A i \in 1 .. Len(s) : s[i] \in S
  OBVIOUS

LEMMA Appended ==
  \A S : \A s \in Seq(S) : \A e \in S :
    /\ Append(s, e) \in Seq(S)
    /\ Len(Append(s, e)) = Len(s) + 1
    /\ \A i \in 1 .. Len(s) : Append(s, e)[i] = s[i]
    /\ Append(s, e)[Len(s) + 1] = e
  OBVIOUS

LEMMA Tails ==
  \A S : \A s \in Seq(S) : s # <<>> =>
    /\ Len(s) >= 1 /\ Head(s) = s[1] /\ Head(s) \in S
    /\ Tail(s) \in Seq(S)
    /\ Len(Tail(s)) = Len(s) - 1
    /\ \A i \in 1 .. Len(Tail(s)) : Tail(s)[i] = s[i + 1]
  OBVIOUS

\* What the type of the state says of the sequences in it.
LEMMA SequencesTyped ==
  Inv => /\ Len(queue) \in Nat
         /\ \A i \in 1 .. Len(queue) : queue[i] \in Clients
         /\ \A c \in Clients : Len(sent[c]) \in Nat /\ Len(answers[c]) \in Nat
  BY Elements DEF Inv, TypeOK

LEMMA InitInv == Init => Inv
<1> SUFFICES ASSUME Init PROVE Inv
  OBVIOUS
<1> USE RPCServerAssumption DEF RPCServerAssumption
<1>1. response \in [of : 0 .. MaxRequests, verdict : Verdicts]
  <2>1. 0 \in 0 .. MaxRequests /\ "error" \in Verdicts
    BY DEF Verdicts
  <2> QED BY <2>1 DEF Init, NoResponse
<1>2. /\ sent \in [Clients -> Seq(Requests)]
      /\ answers \in [Clients -> Seq([of : 1 .. MaxRequests, verdict : Verdicts])]
  BY DEF Init
<1>3. TypeOK
  <2>1. queue \in Seq(Clients) /\ taken \in [Clients -> 0 .. MaxRequests]
    BY DEF Init
  <2>2. peer \in [Clients -> {"new", "open", "closed", "reset", "broken"}]
    BY DEF Init
  <2>3. at \in Places /\ running \in BOOLEAN /\ connected \in BOOLEAN
    BY DEF Init, Places
  <2> QED BY <1>1, <1>2, <2>1, <2>2, <2>3 DEF Init, TypeOK
<1>4. AnswersMatch /\ OneDialogue
  BY DEF Init, AnswersMatch, OneDialogue, Dead
<1>5. \A c \in Clients : Answered(c)
  <2> SUFFICES ASSUME NEW c \in Clients PROVE Answered(c)
    OBVIOUS
  <2>1. answers[c] = <<>> /\ sent[c] = <<>> /\ taken[c] = 0
    BY DEF Init
  <2>2. Len(<<>>) = 0
    OBVIOUS
  <2> QED BY <2>1, <2>2 DEF Answered
<1>6. Busy /\ Untouched
  BY DEF Init, Busy, Untouched
<1> QED BY <1>3, <1>4, <1>5, <1>6 DEF Inv

-----------------------------------------------------------------------------
(* The clients' actions.                                                   *)

LEMMA ConnectInv == ASSUME NEW c \in Clients, Inv, Connect(c) PROVE Inv'
<1> USE RPCServerAssumption DEF RPCServerAssumption
<1>1. TypeOK'
  <2>1. queue' \in Seq(Clients)
    BY Appended DEF Inv, TypeOK, Connect
  <2> QED BY <2>1 DEF Inv, TypeOK, Connect, server
<1>2. AnswersMatch' /\ OneDialogue'
  <2>1. AnswersMatch'
    BY DEF Inv, AnswersMatch, Connect
  <2>2. OneDialogue'
    <3>1. /\ UNCHANGED <<connected, current, at, taken, answers>>
          /\ \A d \in Clients : peer'[d] = "broken" => peer[d] = "broken"
          /\ \A d \in Clients : peer[d] = "broken" => peer'[d] = "broken"
      BY DEF Inv, TypeOK, Connect, server
    <3> QED BY <3>1 DEF Inv, OneDialogue, Dead
  <2> QED BY <2>1, <2>2
<1>3. ASSUME NEW d \in Clients PROVE Answered(d)'
  BY DEF Inv, TypeOK, Answered, Untouched, Connect, server
<1>4. Busy'
  BY DEF Inv, TypeOK, Busy, Answered, Untouched, Connect, server
<1>5. Untouched'
  <2>1. /\ \A i \in 1 .. Len(queue) : queue'[i] = queue[i]
        /\ queue'[Len(queue) + 1] = c /\ Len(queue') = Len(queue) + 1
    BY Appended DEF Inv, TypeOK, Connect
  <2>2. taken[c] = 0 /\ c # current /\ c # None
    BY SequencesTyped DEF Inv, TypeOK, Answered, Untouched, Connect
  <2>3. /\ Len(queue) \in Nat
        /\ \A i \in 1 .. Len(queue) : queue[i] \in Clients /\ queue[i] # c /\ Waiting(i)
    BY SequencesTyped DEF Inv, Untouched, Waiting, Connect
  <2>4. /\ UNCHANGED <<current, taken>>
        /\ peer'[c] = "open" /\ \A d \in Clients : d # c => peer'[d] = peer[d]
    BY DEF Inv, TypeOK, Connect, server
  <2>5. ASSUME NEW i \in 1 .. Len(queue') PROVE Waiting(i)'
    <3>1. CASE i \in 1 .. Len(queue)
      BY <2>1, <2>2, <2>3, <2>4, <3>1 DEF Waiting
    <3>2. CASE i = Len(queue) + 1
      BY <2>1, <2>2, <2>3, <2>4, <3>2 DEF Waiting
    <3> QED BY <2>1, <2>3, <3>1, <3>2
  <2> QED BY <2>2, <2>5 DEF Inv, TypeOK, Untouched, Connect, server
<1> QED BY <1>1, <1>2, <1>3, <1>4, <1>5 DEF Inv

LEMMA SendRequestInv ==
  ASSUME NEW c \in Clients, NEW r \in Requests, Inv, SendRequest(c, r) PROVE Inv'
<1> USE RPCServerAssumption DEF RPCServerAssumption
<1>1. TypeOK'
  <2>1. sent' \in [Clients -> Seq(Requests)]
    BY Appended DEF Inv, TypeOK, SendRequest
  <2> QED BY <2>1 DEF Inv, TypeOK, SendRequest, server
<1>0. /\ \A d \in Clients : \A i \in 1 .. Len(sent[d]) : sent'[d][i] = sent[d][i]
      /\ \A d \in Clients : Len(sent'[d]) >= Len(sent[d])
      /\ \A d \in Clients : d # c => sent'[d] = sent[d]
      /\ Len(sent'[c]) = Len(sent[c]) + 1
      /\ \A d \in Clients : Len(sent[d]) \in Nat /\ Len(answers[d]) \in Nat
  <2>1. /\ \A d \in Clients : d # c => sent'[d] = sent[d]
        /\ sent'[c] = Append(sent[c], r)
    BY DEF Inv, TypeOK, SendRequest
  <2>2. \A d \in Clients : Len(sent[d]) \in Nat /\ Len(answers[d]) \in Nat
    BY SequencesTyped DEF Inv
  <2>3. /\ Len(sent'[c]) = Len(sent[c]) + 1
        /\ \A i \in 1 .. Len(sent[c]) : sent'[c][i] = sent[c][i]
    BY <2>1, Appended DEF Inv, TypeOK
  <2>4. ASSUME NEW d \in Clients
        PROVE  /\ \A i \in 1 .. Len(sent[d]) : sent'[d][i] = sent[d][i]
               /\ Len(sent'[d]) >= Len(sent[d])
    <3>1. CASE d = c
      BY <2>2, <2>3, <3>1
    <3>2. CASE d # c
      BY <2>1, <2>2, <3>2
    <3> QED BY <3>1, <3>2
  <2> QED BY <2>1, <2>2, <2>3, <2>4
<1>2. AnswersMatch' /\ OneDialogue'
  <2>1. AnswersMatch'
    <3> SUFFICES ASSUME NEW d \in Clients, NEW i \in 1 .. Len(answers[d])
                 PROVE  /\ i <= Len(sent'[d])
                        /\ answers[d][i] = [of |-> i, verdict |-> VerdictOn(sent'[d][i])]
      BY DEF AnswersMatch, SendRequest
    <3>1. /\ i \in Int /\ i >= 1 /\ i <= Len(sent[d])
          /\ answers[d][i] = [of |-> i, verdict |-> VerdictOn(sent[d][i])]
      BY <1>0 DEF Inv, AnswersMatch
    <3>2. sent'[d][i] = sent[d][i]
      BY <1>0, <3>1
    <3>3. i <= Len(sent'[d])
      BY <1>0, <3>1
    <3> QED BY <3>1, <3>2, <3>3
  <2>2. OneDialogue'
    BY DEF Inv, OneDialogue, Dead, SendRequest, server
  <2> QED BY <2>1, <2>2
<1>3. ASSUME NEW d \in Clients PROVE Answered(d)'
  BY <1>0 DEF Inv, TypeOK, Answered, SendRequest, server
<1>4. Busy'
  BY <1>0 DEF Inv, TypeOK, Busy, Answered, SendRequest, server
<1>5. Untouched'
  BY <1>0 DEF Inv, Untouched, Waiting, SendRequest, server
<1> QED BY <1>1, <1>2, <1>3, <1>4, <1>5 DEF Inv

LEMMA LeaveInv == ASSUME NEW c \in Clients, Inv, Leave(c) PROVE Inv'
<1> USE RPCServerAssumption DEF RPCServerAssumption
<1>1. TypeOK'
  BY DEF Inv, TypeOK, Leave, server
<1>2. AnswersMatch' /\ OneDialogue'
  BY DEF Inv, TypeOK, AnswersMatch, OneDialogue, Dead, Leave, server
<1>3. ASSUME NEW d \in Clients PROVE Answered(d)'
  BY DEF Inv, TypeOK, Answered, Leave, server
<1>4. Busy'
  BY DEF Inv, TypeOK, Busy, Leave, server
<1>5. Untouched'
  BY SequencesTyped DEF Inv, TypeOK, Untouched, Waiting, Leave, server
<1> QED BY <1>1, <1>2, <1>3, <1>4, <1>5 DEF Inv

-----------------------------------------------------------------------------
(* The server's actions.                                                   *)

LEMMA AcceptInv == ASSUME Inv, Accept PROVE Inv'
<1> USE RPCServerAssumption DEF RPCServerAssumption
<1>0. /\ current = None /\ at' = "read" /\ connected' = TRUE
      /\ current' = queue[1] /\ current' \in Clients /\ Len(queue) >= 1
      /\ Len(queue) \in Nat /\ \A i \in 1 .. Len(queue) : queue[i] \in Clients
      /\ queue' \in Seq(Clients) /\ Len(queue') = Len(queue) - 1
      /\ \A i \in 1 .. Len(queue') : queue'[i] = queue[i + 1]
      /\ UNCHANGED <<running, response, peer, sent, taken, answers>>
  BY Tails, SequencesTyped DEF Inv, TypeOK, OneDialogue, Accept
<1>1. TypeOK'
  BY <1>0 DEF Inv, TypeOK, Places
<1>2. AnswersMatch' /\ OneDialogue'
  BY <1>0 DEF Inv, TypeOK, AnswersMatch, OneDialogue, Dead, Accept
<1>3. ASSUME NEW d \in Clients PROVE Answered(d)'
  BY <1>0 DEF Inv, Answered
<1>4. Busy'
  BY <1>0 DEF Inv, Busy, Answered
<1>5. Untouched'
  <2>1. \A i \in 1 .. Len(queue) : Waiting(i)
    BY DEF Inv, Untouched
  <2>2. peer[queue[1]] # "new"
    BY <1>0, <2>1 DEF Waiting
  <2>3. ASSUME NEW i \in 1 .. Len(queue') PROVE Waiting(i)'
    <3>1. i + 1 \in 1 .. Len(queue) /\ i + 1 # 1 /\ 1 \in 1 .. Len(queue)
      BY <1>0
    <3>2. Waiting(i + 1)
      BY <2>1, <3>1
    <3>3. queue[i + 1] # queue[1]
      BY <3>1, <3>2 DEF Waiting
    <3>4. ASSUME NEW j \in 1 .. Len(queue'), queue'[i] = queue'[j] PROVE i = j
      <4>1. j + 1 \in 1 .. Len(queue) /\ queue[i + 1] = queue[j + 1]
        BY <1>0, <3>4
      <4>2. i + 1 = j + 1
        BY <3>2, <4>1 DEF Waiting
      <4> QED BY <1>0, <4>2
    <3>5. queue'[i] = queue[i + 1] /\ taken' = taken /\ peer' = peer /\ current' = queue[1]
      BY <1>0
    <3> QED BY <3>2, <3>3, <3>4, <3>5 DEF Waiting
  <2>4. \A c \in Clients : peer'[c] = "new" => Len(sent'[c]) = 0
    BY <1>0 DEF Inv, Untouched
  <2> QED BY <1>0, <2>2, <2>3, <2>4 DEF Untouched
<1> QED BY <1>1, <1>2, <1>3, <1>4, <1>5 DEF Inv

LEMMA BeginInv == ASSUME Inv, Begin \/ AcceptFails PROVE Inv'
<1> USE RPCServerAssumption DEF RPCServerAssumption
<1>1. TypeOK'
  BY DEF Inv, TypeOK, Begin, AcceptFails, Places, network
<1>2. AnswersMatch' /\ OneDialogue'
  <2>1. AnswersMatch'
    BY DEF Inv, AnswersMatch, Begin, AcceptFails, network
  <2>2. OneDialogue'
    <3>1. CASE Begin
      BY <3>1 DEF Inv, TypeOK, OneDialogue, Busy, Dead, Begin, network
    <3>2. CASE AcceptFails
      <4>1. connected' = FALSE /\ current' = None /\ at' = "stopped"
        BY <3>2 DEF AcceptFails
      <4> QED BY <4>1 DEF OneDialogue, Dead
    <3> QED BY <3>1, <3>2
  <2> QED BY <2>1, <2>2
<1>3. ASSUME NEW d \in Clients PROVE Answered(d)'
  BY DEF Inv, TypeOK, OneDialogue, Answered, Begin, AcceptFails, network
<1>4. Busy'
  BY DEF Inv, TypeOK, Busy, Begin, AcceptFails, network
<1>5. Untouched'
  BY SequencesTyped DEF Inv, Untouched, Waiting, Begin, AcceptFails, network
<1> QED BY <1>1, <1>2, <1>3, <1>4, <1>5 DEF Inv

LEMMA ReadMessageInv == ASSUME Inv, ReadMessage PROVE Inv'
<1> USE RPCServerAssumption DEF RPCServerAssumption
<1>0. /\ at = "read" /\ current \in Clients
      /\ at' \in {"handle", "end", "aborted"}
      /\ UNCHANGED <<running, connected, current, response, queue, peer, sent, answers>>
      /\ \/ /\ taken' = [taken EXCEPT ![current] = @ + 1]
            /\ taken[current] < Len(sent[current])
         \/ /\ taken' = taken
            /\ at' = "end"
  BY DEF Inv, Busy, ReadMessage, Goto, Unread
<1>1. TypeOK'
  <2>1. taken' \in [Clients -> 0 .. MaxRequests]
    <3>1. taken[current] \in 0 .. MaxRequests /\ Len(sent[current]) \in Nat
          /\ Len(sent[current]) <= MaxRequests
      BY <1>0, SequencesTyped DEF Inv, TypeOK, Answered
    <3>2. taken[current] < Len(sent[current]) => taken[current] + 1 \in 0 .. MaxRequests
      BY <3>1
    <3> QED BY <1>0, <3>2 DEF Inv, TypeOK
  <2> QED BY <1>0, <2>1 DEF Inv, TypeOK, Places
<1>2. AnswersMatch' /\ OneDialogue'
  BY <1>0 DEF Inv, TypeOK, AnswersMatch, OneDialogue, Dead
<1>3. ASSUME NEW d \in Clients PROVE Answered(d)'
  BY <1>0 DEF Inv, TypeOK, Answered
<1>4. Busy'
  BY <1>0 DEF Inv, TypeOK, Busy
<1>5. Untouched'
  <2>1. \A d \in Clients : d # current => taken'[d] = taken[d]
    BY <1>0 DEF Inv, TypeOK
  <2> QED BY <1>0, <2>1, SequencesTyped DEF Inv, Untouched, Waiting
<1> QED BY <1>1, <1>2, <1>3, <1>4, <1>5 DEF Inv

LEMMA HandleRequestInv == ASSUME Inv, HandleRequest PROVE Inv'
<1> USE RPCServerAssumption DEF RPCServerAssumption
<1>0. /\ at = "handle" /\ at' = "send" /\ current \in Clients
      /\ taken[current] \in 1 .. MaxRequests
      /\ response' = [of |-> taken[current],
                      verdict |-> VerdictOn(sent[current][taken[current]])]
      /\ UNCHANGED <<running, connected, current, queue, peer, sent, taken, answers>>
  BY DEF Inv, TypeOK, Busy, HandleRequest, Goto, network
<1>v. \A r : VerdictOn(r) \in Verdicts
  BY DEF VerdictOn, Verdicts
<1>1. TypeOK'
  BY <1>0, <1>v DEF Inv, TypeOK, Places
<1>2. AnswersMatch' /\ OneDialogue'
  BY <1>0 DEF Inv, TypeOK, AnswersMatch, OneDialogue, Dead
<1>3. ASSUME NEW d \in Clients PROVE Answered(d)'
  BY <1>0 DEF Inv, TypeOK, Answered
<1>4. Busy'
  BY <1>0 DEF Inv, TypeOK, Busy
<1>5. Untouched'
  BY <1>0 DEF Inv, Untouched, Waiting
<1> QED BY <1>1, <1>2, <1>3, <1>4, <1>5 DEF Inv

LEMMA SendMessageInv == ASSUME Inv, SendMessage PROVE Inv'
<1> USE RPCServerAssumption DEF RPCServerAssumption
<1>0. /\ at = "send" /\ current \in Clients
      /\ taken[current] \in 1 .. MaxRequests
      /\ UNCHANGED <<running, connected, current, response, queue, sent, taken>>
  BY DEF Inv, TypeOK, Busy, SendMessage, Goto
<1>1. CASE /\ peer[current] = "open" /\ at' = "read" /\ peer' = peer
           /\ answers' = [answers EXCEPT ![current] = Append(@, response)]
  <2>1. Len(answers[current]) = taken[current] - 1
        /\ response = [of |-> taken[current],
                       verdict |-> VerdictOn(sent[current][taken[current]])]
    BY <1>0, <1>1 DEF Inv, Busy
  <2>2. response \in [of : 1 .. MaxRequests, verdict : Verdicts]
    BY <1>0, <2>1 DEF Inv, TypeOK
  <2>3. TypeOK'
    <3>1. answers' \in [Clients -> Seq([of : 1 .. MaxRequests, verdict : Verdicts])]
      BY <1>1, <2>2, Appended DEF Inv, TypeOK
    <3> QED BY <1>0, <1>1, <3>1 DEF Inv, TypeOK, Places
  <2>4. AnswersMatch'
    BY <1>0, <1>1, <2>1, <2>2 DEF Inv, TypeOK, AnswersMatch, Answered
  <2>5. OneDialogue'
    BY <1>0, <1>1, <2>1, <2>2 DEF Inv, TypeOK, OneDialogue, Dead
  <2>6. ASSUME NEW d \in Clients PROVE Answered(d)'
    BY <1>0, <1>1, <2>1, <2>2 DEF Inv, TypeOK, Answered
  <2>7. Busy'
    BY <1>0, <1>1, <2>1, <2>2 DEF Inv, TypeOK, Busy
  <2>8. Untouched'
    BY <1>0, <1>1 DEF Inv, Untouched, Waiting
  <2> QED BY <2>3, <2>4, <2>5, <2>6, <2>7, <2>8 DEF Inv
<1>2. CASE /\ peer[current] # "open" /\ at' \in {"read", "end", "killed"} /\ answers' = answers
           /\ \/ peer' = peer /\ at' # "read"
              \/ peer[current] = "closed" /\ peer' = [peer EXCEPT ![current] = "reset"]
  <2>1. TypeOK'
    BY <1>0, <1>2 DEF Inv, TypeOK, Places
  <2>2. AnswersMatch' /\ OneDialogue'
    <3>1. AnswersMatch'
      BY <1>0, <1>2 DEF Inv, AnswersMatch
    <3>2. OneDialogue'
      BY <1>0, <1>2 DEF Inv, TypeOK, OneDialogue, Dead
    <3> QED BY <3>1, <3>2
  <2>3. ASSUME NEW d \in Clients PROVE Answered(d)'
    BY <1>0, <1>2 DEF Inv, TypeOK, Answered
  <2>4. Busy'
    BY <1>0, <1>2 DEF Inv, TypeOK, Busy
  <2>5. Untouched'
    <3>1. current \in Clients
      BY <1>0
    <3>2. \A d \in Clients : d # current => peer'[d] = peer[d]
      BY <1>2 DEF Inv, TypeOK
    <3>3. peer'[current] # "new" /\ peer[current] # "new"
      BY <1>0, <1>2 DEF Inv, TypeOK, Untouched
    <3> QED BY <1>0, <1>2, <3>1, <3>2, <3>3, SequencesTyped DEF Inv, Untouched, Waiting
  <2> QED BY <2>1, <2>2, <2>3, <2>4, <2>5 DEF Inv
<1> QED BY <1>1, <1>2 DEF SendMessage, Goto

LEMMA EndClientInv == ASSUME Inv, EndClient PROVE Inv'
<1> USE RPCServerAssumption DEF RPCServerAssumption
<1>0. current \in Clients
  BY DEF Inv, Busy, EndClient
<1>1. TypeOK'
  BY <1>0 DEF Inv, TypeOK, EndClient, Places
<1>2. AnswersMatch' /\ OneDialogue'
  BY <1>0 DEF Inv, TypeOK, AnswersMatch, OneDialogue, Dead, EndClient
<1>3. ASSUME NEW d \in Clients PROVE Answered(d)'
  BY <1>0 DEF Inv, TypeOK, Answered, EndClient
<1>4. Busy'
  BY <1>0 DEF Inv, TypeOK, Busy, EndClient
<1>5. Untouched'
  BY <1>0, SequencesTyped DEF Inv, TypeOK, Untouched, Waiting, EndClient
<1> QED BY <1>1, <1>2, <1>3, <1>4, <1>5 DEF Inv

LEMMA StutterInv == ASSUME Inv, UNCHANGED vars PROVE Inv'
  BY DEF Inv, TypeOK, AnswersMatch, OneDialogue, Dead, Answered, Busy, Untouched,
         Waiting, vars, server, network

-----------------------------------------------------------------------------
(* The promise of Dialogue.                                                *)

AnswerRecords == [of : 1 .. MaxRequests, verdict : Verdicts]

\* There is one answer due per request, numbered as the request is.
LEMMA DueFacts ==
  ASSUME TypeOK, NEW c \in Clients, Len(sent[c]) <= MaxRequests
  PROVE  /\ Due(c) \in Seq(AnswerRecords)
         /\ Len(Due(c)) = Len(sent[c])
         /\ \A i \in 1 .. Len(sent[c]) :
              Due(c)[i] = [of |-> i, verdict |-> VerdictOn(sent[c][i])]
<1> DEFINE n == Len(sent[c])
<1>1. n \in Nat
  BY Elements DEF TypeOK
<1>2. \A i \in 1 .. n : [of |-> i, verdict |-> VerdictOn(sent[c][i])] \in AnswerRecords
  <2> TAKE i \in 1 .. n
  <2>1. i \in 1 .. MaxRequests
    BY <1>1, RPCServerAssumption DEF RPCServerAssumption
  <2>2. VerdictOn(sent[c][i]) \in Verdicts
    BY DEF VerdictOn, Verdicts
  <2> QED BY <2>1, <2>2 DEF AnswerRecords
<1>3. Due(c) = [i \in 1 .. n |-> [of |-> i, verdict |-> VerdictOn(sent[c][i])]]
  BY DEF Due
<1>4. Due(c) \in [1 .. n -> AnswerRecords]
  BY <1>2, <1>3
<1>5. Due(c) \in Seq(AnswerRecords) /\ Len(Due(c)) = n
  BY <1>1, <1>4
<1> QED
  BY <1>3, <1>5

\* A request sent adds the answer due to it and changes no other.
LEMMA SendRequestKeepsDialogue ==
  ASSUME Inv, NEW c \in Clients, NEW r \in Requests, SendRequest(c, r)
  PROVE  Promise!Next
<1> DEFINE n == Len(sent[c])
           e == [of |-> n + 1, verdict |-> VerdictOn(r)]
<1>1. /\ n \in Nat /\ n < MaxRequests /\ MaxRequests \in Nat
      /\ sent' = [sent EXCEPT ![c] = Append(sent[c], r)]
      /\ UNCHANGED <<queue, peer, current, answers>>
  BY SequencesTyped, RPCServerAssumption DEF SendRequest, server, RPCServerAssumption
<1>2. sent[c] \in Seq(Requests) /\ sent \in [Clients -> Seq(Requests)]
  BY DEF Inv, TypeOK
<1>3. /\ sent'[c] = Append(sent[c], r)
      /\ \A d \in Clients : d # c => sent'[d] = sent[d]
  BY <1>1, <1>2
<1>4. /\ Len(sent'[c]) = n + 1 /\ sent'[c][n + 1] = r
      /\ \A i \in 1 .. n : sent'[c][i] = sent[c][i]
  BY <1>2, <1>3, Appended
<1>5. e \in AnswerRecords
  <2>1. VerdictOn(r) \in Verdicts
    BY DEF VerdictOn, Verdicts
  <2> QED BY <1>1, <2>1 DEF AnswerRecords
<1>6. /\ Due(c) \in Seq(AnswerRecords) /\ Len(Due(c)) = n
      /\ \A i \in 1 .. n : Due(c)[i] = [of |-> i, verdict |-> VerdictOn(sent[c][i])]
  BY <1>1, DueFacts DEF Inv
<1>7. Due(c)' = Append(Due(c), e)
  <2>1. Due(c)' = [i \in 1 .. n + 1 |-> [of |-> i, verdict |-> VerdictOn(sent'[c][i])]]
    BY <1>4 DEF Due
  <2>2. /\ Append(Due(c), e) \in Seq(AnswerRecords)
        /\ Len(Append(Due(c), e)) = n + 1
        /\ \A i \in 1 .. n : Append(Due(c), e)[i] = Due(c)[i]
        /\ Append(Due(c), e)[n + 1] = e
    BY <1>5, <1>6, Appended
  <2>3. Append(Due(c), e) = [i \in 1 .. n + 1 |-> Append(Due(c), e)[i]]
    BY <2>2
  <2>4. \A i \in 1 .. n + 1 :
          Append(Due(c), e)[i] = [of |-> i, verdict |-> VerdictOn(sent'[c][i])]
    <3> TAKE i \in 1 .. n + 1
    <3>1. CASE i = n + 1
      BY <1>4, <2>2, <3>1
    <3>2. CASE i # n + 1
      <4>1. i \in 1 .. n
        BY <1>1, <3>2
      <4> QED BY <1>4, <1>6, <2>2, <4>1
    <3> QED BY <3>1, <3>2
  <2> HIDE DEF e, n
  <2> QED BY <2>1, <2>3, <2>4
<1>8. \A d \in Clients : d # c => Due(d)' = Due(d)
  BY <1>3 DEF Due
<1>9. [d \in Clients |-> Due(d)]'
        = [[d \in Clients |-> Due(d)] EXCEPT ![c] = Append(Due(c), e)]
  <2> HIDE DEF e
  <2> QED BY <1>7, <1>8
<1>10. peer[c] # "new"
  BY DEF SendRequest
<1>11. Promise!Ask(c, e)
  BY <1>1, <1>9, <1>10 DEF Promise!Ask
<1> QED
  BY <1>5, <1>11 DEF Promise!Next, AnswerRecords

\* An answer sent to a client that is there to receive it is the next one due.
LEMMA SendMessageKeepsDialogue ==
  ASSUME Inv, SendMessage
  PROVE  Promise!Next \/ UNCHANGED Promise!vars
<1> DEFINE c == current
<1>1. /\ c \in Clients /\ UNCHANGED <<current, queue, sent>>
      /\ taken[c] \in 1 .. MaxRequests /\ taken[c] <= Len(sent[c])
      /\ Len(sent[c]) <= MaxRequests
  BY DEF Inv, TypeOK, Busy, Answered, SendMessage, Goto
<1>2. {d \in Clients : peer'[d] # "new"} = {d \in Clients : peer[d] # "new"}
  BY <1>1 DEF SendMessage, Inv, TypeOK
<1>3. [d \in Clients |-> Due(d)]' = [d \in Clients |-> Due(d)]
  BY <1>1 DEF Due
<1>4. CASE peer[c] = "open" /\ answers' = [answers EXCEPT ![c] = Append(@, response)]
  <2>1. /\ Len(answers[c]) = taken[c] - 1
        /\ response = [of |-> taken[c], verdict |-> VerdictOn(sent[c][taken[c]])]
    BY <1>4 DEF Inv, Busy, SendMessage
  <2>2. Len(Due(c)) = Len(sent[c]) /\ Due(c)[taken[c]] = response
    BY <1>1, <2>1, DueFacts DEF Inv
  <2>3. Len(answers[c]) + 1 = taken[c] /\ Len(answers[c]) < Len(Due(c))
    BY <1>1, <2>1, <2>2, SequencesTyped
  <2>4. Promise!Give(c)
    BY <1>1, <1>2, <1>3, <1>4, <2>2, <2>3 DEF Promise!Give
  <2> QED
    BY <1>1, <2>4 DEF Promise!Next
<1>5. CASE answers' = answers
  BY <1>1, <1>2, <1>3, <1>5 DEF Promise!vars
<1> QED
  BY <1>4, <1>5 DEF SendMessage

\* A step of the server, a client or a connection is a step of the dialogue or
\* leaves it as it is.
LEMMA DialogueStep ==
  ASSUME Inv, [Next]_vars
  PROVE  [Promise!Next]_(Promise!vars)
<1>1. ASSUME UNCHANGED sent PROVE [d \in Clients |-> Due(d)]' = [d \in Clients |-> Due(d)]
  BY <1>1 DEF Due
<1>2. ASSUME NEW c \in Clients, Connect(c) PROVE Promise!Next
  <2>1. /\ peer[c] = "new" /\ queue' = Append(queue, c)
        /\ UNCHANGED <<current, sent, answers>>
        /\ {d \in Clients : peer'[d] # "new"} = {d \in Clients : peer[d] # "new"} \cup {c}
    BY <1>2 DEF Connect, server, Inv, TypeOK
  <2>2. Promise!Join(c)
    BY <1>1, <2>1 DEF Promise!Join
  <2> QED BY <2>2 DEF Promise!Next
<1>3. ASSUME NEW c \in Clients, Leave(c) PROVE UNCHANGED Promise!vars
  <2>1. /\ UNCHANGED <<queue, current, sent, answers>>
        /\ {d \in Clients : peer'[d] # "new"} = {d \in Clients : peer[d] # "new"}
    BY <1>3 DEF Leave, server, Inv, TypeOK
  <2> QED BY <1>1, <2>1 DEF Promise!vars
<1>4. ASSUME Accept PROVE Promise!Next
  <2>1. /\ current = None /\ queue # <<>> /\ current' = Head(queue) /\ queue' = Tail(queue)
        /\ UNCHANGED <<peer, sent, answers>>
    BY <1>4 DEF Accept, Inv, OneDialogue
  <2>2. Promise!Serve
    BY <1>1, <2>1 DEF Promise!Serve
  <2> QED BY <2>2 DEF Promise!Next
<1>5. ASSUME EndClient PROVE Promise!Next
  <2>1. /\ current \in Clients /\ current # None /\ current' = None
        /\ UNCHANGED <<queue, sent, answers>>
    BY <1>5, RPCServerAssumption DEF EndClient, Inv, Busy, RPCServerAssumption
  <2>2. {d \in Clients : peer'[d] # "new"} = {d \in Clients : peer[d] # "new"}
    BY <1>5, <2>1 DEF EndClient, Inv, TypeOK, Untouched
  <2>3. Promise!Leave
    BY <1>1, <2>1, <2>2 DEF Promise!Leave
  <2> QED BY <2>3 DEF Promise!Next
<1>6. ASSUME Begin \/ ReadMessage \/ HandleRequest \/ UNCHANGED vars
      PROVE  UNCHANGED Promise!vars
  <2>1. UNCHANGED <<peer, queue, current, sent, answers>>
    BY <1>6 DEF Begin, ReadMessage, HandleRequest, Goto, vars, server, network
  <2> QED BY <1>1, <2>1 DEF Promise!vars
<1>7. ASSUME AcceptFails PROVE UNCHANGED Promise!vars
  <2>1. current = None /\ current' = None /\ UNCHANGED <<peer, queue, sent, answers>>
    BY <1>7 DEF AcceptFails, network, Inv, OneDialogue
  <2> QED BY <1>1, <2>1 DEF Promise!vars
<1> QED
  BY <1>2, <1>3, <1>4, <1>5, <1>6, <1>7, SendRequestKeepsDialogue, SendMessageKeepsDialogue
  DEF Next, Server

-----------------------------------------------------------------------------
(* The theorems.                                                           *)

\* Every reachable state satisfies the inductive invariant.
THEOREM ServerInvariance == Spec => []Inv
<1>1. Init => Inv
  BY InitInv
<1>2. Inv /\ [Next]_vars => Inv'
  BY ConnectInv, SendRequestInv, LeaveInv, AcceptInv, BeginInv, ReadMessageInv,
     HandleRequestInv, SendMessageInv, EndClientInv, StutterInv
     DEF Next, Server
<1> QED BY <1>1, <1>2, PTL DEF Spec

\* The server's fields and the connections stay well formed (rpc_server.hpp).
THEOREM ServerTypeCorrect == Spec => []TypeOK
<1>1. Inv => TypeOK
  BY DEF Inv
<1> QED BY <1>1, ServerInvariance, PTL

\* The n-th answer a client receives is the verdict on its n-th request
\* (handle_client).
THEOREM AnswersFollowRequests == Spec => []AnswersMatch
<1>1. Inv => AnswersMatch
  BY DEF Inv
<1> QED BY <1>1, ServerInvariance, PTL

\* The server talks to one client at a time and leaves no request behind but
\* the one it is busy with (server_loop, handle_client).
THEOREM OneClientAtATime == Spec => []OneDialogue
<1>1. Inv => OneDialogue
  BY DEF Inv
<1> QED BY <1>1, ServerInvariance, PTL

\* Every step of the server is a step of the dialogue or none: clients are served
\* once each, in the order in which they connected, and are given the answers due
\* to them one by one while they are served (server_loop, handle_client).
THEOREM DialogueIsKept == Spec => KeepsDialogue
<1>1. Init => Promise!Init
  <2> SUFFICES ASSUME Init PROVE Promise!Init
    OBVIOUS
  <2>1. \A c \in Clients : sent[c] = <<>>
    BY DEF Init
  <2>2. \A c \in Clients : Due(c) = <<>>
    <3>1. ASSUME NEW c \in Clients PROVE DOMAIN Due(c) = {}
      <4>1. DOMAIN Due(c) = 1 .. Len(sent[c])
        BY DEF Due
      <4>2. Len(sent[c]) = 0
        BY <2>1
      <4>3. 1 .. 0 = {}
        OBVIOUS
      <4> QED BY <4>1, <4>2, <4>3
    <3>2. \A c \in Clients : Due(c) = [i \in {} |-> [of |-> i, verdict |-> VerdictOn(sent[c][i])]]
      BY <3>1 DEF Due
    <3>3. <<>> = [i \in {} |-> 0]
      OBVIOUS
    <3> QED BY <3>2, <3>3
  <2>3. {c \in Clients : peer[c] # "new"} = {}
    BY DEF Init
  <2> QED BY <2>2, <2>3 DEF Init, Promise!Init
<1>2. Inv /\ [Next]_vars => [Promise!Next]_(Promise!vars)
  BY DialogueStep
<1> QED
  BY <1>1, <1>2, ServerInvariance, PTL DEF Spec, KeepsDialogue, Promise!Spec

=============================================================================
