------------------------------ MODULE Dialogue ------------------------------
(***************************************************************************)
(* What Base::RPCServer promises its clients: they are served one after    *)
(* the other in the order in which they connected, each once, and a client *)
(* that is being served is given the answers due to it one by one.         *)
(* Connections that break, places in the server and answers that are lost  *)
(* do not appear here: such a client is given fewer answers.               *)
(***************************************************************************)
EXTENDS Integers, Sequences

CONSTANTS Clients, Answers, None

VARIABLES
  known,     \* clients that have connected
  line,      \* those of them still to be served
  serving,   \* the client being served, or None
  due,       \* the answers due to each client, in order
  given      \* the answers each client has been given

vars == <<known, line, serving, due, given>>

Init ==
  /\ known = {}
  /\ line = <<>>
  /\ serving = None
  /\ due = [c \in Clients |-> <<>>]
  /\ given = [c \in Clients |-> <<>>]

Join(c) ==
  /\ c \notin known
  /\ known' = known \cup {c}
  /\ line' = Append(line, c)
  /\ UNCHANGED <<serving, due, given>>

\* A client that has connected sends a request.
Ask(c, answer) ==
  /\ c \in known
  /\ due' = [due EXCEPT ![c] = Append(@, answer)]
  /\ UNCHANGED <<known, line, serving, given>>

Serve ==
  /\ serving = None
  /\ line # <<>>
  /\ serving' = Head(line)
  /\ line' = Tail(line)
  /\ UNCHANGED <<known, due, given>>

Give(c) ==
  /\ serving = c
  /\ Len(given[c]) < Len(due[c])
  /\ given' = [given EXCEPT ![c] = Append(@, due[c][Len(@) + 1])]
  /\ UNCHANGED <<known, line, serving, due>>

Leave ==
  /\ serving # None
  /\ serving' = None
  /\ UNCHANGED <<known, line, due, given>>

Next ==
  \/ \E c \in Clients : Join(c) \/ Give(c) \/ \E answer \in Answers : Ask(c, answer)
  \/ Serve
  \/ Leave

Spec == Init /\ [][Next]_vars

=============================================================================
