------------------------------ MODULE TrapTable ------------------------------
(***************************************************************************)
(* What the software side of Core::BreakpointManager promises its caller:  *)
(* a set of points, each with an id that no other point ever has, and a    *)
(* target that traps exactly at the points that are on.  Words, original   *)
(* instructions, indexes and failing accesses do not appear here.          *)
(***************************************************************************)
EXTENDS Integers, Functions

CONSTANTS Processes, Addresses, Ids

VARIABLES
  points,    \* the points: id -> [process, address, on]
  traps,     \* where each process traps
  issued     \* ids given out so far, to points of any kind

vars == <<points, traps, issued>>

Init ==
  /\ points = <<>>
  /\ traps = [p \in Processes |-> {}]
  /\ issued = {}

\* A new point is on, at a place where no point is, under an id never used.
Place(id, p, a) ==
  /\ id \notin issued
  /\ a \notin traps[p]
  /\ \A i \in DOMAIN points : points[i].address # a
  /\ points' = [i \in DOMAIN points \cup {id} |->
                  IF i = id THEN [process |-> p, address |-> a, on |-> TRUE]
                            ELSE points[i]]
  /\ traps' = [traps EXCEPT ![p] = @ \cup {a}]
  /\ issued' = issued \cup {id}

\* The id goes to a hardware breakpoint.
Issue(id) ==
  /\ id \notin issued
  /\ issued' = issued \cup {id}
  /\ UNCHANGED <<points, traps>>

Take(id) ==
  /\ id \in DOMAIN points
  /\ points' = Restrict(points, DOMAIN points \ {id})
  /\ traps' = [traps EXCEPT ![points[id].process] = @ \ {points[id].address}]
  /\ UNCHANGED issued

Turn(id, on) ==
  /\ id \in DOMAIN points
  /\ points[id].on # on
  /\ points' = [points EXCEPT ![id].on = on]
  /\ traps' = [traps EXCEPT ![points[id].process] =
                 IF on THEN @ \cup {points[id].address} ELSE @ \ {points[id].address}]
  /\ UNCHANGED issued

Next ==
  \E id \in Ids :
    \/ \E p \in Processes, a \in Addresses : Place(id, p, a)
    \/ Issue(id)
    \/ Take(id)
    \/ \E on \in BOOLEAN : Turn(id, on)

Spec == Init /\ [][Next]_vars

=============================================================================
