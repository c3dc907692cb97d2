----------------------------- MODULE MCDiscovery -----------------------------
(***************************************************************************)
(* Values for model checking Discovery: four processes, two of which have  *)
(* the same pid one after the other, and two more threads of the third.    *)
(* Either directory may have one entry more than its buffer holds.         *)
(***************************************************************************)
EXTENDS Discovery

CONSTANTS a, b, c, d, t, u

MCTasks == {a, b, c, d, t, u}
MCLeader == [x \in MCTasks |-> IF x \in {t, u} THEN c ELSE x]
MCId == [x \in MCTasks |->
           CASE x = a -> 1 [] x = b -> 2 [] x \in {c, d} -> 3
             [] x = t -> 4 [] x = u -> 5]

=============================================================================
