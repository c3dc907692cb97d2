----------------------------- MODULE MCStepping -----------------------------
(***************************************************************************)
(* Values for model checking Stepping: process "p" with threads "p1" and   *)
(* "p2" and three instructions: the first falls through, the second        *)
(* branches to either of the others, the third jumps back to the first.    *)
(***************************************************************************)
EXTENDS Stepping, TLC

MCProcesses == {"p"}
MCTids == {"p1", "p2"}
MCProcessOf == "p1" :> "p" @@ "p2" :> "p"
MCMain == "p" :> "p1"
MCAddresses == {4096, 4100, 4104}
MCWords == {"BRK", "none", "pointer", "p4096", "p4100", "p4104"}
MCText == "p" :> (4096 :> "p4096" @@ 4100 :> "p4100" @@ 4104 :> "p4104")
MCWritable == "p" :> MCAddresses
MCFlow == "p" :> (4096 :> {4100} @@ 4100 :> {4096, 4104} @@ 4104 :> {4096})

\* The indexes follow the table, no command reads the last reply or the debug
\* registers, and of the last answer only the success of a step is asked about.
WithoutIndexes ==
  <<breakpoints, nextId, code, alive, session, temporary, target,
    IF step.at # "idle" THEN step
    ELSE IF answer = [op |-> "step_over", status |-> "ok"]
    THEN [step EXCEPT !.bid = 0, !.stopped = TRUE]
    ELSE [at |-> "idle"]>>

=============================================================================
