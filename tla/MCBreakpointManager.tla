------------------------ MODULE MCBreakpointManager ------------------------
(***************************************************************************)
(* Values for model checking BreakpointManager: two processes debugged one *)
(* after the other, "p" with threads "p1" and "p2" and "q" with thread     *)
(* "q1"; their words differ at every address, so that restoring the word   *)
(* of another process or address would show.  The first page of "q" is     *)
(* read-only text, its second page and all of "p" can be written.          *)
(***************************************************************************)
EXTENDS BreakpointManagerPromise, TLC

MCProcesses == {"p", "q"}
MCTids == {"p1", "p2", "q1"}
MCProcessOf == "p1" :> "p" @@ "p2" :> "p" @@ "q1" :> "q"
MCAddresses == {4096, 4100, 8192}
MCWords ==
  {"BRK", "none", "pointer", "p4096", "p4100", "p8192", "q4096", "q4100", "q8192"}
MCText ==
  "p" :> (4096 :> "p4096" @@ 4100 :> "p4100" @@ 8192 :> "p8192") @@
  "q" :> (4096 :> "q4096" @@ 4100 :> "q4100" @@ 8192 :> "q8192")
MCWritable == "p" :> {4096, 4100, 8192} @@ "q" :> {8192}

\* States that differ only in the last reply have the same future, except that
\* a crash ends it; for the invariants that do not look at replies.
WithoutReply == <<table, hardware, code, alive, reply.status = "crash">>

\* Without debug registers, states with the same breakpoints and the same target
\* have the same future, except for what a lookup by address may do.
SoftwareOnly == <<breakpoints, nextId, code, alive, reply.status = "crash">>

\* One process with two threads.
OneProcess == {"p"}
TwoTids == {"p1", "p2"}
TwoProcessOf == "p1" :> "p" @@ "p2" :> "p"
TwoAddresses == {4096, 4098, 4100}    \* 4098 is not aligned
OneText == "p" :> (4096 :> "p4096" @@ 4100 :> "p4100")
TwoWritable == "p" :> {4096, 4100}

=============================================================================
