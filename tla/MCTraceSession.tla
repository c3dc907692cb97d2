--------------------------- MODULE MCTraceSession ---------------------------
(***************************************************************************)
(* Values for model checking TraceSession: process "m" with a worker "w",  *)
(* there from the start or started later, and process "n" with one thread. *)
(***************************************************************************)
EXTENDS TraceSession, TLC

TwoProcesses == {"m", "n"}
ThreeTids == {"m", "w", "n"}
ThreeProcessOf == "m" :> "m" @@ "w" :> "m" @@ "n" :> "n"
LateWorker == {"w"}

OneProcess == {"m"}
TwoTids == {"m", "w"}
TwoProcessOf == "m" :> "m" @@ "w" :> "m"
NoNewThread == {}

=============================================================================
