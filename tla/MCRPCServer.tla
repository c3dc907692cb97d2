---------------------------- MODULE MCRPCServer ----------------------------
(***************************************************************************)
(* Values for model checking RPCServer: two clients that do not differ.    *)
(***************************************************************************)
EXTENDS RPCServer, TLC

CONSTANTS c1, c2

TwoClients == {c1, c2}
\* "throws" and "garbled" have the outcome of "unknown".
OneOfEachOutcome == {"succeeds", "fails", "unknown", "empty", "huge", "short"}

=============================================================================
