---------------------- MODULE BreakpointManagerPromise ----------------------
(***************************************************************************)
(* The promise TrapTable makes, read off the state of BreakpointManager: a *)
(* process traps where its text is not its own.  It is made for software   *)
(* breakpoints at addresses whose writes are exact; the ids of all others  *)
(* are only issued.                                                        *)
(***************************************************************************)
EXTENDS BreakpointManager

Promised ==
  {id \in DOMAIN breakpoints :
     /\ IsSoftware(breakpoints[id])
     /\ Exact(ProcessOf[breakpoints[id].tid], breakpoints[id].address)}

PromisedPoints ==
  [id \in Promised |->
     [process |-> ProcessOf[breakpoints[id].tid],
      address |-> breakpoints[id].address,
      on      |-> breakpoints[id].enabled]]

PromisedTraps ==
  [p \in Processes |->
     {a \in AlignedAddresses : Exact(p, a) /\ code[p][a] # Text[p][a]}]

\* No word of the programs is the BRK the debugger patches in: where one is,
\* setting and removing a breakpoint changes no word, and the text does not show
\* where it traps.
TextWithoutBRK == \A p \in Processes, a \in AlignedAddresses : Text[p][a] # BRK

Promise == INSTANCE TrapTable WITH
  Addresses <- AlignedAddresses,
  points <- PromisedPoints,
  traps <- PromisedTraps,
  issued <- 1 .. nextId - 1

\* Every call, failing or not, is one step of the trap table or none: setting,
\* switching and removing a software breakpoint change the table and the target
\* together, and an id is never given to a second breakpoint (new_breakpoint).
KeepsPromise == Promise!Spec

=============================================================================
