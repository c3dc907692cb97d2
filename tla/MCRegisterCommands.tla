-------------------------- MODULE MCRegisterCommands --------------------------
(***************************************************************************)
(* Values for model checking RegisterCommands: two threads, a general       *)
(* register of two bits and the processor state, of whose values the kernel *)
(* refuses one, a vector register of two bits and a status register of one. *)
(***************************************************************************)
EXTENDS RegisterCommands

TwoTids == {"t", "u"}
TwoGPRs == {"x0", "pstate"}
TwoFPRs == {"v0", "fpsr"}
Widths == [r \in TwoGPRs \cup TwoFPRs |-> IF r = "fpsr" THEN 2 ELSE 4]
BadState == {<<"pstate", 3>>}

AllNames == TwoGPRs \cup TwoFPRs \cup {"x31"}

SomeFiles == {[r \in TwoGPRs \cup TwoFPRs |-> 1],
              [r \in TwoGPRs \cup TwoFPRs |-> IF r = "fpsr" THEN 0 ELSE 2]}

\* Numbers that fit, that overflow every register, and that the kernel refuses.
Hex(name, n) == [name |-> name, kind |-> "hex", number |-> n]
Bad(name, kind) == [name |-> name, kind |-> kind, number |-> 0]

List(entries) == [kind |-> "list", entries |-> entries]
Other(kind) == [kind |-> kind, entries |-> <<>>]

GPRParts ==
  {Other("absent"), Other("malformed"), Other("all"),
   List(<<Hex("pstate", 0), Hex("x0", 7)>>),
   List(<<Hex("pstate", 3), Hex("x0", 0)>>),
   List(<<Hex("x0", 3), Hex("x31", 1)>>)}

FPRParts ==
  {Other("absent"), Other("malformed"), Other("all"),
   List(<<Hex("fpsr", 3), Hex("v0", 6)>>),
   List(<<Hex("fpsr", 0), Bad("v0", "other")>>),
   List(<<Bad("fpsr", "text"), Hex("v0", 0)>>)}

SomeRequests == [op : {"read", "write"}, GPR : GPRParts, FPR : FPRParts]

=============================================================================
