\* Two threads with four registers each.
CONSTANTS
  Tids <- TwoTids
  GPRs <- TwoGPRs
  FPRs <- TwoFPRs
  Modulus <- Widths
  Refused <- BadState
  Files <- SomeFiles
  Names <- AllNames
  Requests <- SomeRequests
  None = "none"
SPECIFICATION Spec
INVARIANTS
  TypeOK
  WrittenInOrder
  ReadIsSnapshot
PROPERTY
  OnlyTheNamedRegister
