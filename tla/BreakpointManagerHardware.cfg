\* One process, two threads with two debug registers each, three breakpoints in all.
CONSTANTS
  Processes <- OneProcess
  Tids <- TwoTids
  ProcessOf <- TwoProcessOf
  Addresses <- TwoAddresses
  Words <- MCWords
  BRK = "BRK"
  NoWord = "none"
  Pointer = "pointer"
  Text <- OneText
  Writable <- TwoWritable
  NumRegisters = 2
  MaxId = 3
SPECIFICATION Spec
VIEW WithoutReply
INVARIANTS
  TypeOK
  IndexesAgree
  RegisterAccounting
  ArmedMatches
\* after a crash of the server and the exit of every thread nothing happens
CHECK_DEADLOCK FALSE
