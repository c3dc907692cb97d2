\* Two processes, three threads, no debug registers, three breakpoints in all.
CONSTANTS
  Processes <- MCProcesses
  Tids <- MCTids
  ProcessOf <- MCProcessOf
  Addresses <- MCAddresses
  Words <- MCWords
  BRK = "BRK"
  NoWord = "none"
  Pointer = "pointer"
  Text <- MCText
  Writable <- MCWritable
  NumRegisters = 0
  MaxId = 3
SPECIFICATION Spec
VIEW SoftwareOnly
INVARIANTS
  CodeTransparent
  SavedOriginal
  OneBreakpointPerAddress
PROPERTIES
  KeepsPromise
  StaleKeepTheirAddress
\* after a crash of the server and the exit of every thread nothing happens
CHECK_DEADLOCK FALSE
