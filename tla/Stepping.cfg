\* One process, two threads, three instructions, two breakpoints in all.
CONSTANTS
  Processes <- MCProcesses
  Tids <- MCTids
  ProcessOf <- MCProcessOf
  Addresses <- MCAddresses
  Words <- MCWords
  BRK = "BRK"
  NoWord = "none"
  Pointer = "pointer"
  Text <- MCText
  Writable <- MCWritable
  NumRegisters = 0
  MaxId = 2
  Main <- MCMain
  Flow <- MCFlow
  None = None
SPECIFICATION FairSteppingSpec
VIEW WithoutIndexes
INVARIANTS
  NoTemporaryLeft
  StepOverLands
PROPERTIES
  BreakpointsKept
  StepOverEnds
\* every thread may exit, and then no command has anything to do
CHECK_DEADLOCK FALSE
