\* Two requests of at most four units.
CONSTANTS
  Units <- MCUnits
  Mapped <- MCMapped
  Open <- MCOpen
  Shared <- MCShared
  WordSize = 2
  MaxSize = 4
  MaxCalls = 2
  Original = Original
  Foreign = Foreign
  Pointer = Pointer
  Zero = Zero
SPECIFICATION FairMemorySpec
INVARIANTS
  OnlyTheRange
  WriteLands
  ReadIsPrefix
PROPERTIES
  TransfersAdvance
  TransfersEnd
\* a killed process and a spent number of requests leave nothing to do
CHECK_DEADLOCK FALSE
