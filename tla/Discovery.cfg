\* The buffer of a DIR holds two records.
CONSTANTS
  a = a
  b = b
  c = c
  d = d
  t = t
  u = u
  Tasks <- MCTasks
  Leader <- MCLeader
  Id <- MCId
  BufferSize = 2
  Proc = Proc
  None = None
SPECIFICATION FairDiscoverySpec
INVARIANTS
  NewestAreFound
  OneProcess
PROPERTIES
  TargetHasTheName
  AttachEnds
\* the debugger may have crashed when no task can start or exit any more
CHECK_DEADLOCK FALSE
