\* The buffer of a DIR holds two records; c has up to three threads.
CONSTANTS
  a = a
  b = b
  c = c
  d = d
  t = t
  u = u
  Tasks <- MCTasks
  Leader <- MCLeader
  Id <- MCId
  BufferSize = 2
  Proc = Proc
  None = None
SPECIFICATION DiscoverySpec
INVARIANT AllAreListed
CHECK_DEADLOCK FALSE
