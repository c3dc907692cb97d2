\* One process with two threads.
CONSTANTS
  Tids <- TwoTids
  Processes <- OneProcess
  ProcessOf <- TwoProcessOf
  Fresh <- NoNewThread
  None = "none"
SPECIFICATION Spec
INVARIANT
  PauseStopsAll
\* waitpid may never return: see Uncollectable
CHECK_DEADLOCK FALSE
