\* Two processes, the first with a worker that may start at any time.
CONSTANTS
  Tids <- ThreeTids
  Processes <- TwoProcesses
  ProcessOf <- ThreeProcessOf
  Fresh <- LateWorker
  None = "none"
SPECIFICATION FairSpec
INVARIANTS
  SessionHasMainThread
  AttachedStopped
  DetachedRuns
  PauseTakesEffect
PROPERTY
  CallsAreAnswered
\* waitpid may never return: see Uncollectable
CHECK_DEADLOCK FALSE
