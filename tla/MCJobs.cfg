\* One machine at a time, with its fairness.
CONSTANTS
  p1 = p1
  p2 = p2
  Pid <- MCPid
  MaxLaunches = 2
  MaxAsks = 2
  MaxJobs = 3
  MaxWindows = 3
  MaxTimers = 2
SPECIFICATION EitherSpec
INVARIANTS
  OneJob
  LoopsHaveWindows
  RedialGoesOn
  ClientsKnown
  ClientsLive
PROPERTIES
  JobEnds
  Detached
\* With all jobs done the user may do nothing more, and after a use of freed
\* memory the program may be gone.
CHECK_DEADLOCK FALSE
