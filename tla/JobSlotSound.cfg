CONSTANTS
  MaxJobs = 3
  MaxWindows = 2
  MaxTimers = 1
SPECIFICATION Spec
INVARIANT
  SoundMeansRedial
CHECK_DEADLOCK FALSE
