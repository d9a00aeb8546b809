SPECIFICATION Spec
CONSTANTS
  Runs = {r1, r2}
  RetryLimit = 1
  Overrun = TRUE
  MaxJobs = 2
  MaxAsks = 2
  MaxFaults = 1
SYMMETRY RunSymmetry
INVARIANTS
  OneMissionAtATime
CHECK_DEADLOCK FALSE
