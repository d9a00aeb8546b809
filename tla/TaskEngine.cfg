SPECIFICATION Spec
CONSTANTS
  Runs = {r1, r2}
  RetryLimit = 1
  Overrun = FALSE
  MaxJobs = 2
  MaxAsks = 2
  MaxFaults = 2
SYMMETRY RunSymmetry
INVARIANTS
  TypeOK
  OneMissionAtATime
  MissionOwnsTask
PROPERTIES
  ActOnStandingYes
CHECK_DEADLOCK FALSE
