SPECIFICATION Spec
CONSTANTS
  Runs = {r1, r2}
  RetryLimit = 1
  Overrun = TRUE
  MaxJobs = 2
  MaxAsks = 2
  MaxFaults = 1
SYMMETRY RunSymmetry
INVARIANTS
  NeverPastGateUnasked
  AnsweredInOrder
PROPERTIES
  DeadlineDecides
  ImplementsLifecycle
CHECK_DEADLOCK FALSE
