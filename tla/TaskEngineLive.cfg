SPECIFICATION FairSpec
CONSTANTS
  Runs = {r1}
  RetryLimit = 0
  Overrun = FALSE
  MaxJobs = 8
  MaxAsks = 1
  MaxFaults = 1
PROPERTIES
  EventuallySettled
CHECK_DEADLOCK FALSE
