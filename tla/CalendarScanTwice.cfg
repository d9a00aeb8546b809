SPECIFICATION Spec
CONSTANTS
  Scans = {s1}
  RenewOn = 2
  ReminderLead = 1
  CancelLead = 2
  MaxAttempts = 2
  LastDay = 2
  MaxFaults = 1
INVARIANT
  NeverSendsTwice
CHECK_DEADLOCK FALSE
