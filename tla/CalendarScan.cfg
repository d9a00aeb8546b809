SPECIFICATION FairSpec
CONSTANTS
  Scans = {s1, s2}
  RenewOn = 2
  ReminderLead = 1
  CancelLead = 2
  MaxAttempts = 2
  LastDay = 2
  MaxFaults = 1
INVARIANTS
  AttemptsCoverSends
  MarksAreEarned
PROPERTIES
  DecisionsStay
  ImplementsLedger
  EndingsAreRecorded
CHECK_DEADLOCK FALSE
