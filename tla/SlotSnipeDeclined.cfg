\* One check at a time and no failure.
CONSTANTS
  Checks = {c1}
  Slots = {a, b}
  ResumesEarly = FALSE
  MaxBookings = 3
  MaxFaults = 0
SPECIFICATION Spec
PROPERTY DeclinedStaysDeclined
CHECK_DEADLOCK FALSE
