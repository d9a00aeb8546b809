\* Two checks that overlap, one slot that comes and goes, two bookings, one failure; the person
\* pauses whenever they like and resumes when no booking is pending.
CONSTANTS
  Checks = {c1, c2}
  Slots = {a}
  ResumesEarly = FALSE
  MaxBookings = 2
  MaxFaults = 1
SPECIFICATION FairSpec
INVARIANTS OneBookingPending BookedRests SightingMeansBooking SettledWasTold
PROPERTY ConsequencesLand
CHECK_DEADLOCK FALSE
