--------------------------- MODULE MCCalendarScan ---------------------------
(* Model-checking instances of CalendarScan. *)
EXTENDS CalendarScan, TLC

\* Scans are interchangeable: nothing orders them.
ScanSymmetry == Permutations(Scans)

=============================================================================
