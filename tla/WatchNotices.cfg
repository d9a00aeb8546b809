\* Two overlapping checks, two designs, two values, one death, one change of the page or reset.
SPECIFICATION Spec
CONSTANTS
  Checks = {c1, c2}
  Callers = {c1, c2}
  Keys <- MCKeys
  SendAttempts = 2
  MaxUnheard = 1
  Unreliable <- MCUnreliable
  Kinds = {"price", "change"}
  Layouts = {old, new}
  Values = {"low", "mid"}
  Past <- MCPast
  MaxMoves = 1
  MaxFaults = 1
INVARIANTS
  OnlyTheUnheardRepeat
  RecordedNewsIsOut
SYMMETRY Symmetry
