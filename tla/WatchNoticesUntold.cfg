\* One check at a time; deliveries that fail are all it takes.
SPECIFICATION Spec
CONSTANTS
  Checks = {c1}
  Callers = {c1}
  Keys <- MCKeys
  SendAttempts = 1
  MaxUnheard = 0
  Unreliable <- MCUnreliable
  Kinds = {"price"}
  Layouts = {old, new}
  Values = {"low"}
  Past <- MCPast
  MaxMoves = 1
  MaxFaults = 0
INVARIANTS
  DegradedIsTold
