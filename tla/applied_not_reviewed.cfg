SPECIFICATION Spec
CONSTANTS
  Conn = {c, d}
  Config = {f, g}
  Marked = {f}
  Script = {s, t}
  Initial = {c}
  MaxCalls = 2
  MaxEdits = 1
  MaxMoves = 1
  Features = {"form", "import", "scan", "harvest", "seed", "keys"}
INVARIANT AppliedIsReviewed
CHECK_DEADLOCK FALSE
