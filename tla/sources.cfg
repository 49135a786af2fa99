SPECIFICATION Spec
CONSTANTS
  Conn = {c, d}
  Config = {f, g}
  Marked = {f}
  Script = {s, t}
  Initial = {c}
  MaxCalls = 2
  MaxEdits = 1
  MaxMoves = 1
  Features = {"form", "import", "scan", "harvest", "seed", "keys"}
INVARIANT SeededIsTyped
PROPERTY HarvestGathers
PROPERTY HarvestEnds
CHECK_DEADLOCK FALSE
