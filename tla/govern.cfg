SPECIFICATION Spec
SYMMETRY Interchangeable
CONSTANTS
  Cat = {a, b}
  Person = {h, o}
  Holders = {h}
  Others = {o}
  Stars = {s}
  MaxMoves = 2
  MaxEdits = 2
  MaxCalls = 1
  MaxLeaves = 1
  MaxActs = 4
INVARIANT NothingHidden
PROPERTY DecisionsStay
CHECK_DEADLOCK FALSE
