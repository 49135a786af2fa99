SPECIFICATION Spec
CONSTANTS
  TableOf <- Tables
  Grids <- Two
  Scans <- Wide
  Term <- Names
  Cat <- Cats
  Chunk = 2
  MaxEdits = 2
  MaxRuns = 1
  MaxOpens = 1
  Features = {"pass", "cat", "group", "leave", "load", "land", "open", "reset", "rename", "keep", "enhance"}
INVARIANT TypeOK
INVARIANT LocksHold
INVARIANT DecisionsReverse
INVARIANT SplitSeparates
PROPERTY ColumnsConserved
PROPERTY RunEnds
PROPERTY CatSettles
CHECK_DEADLOCK FALSE
