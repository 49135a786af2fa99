SPECIFICATION Spec
CONSTANTS
  Name = {h}
  Held = h
  MaxEdits = 2
  MaxCalls = 3
  MaxLeaves = 1
  Features <- AllCards
INVARIANT OneOrigin
INVARIANT OneWritePerPlan
INVARIANT StaleIsSaid
PROPERTY Settles
CHECK_DEADLOCK FALSE
