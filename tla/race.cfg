SPECIFICATION Spec
CONSTANTS
  Decider = {d1, d2}
  Reseeder = {r1}
  Replacer = {p1}
  Restorer = {s1}
  Wiper = {w1}
  MaxCrashes = 1
  None = None
INVARIANT TypeOK
INVARIANT DecisionsAreDurable
INVARIANT MemoryAgreesWithFile
PROPERTY EveryRequestAnswers
