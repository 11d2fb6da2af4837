CONSTANTS
  o = o
  w = w
  x = x
  y = y
  z = z
  Vars = {o, w, x, y, z}
  Values <- Numbers
  Networks <- EveryKind
  Stoppable <- Hurried
SPECIFICATION FairSpec
INVARIANTS
  QueueInv
  FixpointIsCanonical
  EnumerationIsExact
  ExplanationsHold
PROPERTY ImplementsSearch
