CONSTANTS
  o = o
  w = w
  x = x
  y = y
  z = z
  Vars = {o, w, x, y, z}
  Values <- Numbers
  Networks <- Minimums
  Stoppable <- Unhurried
SPECIFICATION Spec
INVARIANTS
  EnumerationIsExact
