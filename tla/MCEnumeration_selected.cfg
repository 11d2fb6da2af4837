CONSTANTS
  o = o
  w = w
  x = x
  y = y
  z = z
  Vars = {o, w, x, y, z}
  Values <- Numbers
  Networks <- Unwoken
  Stoppable <- Unhurried
SPECIFICATION Spec
INVARIANTS
  ExplanationsHold
