CONSTANTS
  w = w
  x = x
  y = y
  z = z
  Vars = {w, x, y, z}
  Values <- Numbers
  Networks <- NoNetworks
  Tasks <- SomeTasks
  Restarts = 1
SPECIFICATION Spec
INVARIANTS
  TrailMirrorsDomains
  ReasonsAreJustified
  ClausesAreConsequences
  NothingIsMissed
  LearnedClausesAssert
  AnswersAreRight
PROPERTY SearchEnds
