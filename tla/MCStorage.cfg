SPECIFICATION StorageSpec
CONSTANTS
  Cells = {a, b}
  Values = {0, 1}
  MaxEpochs = 3
  Universe <- FiveValues
  Inputs <- AroundThem
  MaxLevels = 2
INVARIANTS
  TrailInv
  RepresentationAgrees
PROPERTIES
  ImplementsSnapshots
  ImplementsDomain
