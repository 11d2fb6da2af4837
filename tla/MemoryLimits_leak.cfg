CONSTANTS
  Solves = {s1, s2}
  Bytes = {1, 2}
SPECIFICATION RegistrySpec
INVARIANT NoPressureWithoutLimit
CHECK_DEADLOCK FALSE
