CONSTANTS
  p1 = p1
  p2 = p2
  p3 = p3
  p4 = p4
  Regular = {r0}
  Lns = {l0}
  Probes = {q0}
  Zero = r0
  Points = {p1, p2}
  Low = 1
  High = 3
  Infeasible = Infeasible
  NoBound = NoBound
  NoPoint = NoPoint
  NoWorker = NoWorker
  Minimizing = FALSE
  Split = TRUE
  Policies = {TRUE, FALSE}
  SplitTarget = 1
  SplitLimit = 1
  Certificates = {2}
  MayStop = TRUE
SPECIFICATION FairSpec
INVARIANTS
  SharedClausesKeepSolutions
  ProbedProofsAreHonest
PROPERTY Termination
