CONSTANTS
  p1 = p1
  p2 = p2
  p3 = p3
  p4 = p4
  Regular = {r0, r1}
  Lns = {}
  Probes = {}
  Zero = r0
  Points = {p1, p2}
  Low = 1
  High = 2
  Infeasible = Infeasible
  NoBound = NoBound
  NoPoint = NoPoint
  NoWorker = NoWorker
  Minimizing = TRUE
  Split = TRUE
  Policies = {FALSE}
  SplitTarget = 1
  SplitLimit = 1
  Certificates = {}
  MayStop = TRUE
SPECIFICATION Spec
INVARIANT ProvedOutcomeIsOptimal
