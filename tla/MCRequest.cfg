CONSTANTS
  MaxTransfers = 2
  solve_a = solve_a
  solve_b = solve_b
  Solves = {solve_a, solve_b}
  Bytes = {1, 2}
  call_a = call_a
  call_b = call_b
  call_c = call_c
  Calls = {call_a, call_b, call_c}
  MaxDetached = 2
  ExtractSizes = {1, 4}
  EnumerateSizes = {0, 3}
  FoundLimits = {2, 9}
  Crews = {1, 2}
  Candidates <- Met
  Iterations = 1
  Inquiries <- Asked
  MaxDeadlineComponents = 1
SPECIFICATION RequestSpec
INVARIANTS
  EvidenceIsKept
  ConsumerStopIsTerminal
  RunningLimitEnforced
  PermitsAreExact
  LandscapeIsExact
  AnswersKeepIncumbents
  BoundWaitsForIncumbent
  PlanIsHonest
PROPERTIES
  StopBeforeEvidenceWins
  EveryPartEnds
CHECK_DEADLOCK FALSE
