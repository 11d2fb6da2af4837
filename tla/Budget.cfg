CONSTANTS
  Callers = {c1}
  Monitor = Monitor
  HardReasons = {MemoryLimit, External}
  MemoryLimit = MemoryLimit
  Running = Running
  Deadline = Deadline
SPECIFICATION FairSpec
INVARIANTS
  BudgetInv
PROPERTIES
  ReasonEscalates
  RequestEnds
