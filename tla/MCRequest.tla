----------------------------- MODULE MCRequest -----------------------------
(* Small instances of what surrounds a request, for TLC: the protocol of one *)
(* solve with its caller, the memory limits of two solves of a process, three*)
(* external calls with room for two, the diagnosis of an infeasible model    *)
(* with up to four selected constraints, a local search over lists with one  *)
(* or two workers and its dual bound, and the plans of nineteen requests.    *)
EXTENDS SolveProtocol, MemoryLimits, ExternalCalls, Mus, ListSearch, SolvePlan

CONSTANTS solve_a, solve_b, call_a, call_b, call_c

VARIABLE subject   \* what this behaviour exercises

requestVars == <<subject, vars, registryVars, callVars, musVars, listVars, planVars>>

\* What a behaviour does not exercise is over, and takes no steps.
SolveOver ==
  /\ session = FALSE /\ external_stop = FALSE /\ hard_stop = FALSE
  /\ monitor = "gone" /\ done = TRUE
  /\ main = "returned" /\ transfers = 0 /\ result = "solved"
  /\ queue = <<>> /\ event = "Transfer" /\ answer = "Continue"
  /\ published = FALSE /\ delivered = <<>> /\ outcome = "solved"

LimitsOver ==
  /\ solve = [s \in Solves |-> "gone"] /\ memory_limit = [s \in Solves |-> 0]
  /\ hard_stops = [s \in Solves |-> FALSE] /\ woken = [s \in Solves |-> TRUE]
  /\ monitors = [s \in Solves |-> "none"]
  /\ registry = [s \in Solves |-> 0] /\ process_limit = 0

CallsOver ==
  /\ active = 0 /\ caller = [c \in Calls |-> "interrupted"]
  /\ call_stop = [c \in Calls |-> TRUE]
  /\ evaluator = [c \in Calls |-> "none"] /\ channel = [c \in Calls |-> "empty"]

DiagnosisOver ==
  /\ request = "extract" /\ selectors = {} /\ conflicts = {} /\ found_limit = 0
  /\ mus_stop = FALSE /\ stage = "done" /\ working = {}
  /\ blocks = {} /\ muses = {} /\ msses = {} /\ complete = FALSE /\ verdicts = "sat"

ListsOver ==
  /\ crew = 1 /\ tiers = FALSE /\ ls_stop = TRUE
  /\ walker = [w \in Crew |-> "done"] /\ left = [w \in Crew |-> 0]
  /\ best = [w \in Crew |-> None] /\ seen = [w \in Crew |-> 0]
  /\ shared = None /\ generation = 0 /\ slot = None /\ callback = None /\ told = <<>>
  /\ gate = "cancelled" /\ dual = "done" /\ host = "returned" /\ found = None

PlanOver ==
  /\ inquiry = 1 /\ phase = "over" /\ divided = FALSE /\ engines = <<>> /\ turn = 1
  /\ warm = {} /\ lapsed = TRUE /\ announced = {} /\ verdict = "none"
  /\ gathered = [x |-> <<>>, values |-> <<>>, bounds |-> {}, open |-> FALSE]

\* Two feasible solutions, whose tiers disagree, and an infeasible one with the
\* lowest values.
Met == {<<0, 1, 2>>, <<0, 2, 1>>, <<1, 0, 0>>}

-----------------------------------------------------------------------------
(* Small models of each family and requests about them: what a plan may be *)
(* split into, and where a split could go wrong.                           *)

Empty == [ints |-> <<>>, sets |-> <<>>, lists |-> <<>>, intervals |-> <<>>, modes |-> <<>>, constraints |-> <<>>, objectives |-> <<>>]

Asking == [assumptions |-> <<>>, proof |-> FALSE, timed |-> FALSE, conflicts |-> FALSE, publish |-> FALSE, schedule_cdcl |-> FALSE]

Expr(e, minimize) == [kind |-> "IntExpr", expr |-> e, minimize |-> minimize]
Relate(vs, rel, rhs) == [kind |-> "Linear", vars |-> vs, coeffs |-> [i \in DOMAIN vs |-> 1], rel |-> rel, rhs |-> rhs]

\* Three integers in two components, whose tiers pull different ways.
Twins == [Empty EXCEPT
  !.ints = <<{0, 1, 2}, {0, 1}, {0, 1}>>,
  !.constraints = <<Relate(<<1, 3>>, "Ge", 1)>>,
  !.objectives  = <<Expr(Op2("add", Var(1), Var(3)), FALSE), Expr(Var(2), TRUE), Expr(Var(1), TRUE)>>]

\* Integers and sets, one component without a tier and one with no solution if the
\* first integer is assumed away.
Members3 == [Empty EXCEPT
  !.ints = <<{0, 1}, {0, 1}>>,
  !.sets = <<[possible |-> {1, 2}, required |-> {}], [possible |-> {1, 2}, required |-> {1}], [possible |-> {1}, required |-> {}]>>,
  !.constraints = <<[kind |-> "SetSubset", left |-> 2, right |-> 1],
                    [kind |-> "SetCardinality", set |-> 1, min |-> 0, max |-> 1], Relate(<<1, 2>>, "Eq", 1)>>,
  !.objectives  = <<Expr(Var(2), TRUE)>>]

\* A tier over both components: the model stays whole.
Spanning == [Twins EXCEPT !.objectives = <<Expr(Op2("sub", Var(1), Var(2)), TRUE)>>]

\* A component that has no solution, behind one that has.
Hopeless == [Empty EXCEPT
  !.ints = <<{0, 1}, {0, 1}, {0, 1}, {0, 1}>>,
  !.constraints = <<Relate(<<3, 4>>, "Ge", 2), Relate(<<2, 3>>, "Le", 0)>>,
  !.objectives  = <<Expr(Var(1), FALSE)>>]

Weight(l) == [op |-> "Sum", over |-> "Items", list |-> l, body |-> [op |-> "arg", k |-> 0], coeff |-> 1]
Partition(ls, items) == [kind |-> "ListPartition", lists |-> ls, items |-> items, coverage |-> "Exact"]
Longest(l, r) == [kind |-> "ListLength", list |-> l, min |-> -UNBOUNDED, max |-> r]

\* Two pairs of lists over universes of their own: there is no plan for the whole.
Universes == [Empty EXCEPT
  !.lists = <<<<1, 2>>, <<3>>, <<1, 2>>, <<3>>>>,
  !.constraints = <<Partition(<<1, 3>>, <<1, 2>>), Partition(<<2, 4>>, <<3>>), [Longest(3, 1) EXCEPT !.min = 1]>>,
  !.objectives  = <<[kind |-> "ListTerms", terms |-> <<Weight(4)>>, max_terms |-> <<>>, minimize |-> TRUE],
                    [kind |-> "ListTerms", terms |-> <<>>, minimize |-> TRUE,
                     max_terms |-> <<[groups |-> <<<<Weight(1)>>, <<Weight(3)>>>>, coeff |-> 1]>>]>>]

Timed(min, max, duration, modes) == [min |-> min, max |-> max, duration |-> duration, optional |-> FALSE, modes |-> modes]
Mode(v, machine, duration) == [interval |-> v, machine |-> machine, duration |-> duration, window |-> {}]

\* Two intervals on one machine, each with a mode of its own, and nothing but the
\* machine between them.
Shop == [Empty EXCEPT
  !.intervals = <<Timed(0, 2, 0, <<1>>), Timed(0, 2, 0, <<2, 3>>)>>,
  !.modes = <<Mode(1, 1, 2), Mode(2, 2, 3), Mode(2, 1, 1)>>,
  !.constraints = <<[kind |-> "MachineNoOverlap"]>>,
  !.objectives  = <<[kind |-> "Makespan", intervals |-> <<1, 2>>, minimize |-> TRUE]>>]

\* Intervals that share nothing: the modes of the second keep their indices.
Apart == [Shop EXCEPT
  !.intervals = <<Timed(0, 1, 0, <<1>>), Timed(0, 1, 0, <<2, 3>>)>>,
  !.constraints = <<>>, !.objectives = <<>>]

\* Two groups of intervals that interleave, a makespan for each: the mode of the
\* third is the first of its component.
Groups == [Empty EXCEPT
  !.intervals = <<Timed(0, 1, 1, <<>>), Timed(0, 1, 0, <<1, 2>>), Timed(0, 1, 0, <<3>>), [Timed(0, 2, 1, <<>>) EXCEPT !.optional = TRUE]>>,
  !.modes = <<Mode(2, 1, 2), [Mode(2, 1, 1) EXCEPT !.window = {<<1, 1>>}], Mode(3, 1, 1)>>,
  !.constraints = <<[kind |-> "IntervalNoOverlap", intervals |-> <<1, 3>>], [kind |-> "IntervalPrecedence", before |-> 2, after |-> 4],
                    [kind |-> "IntervalCumulative", demands |-> <<<<2, 1>>, <<4, 2>>>>, capacity |-> 2]>>,
  !.objectives  = <<[kind |-> "Makespan", intervals |-> <<2, 4>>, minimize |-> TRUE],
                    [kind |-> "Makespan", intervals |-> <<1, 3>>, minimize |-> TRUE]>>]

\* Two lists of three items that are related in every way but one.
Routes == [Empty EXCEPT
  !.lists = <<<<1, 2, 3>>, <<1, 2, 3>>>>,
  !.constraints = <<Partition(<<1, 2>>, <<1, 2, 3>>), [kind |-> "SameList", lists |-> <<1, 2>>, a |-> 1, b |-> 2],
                    [kind |-> "ItemPrecedence", lists |-> <<1, 2>>, before |-> 1, after |-> 3],
                    [kind |-> "ListItemSum", list |-> 2, weights |-> <<<<3, 2>>, <<1, 1>>>>, min |-> 1, max |-> 3]>>,
  !.objectives  = <<[kind |-> "ListTerms", max_terms |-> <<>>, minimize |-> FALSE,
                     terms |-> <<[op |-> "Sum", over |-> "Edges", list |-> 1, coeff |-> 1, start |-> 0, end |-> 0,
                                  body |-> Op1("abs", Op2("sub", [op |-> "arg", k |-> 0], [op |-> "arg", k |-> 1]))]>>]>>]

\* Constraints of other shapes than a sum.
Shapes == [Empty EXCEPT
  !.ints = <<{0, 1}, {0, 1, 2}, {0, 1}, {0, 1, 2}>>,
  !.constraints = <<[kind |-> "Selected", selector |-> 1, inner |-> Relate(<<3>>, "Eq", 0)],
                    [kind |-> "Clause", literals |-> <<<<3, TRUE>>, <<1, TRUE>>>>],
                    [kind |-> "Intension", expr |-> Op2("lt", Var(4), Var(2))]>>,
  !.objectives  = <<Expr(Op2("sub", Var(2), Var(4)), TRUE), Expr(Var(3), TRUE)>>]

\* Every family at once.
Mixed == [Empty EXCEPT
  !.ints = <<{1}, {0, 1}>>,
  !.lists = <<<<1, 2>>, <<1, 2>>>>,
  !.intervals = <<Timed(0, 1, 1, <<>>), [Timed(0, 2, 1, <<>>) EXCEPT !.optional = TRUE]>>,
  !.constraints = <<[kind |-> "IntervalPrecedence", before |-> 1, after |-> 2], Partition(<<1, 2>>, <<1, 2>>), Longest(1, 1)>>,
  !.objectives  = <<[kind |-> "ListTerms", terms |-> <<Weight(2)>>, max_terms |-> <<>>, minimize |-> TRUE],
                    [kind |-> "Makespan", intervals |-> <<1, 2>>, minimize |-> TRUE],
                    Expr(Var(2), FALSE), Expr(Var(1), TRUE)>>]

Assume(a1, a2, a3) == [Asking EXCEPT !.assumptions = <<[var |-> a1, op |-> a2, value |-> a3]>>]

Asked == <<
  [model |-> Twins, request |-> Asking],
  [model |-> Twins, request |-> Assume(2, "ge", 1)],
  [model |-> Twins, request |-> Assume(4, "ge", 1)],
  [model |-> Twins, request |-> [Assume(1, "le", 0) EXCEPT !.proof = TRUE, !.assumptions = @ \o Assume(3, "ne", 1).assumptions]],
  [model |-> Twins, request |-> [Asking EXCEPT !.timed = TRUE]],
  [model |-> Twins, request |-> [Asking EXCEPT !.publish = TRUE]],
  [model |-> Members3, request |-> Assume(1, "eq", 0)],
  [model |-> Spanning, request |-> [Asking EXCEPT !.proof = TRUE]],
  [model |-> Hopeless, request |-> Asking],
  [model |-> Universes, request |-> [Asking EXCEPT !.timed = TRUE]],
  [model |-> Universes, request |-> [Asking EXCEPT !.proof = TRUE]],
  [model |-> Shop, request |-> Asking],
  [model |-> Shop, request |-> [Asking EXCEPT !.conflicts = TRUE]],
  [model |-> [Shop EXCEPT !.objectives = <<>>], request |-> Asking],
  [model |-> Apart, request |-> Asking],
  [model |-> Groups, request |-> Asking],
  [model |-> Routes, request |-> Asking],
  [model |-> Shapes, request |-> Assume(1, "le", 0)],
  [model |-> Mixed, request |-> Asking] >>

-----------------------------------------------------------------------------

RequestInit ==
  \/ subject = "protocol" /\ Init /\ LimitsOver /\ CallsOver /\ DiagnosisOver /\ ListsOver /\ PlanOver
  \/ subject = "memory" /\ SolveOver /\ RegistryInit /\ CallsOver /\ DiagnosisOver /\ ListsOver /\ PlanOver
  \/ subject = "external" /\ SolveOver /\ LimitsOver /\ CallsInit /\ DiagnosisOver /\ ListsOver /\ PlanOver
  \/ subject = "diagnosis" /\ SolveOver /\ LimitsOver /\ CallsOver /\ MusInit /\ ListsOver /\ PlanOver
  \/ subject = "lists" /\ SolveOver /\ LimitsOver /\ CallsOver /\ DiagnosisOver /\ ListInit /\ PlanOver
  \/ subject = "plan" /\ SolveOver /\ LimitsOver /\ CallsOver /\ DiagnosisOver /\ ListsOver /\ PlanInit

RequestNext ==
  /\ UNCHANGED subject
  /\ \/ subject = "protocol" /\ Next /\ UNCHANGED <<registryVars, callVars, musVars, listVars, planVars>>
     \/ subject = "memory" /\ RegistryNext /\ UNCHANGED <<vars, callVars, musVars, listVars, planVars>>
     \/ subject = "external" /\ CallsNext /\ UNCHANGED <<vars, registryVars, musVars, listVars, planVars>>
     \/ subject = "diagnosis" /\ MusNext /\ UNCHANGED <<vars, registryVars, callVars, listVars, planVars>>
     \/ subject = "lists" /\ ListNext /\ UNCHANGED <<vars, registryVars, callVars, musVars, planVars>>
     \/ subject = "plan" /\ PlanNext /\ UNCHANGED <<vars, registryVars, callVars, musVars, listVars>>

RequestSpec ==
  /\ RequestInit /\ [][RequestNext]_requestVars
  /\ Fairness /\ RegistryFairness /\ CallsFairness
  /\ MusFairness /\ ListFairness

-----------------------------------------------------------------------------

\* Everything that was started comes to its end: the solve with its stop monitor,
\* the monitors of the memory limits, external calls that are told to stop, the
\* enumeration of a diagnosis, and a local search with its dual bound, which waits
\* on a condition variable inside the scope that joins it (collection.rs:1131).
EveryPartEnds == SolveReturns /\ MonitorEnds /\ StoppedCallsEnd /\ DiagnosisEnds /\ ListSearchEnds
=============================================================================
