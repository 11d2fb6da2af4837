------------------------------ MODULE Collections ------------------------------
(***************************************************************************)
(* What a model over lists or over intervals means: the bodies of the list *)
(* reductions (src/model/list/mod.rs), the physical model the collection   *)
(* engines read (src/model/compile.rs) and the canonical replay of an      *)
(* assignment (src/model/list/verify.rs).  The parts of a model are        *)
(* sequences, their indices start at 1, and an outcome that may be missing *)
(* is a set of at most one value.  The numbers are far from the limits of  *)
(* i64; fixed-point, power, piecewise and external expressions, and the    *)
(* stop flag that ends a replay without a verdict, are left out.           *)
(***************************************************************************)
EXTENDS Expressions, TLC

UNDEFINED == 1000000   \* i64::MAX / 4: what an undefined term of an objective counts
UNBOUNDED == 2000000   \* i64::MAX: no bound

ListKinds     == {"ListPartition", "SameList", "ItemPrecedence", "CollectionGlobal", "ListLength", "ListItemSum", "ListReduction"}
ScheduleKinds == {"IntervalPrecedence", "IntervalNoOverlap", "MachineNoOverlap", "IntervalCumulative"}

Positions(xs) == [i \in DOMAIN xs |-> i]

RECURSIVE Sum(_)
Sum(xs) == IF xs = <<>> THEN 0 ELSE Head(xs) + Sum(Tail(xs))

\* The entry of a table at a number the code counts from 0.
Entry(table, n) == IF n + 1 \in DOMAIN table THEN {table[n + 1]} ELSE {}

-----------------------------------------------------------------------------
(* The value of a reduction over one list.                                 *)

RECURSIVE Runtime(_, _)

\* eval_expr_impl: args are the binders of the body, at its subexpressions.
RuntimeNode(e, args, at) ==
  CASE e.op = "const"  -> {e.k}
    [] e.op = "arg"    -> Entry(args, e.k)
    [] e.op = "array"  -> UNION {Entry(e.array, n) : n \in at[1]}
    [] e.op = "matrix" -> UNION {Entry(row, n) : row \in UNION {Entry(e.matrix, n) : n \in at[1]}, n \in at[2]}
    [] e.op = "ite"    -> UNION {at[IF p # 0 THEN 2 ELSE 3] : p \in at[1]}
    [] OTHER ->
         IF {} \in Range(at) THEN {}
         ELSE IF e.op \in {"div", "mod"} /\ at[2] = {0} THEN {0}
         ELSE {Apply(e.op, [i \in DOMAIN at |-> CHOOSE n \in at[i] : TRUE])}

Runtime(e, args) ==
  RuntimeNode(e, args, IF e.op \in {"const", "arg"} THEN <<>> ELSE [i \in DOMAIN e.args |-> Runtime(e.args[i], args)])

Known(S, otherwise) == IF S = {} THEN otherwise ELSE CHOOSE n \in S : TRUE

\* eval_objective_expr: what is undefined counts 0.
Body(e, args) == Known(Runtime(e, args), 0)

ScanStep(r, state, node) ==
  [acc |-> Body(r.step, <<node, state.acc, state.prev>>), prev |-> node,
   out |-> Append(state.out, Body(r.body, <<node, Body(r.step, <<node, state.acc, state.prev>>), state.prev>>))]

\* A fold with an accumulator, and one more step to the closing node if there is one.
ScanSteps(r, xs) ==
  FoldLeft(LAMBDA state, node : ScanStep(r, state, node), [acc |-> r.init, prev |-> r.boundary, out |-> <<>>], xs \o r.end).out

\* The binders of each value a reduction folds, but for a scan.
Binders(r, xs) ==
  LET n     == Len(xs)
      route == <<r.start>> \o xs \o <<r.end>>
      total(from) == Sum([i \in 1 .. r.size |-> Body(r.inner, <<xs[from + i - 1]>>)])
  IN  CASE r.over \in {"Items", "SetItems"} -> [i \in 1 .. n |-> <<xs[i]>>]
        [] r.over = "Edges"   -> [p \in 1 .. n + 1 |-> <<route[p], route[p + 1]>>]
        [] r.over = "Pairs"   -> [p \in 1 .. n * n |->
             LET i == (p - 1) \div n  j == (p - 1) % n IN <<xs[i + 1], xs[j + 1], i, j>>]
        [] r.over = "Windows" -> [from \in 1 .. (IF r.size = 0 \/ n < r.size THEN 0 ELSE n - r.size + 1) |-> <<0, total(from)>>]

BodyOver(r, binders) == [i \in DOMAIN binders |-> Body(r.body, binders[i])]

\* The values a reduction folds.
Steps(r, xs) == IF r.over = "Scan" THEN ScanSteps(r, xs) ELSE BodyOver(r, Binders(r, xs))

\* The aggregate: the least, the greatest and the k-th of too few are undefined.
Aggregate(r, vs) ==
  CASE r.op = "Sum"   -> {Sum(vs)}
    [] r.op = "Count" -> {Cardinality({i \in DOMAIN vs : vs[i] # 0})}
    [] r.op = "Used"  -> {AsNumber(vs # <<>>)}
    [] r.op = "Min"   -> IF vs = <<>> THEN {} ELSE {Min(Range(vs))}
    [] r.op = "Max"   -> IF vs = <<>> THEN {} ELSE {Max(Range(vs))}
    [] r.op = "SelectKth" -> IF Len(vs) <= r.k THEN {} ELSE {SortSeq(vs, <)[r.k + 1]}

\* eval_reduction_on_lists
Reduced(r, lists) == {v * r.coeff : v \in Aggregate(r, Steps(r, lists[r.list]))}

\* verify_objective_terms, verify_list_objectives: what is undefined counts as the worst.
TermsValue(terms, lists, minimize) ==
  Sum([i \in DOMAIN terms |-> Known(Reduced(terms[i], lists), IF minimize THEN UNDEFINED ELSE -UNDEFINED)])

MaxTermValue(term, lists, minimize) ==
  term.coeff * Max({TermsValue(group, lists, minimize) : group \in Range(term.groups)} \cup (IF term.groups = <<>> THEN {0} ELSE {}))

TierValue(tier, lists) ==
  TermsValue(tier.terms, lists, tier.minimize)
    + Sum([t \in DOMAIN tier.max_terms |-> MaxTermValue(tier.max_terms[t], lists, tier.minimize)])

-----------------------------------------------------------------------------
(* The physical model.                                                     *)

PerItem(l, op, body) == [op |-> op, over |-> "Items", list |-> l, body |-> body, coeff |-> 1]

\* item_weight_body: the weight of the first entry that names the item.
WeightBody(weights) ==
  FoldRight(LAMBDA w, e : OpN("ite", <<Op2("eq", [op |-> "arg", k |-> 0], Const(w[1])), Const(w[2]), e>>), weights, Const(0))

Bounded(r, min, max) ==
  LET holds(rel, rhs) == [reduction |-> r, rel |-> rel, rhs |-> rhs]
  IN  IF min = max THEN <<holds("eq", min)>>
      ELSE (IF min = -UNBOUNDED THEN <<>> ELSE <<holds("ge", min)>>) \o (IF max = UNBOUNDED THEN <<>> ELSE <<holds("le", max)>>)

\* length_constraints, item_sum_constraints
Reductions(c) ==
  CASE c.kind = "ListLength"    -> Bounded(PerItem(c.list, "Count", Const(1)), c.min, c.max)
    [] c.kind = "ListItemSum"   -> Bounded(PerItem(c.list, "Sum", WeightBody(c.weights)), c.min, c.max)
    [] c.kind = "ListReduction" -> <<[reduction |-> c.reduction, rel |-> c.rel, rhs |-> c.rhs]>>
    [] OTHER                    -> <<>>

Globals(c) ==
  CASE c.kind = "SameList"         -> <<[relation |-> "SameList", items |-> <<c.a, c.b>>]>>
    [] c.kind = "ItemPrecedence"   -> <<[relation |-> "ListLe", items |-> <<c.before, c.after>>]>>
    [] c.kind = "CollectionGlobal" -> <<c.global>>
    [] OTHER                       -> <<>>

\* compile_lists: one partition names every list in order, and what relates lists
\* names them all in order.
ListsCompile(m) ==
  LET every == Positions(m.lists)
      kinds == {i \in DOMAIN m.constraints : m.constraints[i].kind = "ListPartition"}
      accepts(c) ==
        CASE c.kind = "ListPartition" -> c.coverage = "Exact" /\ c.lists = every /\ c.items = m.lists[1]
          [] c.kind \in {"SameList", "ItemPrecedence"} -> c.lists = every
          [] c.kind = "ListLength"    -> c.min <= c.max
          [] OTHER                    -> c.kind \in ListKinds
  IN  /\ m.ints = <<>> /\ m.lists # <<>>
      /\ \A l \in DOMAIN m.lists : m.lists[l] = m.lists[1]
      /\ Cardinality(kinds) = 1
      /\ \A i \in DOMAIN m.constraints : accepts(m.constraints[i])
      /\ \A t \in DOMAIN m.objectives : m.objectives[t].kind = "ListTerms"

PhysicalLists(m) ==
  [ items |-> m.lists[1], lists |-> Len(m.lists), objectives |-> m.objectives,
    constraints |-> FlattenSeq([i \in DOMAIN m.constraints |-> Reductions(m.constraints[i])]),
    globals     |-> FlattenSeq([i \in DOMAIN m.constraints |-> Globals(m.constraints[i])]) ]

\* compile_schedule: the one objective is the latest end of every interval, in order.
ScheduleCompiles(m) ==
  /\ m.ints = <<>> /\ m.lists = <<>>
  /\ \A i \in DOMAIN m.constraints : m.constraints[i].kind \in ScheduleKinds
  /\ Len(m.objectives) <= 1
  /\ \A t \in DOMAIN m.objectives :
       m.objectives[t].kind = "Makespan" /\ m.objectives[t].minimize /\ m.objectives[t].intervals = Positions(m.intervals)
  /\ \A v \in DOMAIN m.intervals : m.intervals[v].modes = <<>> => m.intervals[v].min = 0

\* A mode that has no window of its own takes the interval's.
PhysicalInterval(m, v) ==
  LET d == m.intervals[v]
      window(k) == IF m.modes[k].window = {} THEN <<d.min, d.max>> ELSE CHOOSE w \in m.modes[k].window : TRUE
      modes == [k \in Range(d.modes) |-> [machine |-> m.modes[k].machine, duration |-> m.modes[k].duration, start_window |-> window(k)]]
  IN  [ duration |-> d.duration, optional |-> d.optional, modes |-> modes,
        horizon  |-> IF d.modes = <<>> THEN d.max + d.duration
                     ELSE Max({modes[k].start_window[2] + modes[k].duration : k \in DOMAIN modes}) ]

PhysicalSchedule(m) ==
  LET of(kinds) == SelectSeq(m.constraints, LAMBDA c : c.kind \in kinds)
  IN  [ intervals   |-> [v \in DOMAIN m.intervals |-> PhysicalInterval(m, v)],
        precedences |-> of({"IntervalPrecedence"}), resources |-> of(ScheduleKinds \ {"IntervalPrecedence"}),
        minimize_makespan |-> m.objectives # <<>> ]

-----------------------------------------------------------------------------
(* The canonical replay: the objective values of an assignment that holds. *)

GlobalMet(g, owner) ==
  LET lists == [i \in DOMAIN g.items |-> owner[g.items[i]]]
  IN  CASE g.relation = "ListLe"       -> lists[1] <= lists[2]
        [] g.relation \in {"SameList", "AllSameList"}            -> Cardinality(Range(lists)) = 1
        [] g.relation \in {"DifferentList", "AllDifferentLists"} -> IsInjective(lists)
        [] g.relation = "ListDistance" -> Magnitude(lists[1] - lists[2]) \in g.min .. g.max

ReductionMet(c, lists) == \E n \in Reduced(c.reduction, lists) : Compares(c.rel, n, c.rhs)

Owners(lists) == [u \in Range(FlattenSeq(lists)) |-> CHOOSE l \in DOMAIN lists : u \in Range(lists[l])]

\* verify_lists: every item is in one list, once.
ListsHold(p, lists) ==
  /\ Len(lists) = p.lists
  /\ IsInjective(FlattenSeq(lists)) /\ Range(FlattenSeq(lists)) = Range(p.items)
  /\ \A i \in DOMAIN p.constraints : ReductionMet(p.constraints[i], lists)
  /\ \A i \in DOMAIN p.globals : GlobalMet(p.globals[i], Owners(lists))

ReplayLists(p, lists) ==
  IF ListsHold(p, lists) THEN {[t \in DOMAIN p.objectives |-> TierValue(p.objectives[t], lists)]} ELSE {}

\* select_mode and the bounds of one interval.  The mode names the machine.
IntervalHolds(d, x) ==
  IF ~x.present THEN d.optional /\ x.mode = 0
  ELSE IF DOMAIN d.modes = {} THEN x.mode = 0 /\ 0 <= x.start /\ x.start + d.duration <= d.horizon
  ELSE /\ x.mode \in DOMAIN d.modes
       /\ x.start \in d.modes[x.mode].start_window[1] .. d.modes[x.mode].start_window[2]
       /\ x.start + d.modes[x.mode].duration <= d.horizon

\* verify_schedule, with from and until the bounds of the intervals that are present.
ReplaySchedule(p, x) ==
  LET present  == {v \in DOMAIN x : x[v].present}
      length(v) == IF x[v].mode = 0 THEN p.intervals[v].duration ELSE p.intervals[v].modes[x[v].mode].duration
      from     == [v \in present |-> x[v].start]
      until    == [v \in present |-> x[v].start + length(v)]
      apart(v, u) == ~(from[v] < until[u] /\ from[u] < until[v])
      machine(v)  == IF x[v].mode = 0 THEN {} ELSE {p.intervals[v].modes[x[v].mode].machine}
      load(c, t)  == Sum([i \in DOMAIN c.demands |->
                            LET v == c.demands[i][1] IN IF v \in present /\ from[v] <= t /\ t < until[v] THEN c.demands[i][2] ELSE 0])
      holds(c) ==
        CASE c.kind = "IntervalNoOverlap" ->
               \A i, j \in DOMAIN c.intervals :
                 i < j /\ {c.intervals[i], c.intervals[j]} \subseteq present => apart(c.intervals[i], c.intervals[j])
          [] c.kind = "MachineNoOverlap" ->
               \A v, u \in present : v < u /\ machine(v) \cap machine(u) # {} => apart(v, u)
          [] c.kind = "IntervalCumulative" -> \A t \in Range(from) \cup Range(until) : load(c, t) <= c.capacity
  IN  IF /\ \A v \in DOMAIN x : IntervalHolds(p.intervals[v], x[v])
         /\ \A i \in DOMAIN p.precedences :
              LET c == p.precedences[i] IN {c.before, c.after} \subseteq present => until[c.before] <= from[c.after]
         /\ \A i \in DOMAIN p.resources : holds(p.resources[i])
      THEN {IF p.minimize_makespan THEN <<Max({0} \cup Range(until))>> ELSE <<>>}
      ELSE {}
=============================================================================
