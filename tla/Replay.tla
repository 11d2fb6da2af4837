-------------------------------- MODULE Replay --------------------------------
(***************************************************************************)
(* The constraints of a model and the canonical replay of an assignment    *)
(* (src/orchestrator/verify.rs), which every engine's answer must pass.    *)
(* Values index arrays, nodes and bins from 0.  A set variable is the      *)
(* function from its possible values to their membership variables.  The   *)
(* stop flag only ends a replay without a verdict, and is left out.        *)
(***************************************************************************)
EXTENDS Expressions, Tables, Linear

ModelKinds == {
  "Intension", "Selected", "Linear", "Clause", "AllDifferent", "AllEqual", "Ordered", "Instantiation", "Minimum",
  "Maximum", "Element", "ElementConst", "Count", "Cardinality", "NValues", "Table", "Regular", "Mdd", "Lex", "LexChain",
  "Channel", "Circuit", "NoOverlap", "OptionalNoOverlap", "AlternativeChannel", "Cumulative", "CumulativeVar",
  "BinPacking", "BinLoads", "Knapsack", "ValuePrecedence", "SetVar", "SetSubset", "SetDisjoint", "SetCardinality" }

ValuesOf(a, vs) == [i \in DOMAIN vs |-> a[vs[i]]]
Weighed(xs, ks)     == FoldLeft(LAMBDA n, i : n + xs[i] * ks[i], 0, Indices(xs))

\* decode: the members of a set are the values whose variables are 1.
Members(set, a) == {u \in DOMAIN set : a[set[u]] = 1}

-----------------------------------------------------------------------------

\* evaluate_int_expr: as Expr::eval, but that an operand of a conjunction or
\* disjunction without a value is false.
RECURSIVE Evaluate(_, _)
Evaluate(e, a) ==
  LET holds(i) == \E n \in Evaluate(e.args[i], a) : n # 0
      operands == [i \in DOMAIN e.args |-> Evaluate(e.args[i], a)]
  IN  CASE e.op = "const" -> {e.k}
        [] e.op = "var"   -> {a[e.v]}
        [] e.op = "and"   -> {AsNumber(\A i \in DOMAIN e.args : holds(i))}
        [] e.op = "or"    -> {AsNumber(\E i \in DOMAIN e.args : holds(i))}
        [] e.op = "imp"   -> UNION {IF p = 0 THEN {1} ELSE {AsNumber(q # 0) : q \in Evaluate(e.args[2], a)} : p \in Evaluate(e.args[1], a)}
        [] e.op = "ite"   -> UNION {Evaluate(e.args[IF p # 0 THEN 2 ELSE 3], a) : p \in Evaluate(e.args[1], a)}
        [] OTHER ->
             IF (\E i \in DOMAIN e.args : operands[i] = {}) \/ (e.op \in {"div", "mod"} /\ operands[2] = {0}) THEN {}
             ELSE {Apply(e.op, [i \in DOMAIN e.args |-> CHOOSE n \in operands[i] : TRUE])}

-----------------------------------------------------------------------------
(* The helpers of global_holds, over sequences of values.                  *)

AdjacentHold(rel, xs) == \A i \in 1 .. Len(xs) - 1 : Related(rel, xs[i], xs[i + 1])

DistinctBut(xs, except) == \A i, j \in DOMAIN xs : i < j /\ xs[i] = xs[j] => xs[i] \in except

CardinalityHolds(c, xs) ==
  /\ \A k \in DOMAIN c.values : Cardinality({i \in DOMAIN xs : xs[i] = c.values[k]}) \in c.lower[k] .. c.upper[k]
  /\ c.closed => Range(xs) \subseteq Range(c.values)

TableHolds(tuples, xs) == \E t \in tuples : \A i \in DOMAIN xs : t[i] \in {STAR, xs[i]}

\* The first transition that matches is taken.
RegularHolds(automaton, xs) ==
  LET first(ts)  == IF ts = <<>> THEN {} ELSE {ts[1][3]}
      step(Q, u) == UNION {first(SelectSeq(automaton.arcs, LAMBDA t : t[1] = q /\ t[2] = u)) : q \in Q}
  IN  FoldLeft(step, {automaton.start}, xs) \cap automaton.accepting # {}

MddHolds(layers, xs) ==
  FoldLeft(LAMBDA N, i : {t[3] : t \in {t \in layers[i] : t[1] \in N /\ t[2] = xs[i]}}, {0}, Indices(xs)) # {}

LexHolds(xs, ys, strict) ==
  LET apart == {i \in DOMAIN xs : xs[i] # ys[i]} IN IF apart = {} THEN ~strict ELSE xs[Min(apart)] < ys[Min(apart)]

ChannelHolds(xs, ys) == \A i \in DOMAIN xs : xs[i] + 1 \in DOMAIN ys /\ ys[xs[i] + 1] = i - 1

\* The successors are nodes, all different, and lead from node 0 to every node
\* and back.
CircuitHolds(xs) ==
  LET nodes == 0 .. Len(xs) - 1
      path  == FoldLeft(LAMBDA p, k : Append(p, xs[Last(p) + 1]), <<0>>, xs)
  IN  /\ Range(xs) = nodes
      /\ xs # <<>> => Range(Front(path)) = nodes /\ Last(path) = 0

\* A task of no duration is in the way of another only strictly inside it.
NoOverlapHolds(starts, durs) ==
  \A i, j \in DOMAIN starts : i < j => ~(starts[i] + durs[i] > starts[j] /\ starts[j] + durs[j] > starts[i])

CumulativeHolds(starts, durs, demands, capacity) ==
  LET tasks   == DOMAIN starts
      load(t) == FoldLeft(LAMBDA n, i : IF starts[i] <= t /\ t < starts[i] + durs[i] THEN n + demands[i] ELSE n, 0, Indices(starts))
  IN  \A t \in {starts[i] : i \in tasks} \cup {starts[i] + durs[i] : i \in tasks} : load(t) <= capacity

\* The load of each bin, where every item is in a bin.
BinsHold(items, sizes, bins, Fits1(_, _)) ==
  /\ \A i \in DOMAIN items : items[i] + 1 \in bins
  /\ \A b \in bins : Fits1(b, FoldLeft(LAMBDA n, i : IF items[i] + 1 = b THEN n + sizes[i] ELSE n, 0, Indices(items)))

\* Each value first appears after the one before it.
PrecedenceHolds(ordered, covered, xs) ==
  LET at(k) == {i \in DOMAIN xs : xs[i] = ordered[k]}
  IN  /\ covered => \A k \in DOMAIN ordered : at(k) # {}
      /\ \A k \in 2 .. Len(ordered) : at(k) # {} => at(k - 1) # {} /\ Min(at(k - 1)) < Min(at(k))

\* One mode is present, and the shared start is its own.
AlternativeHolds(start, starts, presences) ==
  LET chosen == {i \in DOMAIN presences : presences[i] = 1}
  IN  Cardinality(chosen) = 1 /\ \A i \in chosen : starts[i] = start

-----------------------------------------------------------------------------

GlobalHolds(c, a) ==
  LET xs == ValuesOf(a, c.vars)
  IN  CASE c.kind = "AllDifferent"    -> DistinctBut(xs, c.except)
        [] c.kind = "AllEqual"        -> AdjacentHold("Eq", xs)
        [] c.kind = "Ordered"         -> AdjacentHold(c.rel, xs)
        [] c.kind = "Instantiation"   -> xs = c.values
        [] c.kind = "Minimum"         -> a[c.target] = Min(Range(xs))
        [] c.kind = "Maximum"         -> a[c.target] = Max(Range(xs))
        [] c.kind = "Element"         -> a[c.index] + 1 \in DOMAIN xs /\ xs[a[c.index] + 1] = a[c.target]
        [] c.kind = "Count"           -> Related(c.rel, Cardinality({i \in DOMAIN xs : xs[i] = c.value}), c.count)
        [] c.kind = "Cardinality"     -> CardinalityHolds(c, xs)
        [] c.kind = "NValues"         -> Related(c.rel, Cardinality(Range(xs)), c.count)
        [] c.kind = "Table"           -> TableHolds(c.tuples, xs) = c.positive
        [] c.kind = "Regular"         -> RegularHolds(c.automaton, xs)
        [] c.kind = "Mdd"             -> MddHolds(c.layers, xs)
        [] c.kind = "Circuit"         -> CircuitHolds(xs)
        [] c.kind = "NoOverlap"       -> NoOverlapHolds(xs, c.durations)
        [] c.kind = "Cumulative"      -> CumulativeHolds(xs, c.durations, c.demands, c.capacity)
        [] c.kind = "BinPacking"      -> BinsHold(xs, c.sizes, DOMAIN c.capacities, LAMBDA b, n : n <= c.capacities[b])
        [] c.kind = "Knapsack"        -> /\ Related(c.weight_relation, Weighed(xs, c.weights), c.weight_limit)
                                         /\ Related(c.profit_relation, Weighed(xs, c.profits), c.profit_limit)
        [] c.kind = "ValuePrecedence" -> PrecedenceHolds(c.values, c.covered, xs)

\* The tasks whose presence, if they have one, is 1.
ActiveTasks(c, a) == SelectSeq(Indices(c.starts), LAMBDA i : \A p \in c.presences[i] : a[p] = 1)

RECURSIVE ConstraintHolds(_, _)

\* constraint_holds, and the arms of global_holds over more than one array.
ConstraintHolds(c, a) ==
  CASE c.kind = "Selected"  -> a[c.selector] = 1 => ConstraintHolds(c.inner, a)
    [] c.kind = "Intension" -> \E n \in Evaluate(c.expr, a) : n # 0
    [] c.kind = "Linear"    -> Related(c.rel, Weighed(ValuesOf(a, c.vars), c.coeffs), c.rhs)
    [] c.kind = "Clause"    -> \E l \in Range(c.literals) : (a[l[1]] # 0) = l[2]
    [] c.kind = "SetVar"         -> c.required \subseteq Members(c.set, a)
    [] c.kind = "SetSubset"      -> Members(c.left, a) \subseteq Members(c.right, a)
    [] c.kind = "SetDisjoint"    -> Members(c.left, a) \cap Members(c.right, a) = {}
    [] c.kind = "SetCardinality" -> Cardinality(Members(c.set, a)) \in c.min .. c.max
    [] c.kind = "ElementConst"   -> a[c.index] + 1 \in DOMAIN c.array /\ c.array[a[c.index] + 1] = a[c.target]
    [] c.kind = "Lex"            -> LexHolds(ValuesOf(a, c.left), ValuesOf(a, c.right), c.strict)
    [] c.kind = "LexChain"       -> \A i \in 2 .. Len(c.rows) : LexHolds(ValuesOf(a, c.rows[i - 1]), ValuesOf(a, c.rows[i]), c.strict)
    [] c.kind = "Channel"        -> ChannelHolds(ValuesOf(a, c.left), ValuesOf(a, c.right))
    [] c.kind = "OptionalNoOverlap" ->
         LET on == ActiveTasks(c, a)
         IN  NoOverlapHolds([k \in DOMAIN on |-> a[c.starts[on[k]]]], [k \in DOMAIN on |-> c.durations[on[k]]])
    [] c.kind = "AlternativeChannel" -> AlternativeHolds(a[c.shared], ValuesOf(a, c.starts), ValuesOf(a, c.presences))
    [] c.kind = "CumulativeVar"      -> CumulativeHolds(ValuesOf(a, c.starts), ValuesOf(a, c.durations), ValuesOf(a, c.demands), a[c.capacity])
    [] c.kind = "BinLoads"           -> BinsHold(ValuesOf(a, c.items), c.sizes, DOMAIN c.loads, LAMBDA b, n : a[c.loads[b]] = n)
    [] OTHER                         -> GlobalHolds(c, a)
=============================================================================
