------------------------------- MODULE Lowering -------------------------------
(***************************************************************************)
(* What src/model/cp_compile.rs posts for the constraints of a model       *)
(* (Replay.tla): nearly always one propagator, sometimes a group of them,  *)
(* and one for all the exclusions that share a shape.  Variables keep      *)
(* their names; the order variables of tasks that may be absent are named  *)
(* by the constraint.  A compilation that the stop flag interrupts yields  *)
(* nothing, and is left out.                                               *)
(***************************************************************************)
EXTENDS Replay

Is1(v, k)  == Op2("eq", Var(v), Const(k))
That1(e, vs) == [kind |-> "intension", expr |-> e, vars |-> vs]
Sum1(cs, vs, rel, k) == [kind |-> "linear", coeffs |-> cs, vars |-> vs, rel |-> rel, rhs |-> k]
Ones(vs)   == [i \in DOMAIN vs |-> 1]
Mandatory(starts, durs) == [i \in DOMAIN starts |-> [start |-> starts[i], dur |-> durs[i], presence |-> {}]]

-----------------------------------------------------------------------------
(* Exclusions: constraints of one shape become one propagator.             *)

Sides(e) == {<<e.args[1], e.args[2]>>, <<e.args[2], e.args[1]>>}

\* match_divisibility_exclusion: x mod k # 0, as a pair <<x, k>>.
NotDivisible(e) ==
  LET matches(s) == /\ s[2] = Const(0) /\ s[1].op = "mod" /\ s[1].args[1].op = "var"
                    /\ s[1].args[2].op = "const" /\ s[1].args[2].k > 1
  IN  IF e.op # "ne" THEN {} ELSE {<<s[1].args[1].v, s[1].args[2].k>> : s \in {s \in Sides(e) : matches(s)}}

\* match_shared_divisibility_exclusion: either is not divisible by k; the key
\* has the two variables in the order of their ids.
SharedDivisor(c) ==
  IF c.kind # "Intension" \/ c.expr.op # "or" \/ Len(c.expr.args) # 2 THEN {}
  ELSE {[key |-> <<c.vars[1], Last(c.vars)>>, entry |-> l[2]] :
          l \in {l \in NotDivisible(c.expr.args[1]) : \E r \in NotDivisible(c.expr.args[2]) : r[2] = l[2]}}

\* The variable and the value of an equality.
Equality(e) ==
  IF e.op # "eq" THEN {}
  ELSE {<<s[1].v, s[2].k>> : s \in {s \in Sides(e) : s[1].op = "var" /\ s[2].op = "const"}}

\* match_prefix_set_exclusion: past a threshold, a slot takes none of some values.
PrefixExclusion(c) ==
  LET e     == c.expr
      past  == e.args[1]
      terms == e.args[2].args[1].args
      pairs == UNION {Equality(terms[i]) : i \in DOMAIN terms}
  IN  IF /\ c.kind = "Intension" /\ e.op = "imp"
         /\ past.op = "gt" /\ past.args[1].op = "var" /\ past.args[2].op = "const"
         /\ e.args[2].op = "not" /\ e.args[2].args[1].op = "or"
         /\ terms # <<>> /\ \A i \in DOMAIN terms : Equality(terms[i]) # {}
         /\ Cardinality({p[1] : p \in pairs}) = 1
      THEN {[key |-> <<past.args[1].v, {p[2] : p \in pairs}>>, entry |-> <<past.args[2].k, slot[1]>>] : slot \in pairs}
      ELSE {}

Grouped(Match(_), cs, c) == {g.entry : g \in {g \in UNION {Match(d) : d \in Range(cs)} : \E h \in Match(c) : g.key = h.key}}

\* Whether an earlier constraint has already posted the group of cs[i].
GroupPosted(Match(_), cs, i) == \E j \in 1 .. i - 1 : \E g \in Match(cs[i]), h \in Match(cs[j]) : g.key = h.key

DivisorGroup(cs, c) ==
  LET key == (CHOOSE g \in SharedDivisor(c) : TRUE).key
  IN  <<[kind |-> "shared_divisor", x |-> key[1], y |-> key[2], divisors |-> Grouped(SharedDivisor, cs, c)]>>

PrefixGroup(cs, c) ==
  LET key == (CHOOSE g \in PrefixExclusion(c) : TRUE).key
  IN  <<[kind |-> "prefix_set", index |-> key[1], forbidden |-> key[2],
         entries |-> SetToSortSeq(Grouped(PrefixExclusion, cs, c), LAMBDA p, q : p[1] < q[1])]>>

-----------------------------------------------------------------------------
(* Each other constraint by itself.                                        *)

\* ordered: a comparison for each pair of neighbours.
OrderedPair(rel, v, u) ==
  LET le(p, q, k) == [kind |-> "less_or_equal", x |-> p, y |-> q, k |-> k]
  IN  CASE rel = "Le" -> le(v, u, 0) [] rel = "Lt" -> le(v, u, 1)
        [] rel = "Ge" -> le(u, v, 0) [] rel = "Gt" -> le(u, v, 1)

CardinalityPosts_Open(c) ==
  LET at(k) == CHOOSE i \in DOMAIN c.values : c.values[i] = k
  IN  <<[kind |-> "cardinality", vars |-> c.vars, low |-> [k \in Range(c.values) |-> c.lower[at(k)]],
         high |-> [k \in Range(c.values) |-> c.upper[at(k)]]]>>

\* cardinality: closed, the variables take no other value.
CardinalityPosts(c) ==
  LET at(k) == CHOOSE i \in DOMAIN c.values : c.values[i] = k
      counted == [kind |-> "cardinality", vars |-> c.vars, low |-> [k \in Range(c.values) |-> c.lower[at(k)]],
                  high |-> [k \in Range(c.values) |-> c.upper[at(k)]]]
  IN  <<counted>> \o (IF c.closed THEN <<[kind |-> "in_set", vars |-> c.vars, set |-> Range(c.values)]>> ELSE <<>>)

\* precedence_with_covered: a value needs the one before it somewhere before it.
PrecedencePosts(c) ==
  LET n == Len(c.vars)
      some(k, vs) == OpN("or", [i \in DOMAIN vs |-> Is1(vs[i], k)])
      needs(k, i) == That1(Op2("imp", Is1(c.vars[i], c.values[k + 1]), some(c.values[k], SubSeq(c.vars, 1, i - 1))), SubSeq(c.vars, 1, i))
  IN  FlattenSeq([k \in 1 .. Len(c.values) - 1 |-> [i \in 1 .. n |-> needs(k, i)]])
        \o (IF c.covered THEN [k \in DOMAIN c.values |-> That1(some(c.values[k], c.vars), c.vars)] ELSE <<>>)

GlobalPosts(c) ==
  CASE c.kind = "AllDifferent"  -> <<[kind |-> "all_different", vars |-> c.vars, except |-> c.except]>>
    [] c.kind = "AllEqual"      -> <<[kind |-> "all_equal", vars |-> c.vars]>>
    [] c.kind = "Ordered"       -> [i \in 1 .. Len(c.vars) - 1 |-> OrderedPair(c.rel, c.vars[i], c.vars[i + 1])]
    [] c.kind = "Instantiation" -> <<[kind |-> "instantiation", vars |-> c.vars, vals |-> c.values]>>
    [] c.kind = "Minimum"       -> <<[kind |-> "minimum", y |-> c.target, vars |-> c.vars]>>
    [] c.kind = "Maximum"       -> <<[kind |-> "maximum", y |-> c.target, vars |-> c.vars]>>
    [] c.kind = "Element"       -> <<[kind |-> "element", y |-> c.target, array |-> c.vars, idx |-> c.index]>>
    [] c.kind = "ElementConst"  -> <<[kind |-> "element_const", y |-> c.target, array |-> c.array, idx |-> c.index]>>
    [] c.kind = "Count"         -> <<[kind |-> "count", vars |-> c.vars, value |-> c.value, rel |-> c.rel, k |-> c.count]>>
    [] c.kind = "Cardinality"   -> CardinalityPosts(c)
    [] c.kind = "NValues"       -> <<[kind |-> "n_values", vars |-> c.vars, rel |-> c.rel, k |-> c.count]>>
    [] c.kind = "Table"         -> <<[kind |-> "extension", vars |-> c.vars, tuples |-> c.tuples, positive |-> c.positive]>>
    [] c.kind = "Regular"       -> <<[kind |-> "regular", vars |-> c.vars, start |-> c.automaton.start,
                                      arcs |-> Range(c.automaton.arcs), final |-> c.automaton.accepting]>>
    [] c.kind = "Mdd"           -> <<[kind |-> "mdd", vars |-> c.vars, start |-> 0, arcs |-> c.layers,
                                      final |-> {t[3] : t \in c.layers[Len(c.layers)]}]>>
    [] c.kind = "Circuit"       -> <<[kind |-> "circuit", succ |-> c.vars, cutset |-> c.cutset, nbr |-> <<>>]>>
    [] c.kind = "NoOverlap"     -> <<[kind |-> "no_overlap", intervals |-> Mandatory(c.vars, c.durations), orders |-> <<>>]>>
    [] c.kind = "Cumulative"    -> <<[kind |-> "interval_cumulative", intervals |-> Mandatory(c.vars, c.durations),
                                      demands |-> c.demands, capacity |-> c.capacity]>>
    [] c.kind = "CumulativeVar" -> <<[kind |-> "cumulative_var", starts |-> c.starts, dur |-> c.durations,
                                      height |-> c.demands, capacity |-> c.capacity]>>
    [] c.kind = "BinPacking"    -> <<[kind |-> "bin_packing", items |-> c.vars, sizes |-> c.sizes, capacities |-> c.capacities]>>
    [] c.kind = "BinLoads"      -> <<[kind |-> "bin_loads", items |-> c.items, sizes |-> c.sizes, loads |-> c.loads]>>
    [] c.kind = "Knapsack"      -> << Sum1(c.weights, c.vars, c.weight_relation, c.weight_limit),
                                      Sum1(c.profits, c.vars, c.profit_relation, c.profit_limit) >>
    [] c.kind = "ValuePrecedence" -> PrecedencePosts(c)
    [] c.kind = "Lex"           -> <<[kind |-> "lex", x |-> c.left, y |-> c.right, strict |-> c.strict]>>
    [] c.kind = "LexChain"      -> [i \in 1 .. Len(c.rows) - 1 |-> [kind |-> "lex", x |-> c.rows[i], y |-> c.rows[i + 1], strict |-> c.strict]]
    [] c.kind = "Channel"       -> <<[kind |-> "channel", x |-> c.left, y |-> c.right]>>

\* The tasks of an optional resource, and the modes of an alternative.
IntervalPosts(c) ==
  LET tasks == [i \in DOMAIN c.starts |->
                  [start |-> c.starts[i], dur |-> c.durations[i],
                   presence |-> IF c.kind = "AlternativeChannel" THEN {c.presences[i]} ELSE c.presences[i]]]
  IN  IF c.kind = "OptionalNoOverlap" THEN <<[kind |-> "no_overlap", intervals |-> tasks, orders |-> c.orders]>>
      ELSE << [kind |-> "exactly_one_mode", intervals |-> tasks],
              [kind |-> "alternative_channel", shared |-> c.shared, intervals |-> tasks] >>

\* Set constraints, over the membership variables of the values the sets share.
SetPosts(c) ==
  LET shared == InOrder(DOMAIN c.left \cap DOMAIN c.right)
      all    == InOrder(DOMAIN c.set)
      bits   == [i \in DOMAIN all |-> c.set[all[i]]]
      both(u) == <<c.left[u], c.right[u]>>
  IN  CASE c.kind = "SetVar"       -> <<>>
        [] c.kind = "SetSubset"    -> [i \in DOMAIN shared |-> That1(Op2("imp", Is1(c.left[shared[i]], 1), Is1(c.right[shared[i]], 1)), both(shared[i]))]
        [] c.kind = "SetDisjoint"  -> [i \in DOMAIN shared |-> Sum1(<<1, 1>>, both(shared[i]), "Le", 1)]
        [] c.kind = "SetCardinality" -> << Sum1(Ones(bits), bits, "Ge", c.min), Sum1(Ones(bits), bits, "Le", c.max) >>

RECURSIVE LoweredAlone(_)

\* post_constraint.  What the other compilers post is already lowered.
LoweredAlone(c) ==
  CASE c.kind \notin ModelKinds -> <<c>>
    [] c.kind = "Selected"  -> [i \in DOMAIN LoweredAlone(c.inner) |->
                                  [kind |-> "selected", sel |-> c.selector, inner |-> LoweredAlone(c.inner)[i]]]
    [] c.kind = "Intension" -> <<That1(c.expr, c.vars)>>
    [] c.kind = "Linear"    -> <<Sum1(c.coeffs, c.vars, c.rel, c.rhs)>>
    [] c.kind = "Clause"    -> <<That1(OpN("or", [i \in DOMAIN c.literals |-> Is1(c.literals[i][1], IF c.literals[i][2] THEN 1 ELSE 0)]),
                                       [i \in DOMAIN c.literals |-> c.literals[i][1]])>>
    [] c.kind \in {"OptionalNoOverlap", "AlternativeChannel"} -> IntervalPosts(c)
    [] c.kind \in {"SetVar", "SetSubset", "SetDisjoint", "SetCardinality"} -> SetPosts(c)
    [] OTHER -> GlobalPosts(c)

\* What the compiler posts when it comes to cs[i].
Lowered(cs, i) ==
  CASE SharedDivisor(cs[i]) # {}   -> IF GroupPosted(SharedDivisor, cs, i) THEN <<>> ELSE DivisorGroup(cs, cs[i])
    [] PrefixExclusion(cs[i]) # {} -> IF GroupPosted(PrefixExclusion, cs, i) THEN <<>> ELSE PrefixGroup(cs, cs[i])
    [] OTHER                       -> LoweredAlone(cs[i])

\* The variables it fixes: the required members of a set, and those that a
\* superset cannot have.
Fixings(c) ==
  CASE c.kind = "SetVar"    -> [v \in {c.set[u] : u \in c.required} |-> 1]
    [] c.kind = "SetSubset" -> [v \in {c.left[u] : u \in DOMAIN c.left \ DOMAIN c.right} |-> 0]
    [] OTHER                -> <<>>
=============================================================================
