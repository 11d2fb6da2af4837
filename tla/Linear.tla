------------------------------- MODULE Linear -------------------------------
(***************************************************************************)
(* Counts and sums: the counting propagators of src/constraints/count.rs   *)
(* and the linear rows of src/constraints/linear.rs.                       *)
(***************************************************************************)
EXTENDS Store

(* Counting gives no reasons of its own: every cause is the whole scope.   *)

CountingKinds == {"count", "cardinality", "in_set", "n_values"}

Related(rel, a, b) ==
  CASE rel = "Eq" -> a = b
    [] rel = "Ne" -> a # b
    [] rel = "Le" -> a <= b
    [] rel = "Lt" -> a < b
    [] rel = "Ge" -> a >= b
    [] rel = "Gt" -> a > b

Occurrences(a, xs, u) == Cardinality({i \in DOMAIN xs : a[xs[i]] = u})

CountingMeans(c, a) ==
  CASE c.kind = "count"       -> Related(c.rel, Occurrences(a, c.vars, c.value), c.k)
    [] c.kind = "cardinality" -> \A u \in DOMAIN c.low : Occurrences(a, c.vars, u) \in c.low[u] .. c.high[u]
    [] c.kind = "in_set"      -> \A v \in Range(c.vars) : a[v] \in c.set
    [] c.kind = "n_values"    -> Related(c.rel, Cardinality({a[v] : v \in Range(c.vars)}), c.k)

CountingWakes(c) == IF c.kind = "in_set" THEN {} ELSE Range(c.vars) \X {"DomainChange"}

CountingPriority(c) ==
  CASE c.kind = "in_set"      -> "Cheap"
    [] c.kind = "cardinality" -> "Expensive"
    [] OTHER                  -> "Linear"

-----------------------------------------------------------------------------
(* Count: bounds from the variables that have, or may take, the value.     *)

May(s, xs, u)  == {i \in DOMAIN xs : u \in s.dom[xs[i]]}
Must(s, xs, u) == {i \in DOMAIN xs : s.dom[xs[i]] = {u}}

\* Op on the variables that may still go either way.
ForUndecided(Op(_, _), c, s) ==
  ForEach(LAMBDA t, x : IF c.value \in t.dom[x] /\ ~IsFixed(t.dom, x) THEN Op(t, x) ELSE t, s, c.vars)

AtMost(c, s, k) ==
  LET lb == Cardinality(Must(s, c.vars, c.value))
  IN  IF ~s.ok THEN s
      ELSE IF lb > k THEN Failed(s)
      ELSE IF lb = k THEN ForUndecided(LAMBDA t, x : RemoveVal(t, x, c.value, Scope), c, s) ELSE s

AtLeast(c, s, k) ==
  LET ub == Cardinality(May(s, c.vars, c.value))
  IN  IF ~s.ok THEN s
      ELSE IF ub < k THEN Failed(s)
      ELSE IF ub = k THEN ForUndecided(LAMBDA t, x : Fix(t, x, c.value, Scope), c, s) ELSE s

Count(c, s) ==
  CASE c.rel = "Le" -> AtMost(c, s, c.k)
    [] c.rel = "Lt" -> AtMost(c, s, c.k - 1)
    [] c.rel = "Ge" -> AtLeast(c, s, c.k)
    [] c.rel = "Gt" -> AtLeast(c, s, c.k + 1)
    [] c.rel = "Eq" -> AtLeast(c, AtMost(c, s, c.k), c.k)
    [] c.rel = "Ne" -> IF May(s, c.vars, c.value) = Must(s, c.vars, c.value)
                          /\ Cardinality(Must(s, c.vars, c.value)) = c.k THEN Failed(s) ELSE s

-----------------------------------------------------------------------------
(* Cardinality: the flow and its components.  A value stays when some      *)
(* assignment of the variables uses it.                                    *)

GlobalCardinality(c, s) ==
  LET n     == Len(c.vars)
      times(f, u) == Cardinality({i \in 1 .. n : f[i] = u})
      flows == {f \in [1 .. n -> Values] :
                  /\ \A i \in 1 .. n : f[i] \in s.dom[c.vars[i]]
                  /\ \A u \in DOMAIN c.low : times(f, u) \in c.low[u] .. c.high[u]}
  IN  IF flows = {} THEN Failed(s)
      ELSE ConfineEach(s, c.vars, [i \in 1 .. n |-> {f[i] : f \in flows}], Scope)

InSet(c, s) == ConfineEach(s, c.vars, [i \in DOMAIN c.vars |-> c.set], Scope)

-----------------------------------------------------------------------------
(* NValues: bounds on the number of distinct values.                       *)

Union(s, c) == UNION {s.dom[v] : v \in Range(c.vars)}

\* disjoint_lb: the largest number of disjoint intervals [min, max].
DisjointBound(s, c) ==
  LET apart(I) == \A i, j \in I : i # j => \/ Max(s.dom[c.vars[i]]) < Min(s.dom[c.vars[j]])
                                           \/ Max(s.dom[c.vars[j]]) < Min(s.dom[c.vars[i]])
  IN  Max({Cardinality(I) : I \in {J \in SUBSET DOMAIN c.vars : apart(J)}})

FewestValues(s, c) ==
  Max({Cardinality(UNION {s.dom[v] : v \in {w \in Range(c.vars) : IsFixed(s.dom, w)}}), DisjointBound(s, c)})
MostValues(s, c) == Min({Len(c.vars), Cardinality(Union(s, c))})

NValuesFails(s, c) ==
  CASE c.rel \in {"Ge", "Gt"} -> ~Related(c.rel, MostValues(s, c), c.k)
    [] c.rel \in {"Le", "Lt"} -> ~Related(c.rel, FewestValues(s, c), c.k)
    [] c.rel = "Eq" -> MostValues(s, c) < c.k \/ FewestValues(s, c) > c.k
    [] c.rel = "Ne" -> MostValues(s, c) = c.k /\ FewestValues(s, c) = c.k

\* One distinct value at most: every variable keeps the common values.
AllTheSame(c, s) ==
  LET common == {u \in Values : \A v \in Range(c.vars) : u \in s.dom[v]}
  IN  IF <<c.rel, c.k>> \notin {<<"Le", 1>>, <<"Lt", 2>>, <<"Eq", 1>>} THEN s
      ELSE IF common = {} THEN Failed(s)
      ELSE ConfineEach(s, c.vars, [i \in DOMAIN c.vars |-> common], Scope)

\* Every value of the union is needed: its only provider takes it.
ProvideEach(c, s, needed) ==
  ForEach(LAMBDA t, u :
            LET able == May(t, c.vars, u)
            IN  IF able = {} THEN Failed(t)
                ELSE IF Cardinality(able) = 1 THEN Fix(t, c.vars[Min(able)], u, Scope) ELSE t,
          s, InOrder(needed))

NValues(c, s) ==
  UntilStable(LAMBDA t :
    LET fewest == CASE c.rel \in {"Ge", "Eq"} -> c.k [] c.rel = "Gt" -> c.k + 1 [] OTHER -> -1
        s1     == AllTheSame(c, t)
        needed == Union(t, c)
    IN  IF NValuesFails(t, c) THEN Failed(t)
        ELSE IF s1.ok /\ Cardinality(needed) = fewest /\ fewest <= Len(c.vars) THEN ProvideEach(c, s1, needed)
        ELSE s1, s)

CountingFilter(c, s) ==
  CASE c.kind = "count"       -> Count(c, s)
    [] c.kind = "cardinality" -> GlobalCardinality(c, s)
    [] c.kind = "in_set"      -> InSet(c, s)
    [] c.kind = "n_values"    -> NValues(c, s)

-----------------------------------------------------------------------------
(* Linear rows: posting chooses the propagator, which filters bounds.  The *)
(* numbers are far from the limits of i64, where the code is guarded by    *)
(* native_supported.                                                       *)

\* Rows as models post them, and the propagators that filter them.
RowKinds    == {"linear", "reified"}
LinearKinds == {"linear_leq", "linear_eq", "linear_neq", "boolean_leq", "reified_linear"}

Dot(coeffs, xs, a) == FoldLeft(LAMBDA sum, i : sum + coeffs[i] * a[xs[i]], 0, Indices(xs))

Complement(rel) ==
  CASE rel = "Eq" -> "Ne" [] rel = "Ne" -> "Eq" [] rel = "Le" -> "Gt"
    [] rel = "Gt" -> "Le" [] rel = "Lt" -> "Ge" [] rel = "Ge" -> "Lt"

RowHolds(r, a) == Related(r.rel, Dot(r.coeffs, r.vars, a), r.rhs)

\* A reified row: a selector value implies it, or is equivalent to it.
RowMeans(r, a) ==
  IF r.kind = "linear" THEN RowHolds(r, a)
  ELSE IF r.equivalence THEN (a[r.selector] = r.active) <=> RowHolds(r, a)
  ELSE a[r.selector] = r.active => RowHolds(r, a)

-----------------------------------------------------------------------------
(* Posting.                                                                *)

Neg(coeffs) == [i \in DOMAIN coeffs |-> -coeffs[i]]

\* boxed_linear_checked: Lt, Ge and Gt become Le.
Boxed(coeffs, xs, rel, rhs) ==
  LET leq(cs, bound) == [kind |-> "linear_leq", coeffs |-> cs, vars |-> xs, c |-> bound]
  IN  CASE rel = "Le" -> leq(coeffs, rhs)
        [] rel = "Lt" -> leq(coeffs, rhs - 1)
        [] rel = "Ge" -> leq(Neg(coeffs), -rhs)
        [] rel = "Gt" -> leq(Neg(coeffs), -(rhs + 1))
        [] rel = "Eq" -> [kind |-> "linear_eq", coeffs |-> coeffs, vars |-> xs, c |-> rhs]
        [] rel = "Ne" -> [kind |-> "linear_neq", coeffs |-> coeffs, vars |-> xs, c |-> rhs]

\* normalized_boolean_leq: one literal for each variable, with a positive
\* weight, the heaviest first; a negative coefficient complements its literal.
Normalized(coeffs, xs, bound) ==
  LET net(v)    == FoldLeft(LAMBDA sum, i : sum + IF xs[i] = v THEN coeffs[i] ELSE 0, 0, Indices(xs))
      abs(n)    == IF n < 0 THEN -n ELSE n
      first     == {i \in DOMAIN xs : net(xs[i]) # 0 /\ \A j \in 1 .. i - 1 : xs[j] # xs[i]}
      heavier(i, j) == abs(net(xs[i])) > abs(net(xs[j])) \/ (abs(net(xs[i])) = abs(net(xs[j])) /\ i < j)
      literals  == [i \in DOMAIN xs |-> [var    |-> xs[i], weight |-> abs(net(xs[i])),
                                         active |-> IF net(xs[i]) > 0 THEN 1 ELSE 0]]
      order     == SortSeq(SelectSeq(Indices(xs), LAMBDA i : i \in first), heavier)
      shift     == FoldLeft(LAMBDA sum, i : sum + IF net(xs[i]) < 0 THEN -net(xs[i]) ELSE 0, 0, order)
  IN  [kind |-> "boolean_leq", literals |-> [i \in DOMAIN order |-> literals[order[i]]], bound |-> bound + shift]

\* boolean_linear_leq applies.
IsBooleanRow(r, d) == r.rel \notin {"Eq", "Ne"} /\ \A v \in Range(r.vars) : d[v] \subseteq {0, 1}

\* linear and reified_linear_interruptible; "row" keeps what was asked for.
PostedRow(r, d) ==
  LET boxed == Boxed(r.coeffs, r.vars, r.rel, r.rhs)
  IN  ("row" :> r) @@
      (CASE r.kind = "reified" ->
              [kind |-> "reified_linear", selector |-> r.selector, active |-> r.active, equivalence |-> r.equivalence,
               coeffs |-> r.coeffs, vars |-> r.vars, rel |-> r.rel, rhs |-> r.rhs,
               when_true |-> boxed, when_false |-> Boxed(r.coeffs, r.vars, Complement(r.rel), r.rhs)]
         [] r.kind = "linear" /\ IsBooleanRow(r, d) -> Normalized(boxed.coeffs, r.vars, boxed.c)
         [] OTHER -> boxed)

LinearWakes(c) ==
  CASE c.kind \in {"linear_leq", "linear_eq"} -> Range(c.vars) \X {"BoundChange"}
    [] c.kind = "linear_neq"     -> Range(c.vars) \X {"Fix"}
    [] c.kind = "boolean_leq"    -> {c.literals[i].var : i \in DOMAIN c.literals} \X {"Fix"}
    [] c.kind = "reified_linear" -> ({c.selector} \cup Range(c.vars)) \X {"DomainChange"}

-----------------------------------------------------------------------------
(* Bounds of the terms and of their sum.                                   *)

FloorDiv(a, b) == IF b > 0 THEN a \div b ELSE (-a) \div (-b)
CeilDiv(a, b)  == -FloorDiv(-a, b)

Lowest(c, d, i)  == c.coeffs[i] * (IF c.coeffs[i] >= 0 THEN Min(d[c.vars[i]]) ELSE Max(d[c.vars[i]]))
Highest(c, d, i) == c.coeffs[i] * (IF c.coeffs[i] >= 0 THEN Max(d[c.vars[i]]) ELSE Min(d[c.vars[i]]))
SumMin(c, d) == FoldLeft(LAMBDA sum, i : sum + Lowest(c, d, i), 0, Indices(c.vars))
SumMax(c, d) == FoldLeft(LAMBDA sum, i : sum + Highest(c, d, i), 0, Indices(c.vars))

NoSkip == 0

\* min_side and max_side: the near, or far, bound of every term but one.
MinSide(c, d, skip) ==
  {IF c.coeffs[j] > 0 THEN Ge(c.vars[j], Min(d[c.vars[j]])) ELSE Le(c.vars[j], Max(d[c.vars[j]])) :
     j \in {i \in DOMAIN c.vars : i # skip /\ c.coeffs[i] # 0}}
MaxSide(c, d, skip) ==
  {IF c.coeffs[j] > 0 THEN Le(c.vars[j], Max(d[c.vars[j]])) ELSE Ge(c.vars[j], Min(d[c.vars[j]])) :
     j \in {i \in DOMAIN c.vars : i # skip /\ c.coeffs[i] # 0}}

\* One round: what the other terms, at their least, leave for each; the sums are
\* those read at the start of the round, the reasons those of the moment.
LeqRound(c, s) ==
  LET bound(i) == c.c - (SumMin(c, s.dom) - Lowest(c, s.dom, i))
      prune(t, i) ==
        IF c.coeffs[i] > 0
        THEN RemoveAbove(t, c.vars[i], FloorDiv(bound(i), c.coeffs[i]), Because(MinSide(c, t.dom, i)))
        ELSE IF c.coeffs[i] < 0
        THEN RemoveBelow(t, c.vars[i], CeilDiv(bound(i), c.coeffs[i]), Because(MinSide(c, t.dom, i)))
        ELSE t
  IN  IF SumMin(c, s.dom) > c.c THEN FailBecause(s, MinSide(c, s.dom, NoSkip))
      ELSE IF SumMax(c, s.dom) <= c.c THEN s
      ELSE ForEach(prune, s, Indices(c.vars))

LinearLeq(c, s) == UntilStable(LAMBDA t : LeqRound(c, t), s)

EqRound_SwappedSides(c, s) ==
  LET least(i) == c.c - (SumMax(c, s.dom) - Highest(c, s.dom, i))
      most(i)  == c.c - (SumMin(c, s.dom) - Lowest(c, s.dom, i))
      prune(t, i) ==
        IF c.coeffs[i] > 0
        THEN RemoveAbove(RemoveBelow(t, c.vars[i], CeilDiv(least(i), c.coeffs[i]), Because(MinSide(c, t.dom, i))),
                         c.vars[i], FloorDiv(most(i), c.coeffs[i]), Because(MinSide(c, t.dom, i)))
        ELSE IF c.coeffs[i] < 0
        THEN RemoveAbove(RemoveBelow(t, c.vars[i], CeilDiv(most(i), c.coeffs[i]), Because(MinSide(c, t.dom, i))),
                         c.vars[i], FloorDiv(least(i), c.coeffs[i]), Because(MinSide(c, t.dom, i)))
        ELSE t
  IN  IF SumMin(c, s.dom) > c.c THEN FailBecause(s, MinSide(c, s.dom, NoSkip))
      ELSE IF SumMax(c, s.dom) < c.c THEN FailBecause(s, MaxSide(c, s.dom, NoSkip))
      ELSE ForEach(prune, s, Indices(c.vars))

EqRound(c, s) ==
  LET least(i) == c.c - (SumMax(c, s.dom) - Highest(c, s.dom, i))
      most(i)  == c.c - (SumMin(c, s.dom) - Lowest(c, s.dom, i))
      prune(t, i) ==
        IF c.coeffs[i] > 0
        THEN RemoveAbove(RemoveBelow(t, c.vars[i], CeilDiv(least(i), c.coeffs[i]), Because(MaxSide(c, t.dom, i))),
                         c.vars[i], FloorDiv(most(i), c.coeffs[i]), Because(MinSide(c, t.dom, i)))
        ELSE IF c.coeffs[i] < 0
        THEN RemoveAbove(RemoveBelow(t, c.vars[i], CeilDiv(most(i), c.coeffs[i]), Because(MinSide(c, t.dom, i))),
                         c.vars[i], FloorDiv(least(i), c.coeffs[i]), Because(MaxSide(c, t.dom, i)))
        ELSE t
  IN  IF SumMin(c, s.dom) > c.c THEN FailBecause(s, MinSide(c, s.dom, NoSkip))
      ELSE IF SumMax(c, s.dom) < c.c THEN FailBecause(s, MaxSide(c, s.dom, NoSkip))
      ELSE ForEach(prune, s, Indices(c.vars))

LinearEq(c, s) == UntilStable(LAMBDA t : EqRound(c, t), s)

\* Filters the last free variable only.
LinearNeq(c, s) ==
  LET free  == {i \in DOMAIN c.vars : ~IsFixed(s.dom, c.vars[i])}
      fixed == FoldLeft(LAMBDA sum, i : sum + IF i \in free THEN 0 ELSE c.coeffs[i] * TheValue(s.dom, c.vars[i]),
                        0, Indices(c.vars))
      last  == Min(free)
      hit   == {u \in s.dom[c.vars[last]] : c.coeffs[last] * u = c.c - fixed}
  IN  IF free = {} THEN IF fixed = c.c THEN Failed(s) ELSE s
      ELSE IF Cardinality(free) = 1 /\ c.coeffs[last] # 0
      THEN Confine(s, c.vars[last], Values \ hit, Scope) ELSE s

-----------------------------------------------------------------------------
(* Normalized Boolean rows: the active literals must not exceed the bound. *)

IsActive(s, l) == s.dom[l.var] = {l.active}
Active(c, s)   == SelectSeq(Indices(c.literals), LAMBDA i : IsActive(s, c.literals[i]))
Weight(c, is)  == FoldLeft(LAMBDA sum, i : sum + c.literals[i].weight, 0, is)

\* reason_above: the first active literals that together exceed a threshold.
ReasonAbove(c, s, threshold, skip) ==
  LET active == SelectSeq(Active(c, s), LAMBDA i : i # skip)
      enough == {n \in 1 .. Len(active) : Weight(c, SubSeq(active, 1, n)) > threshold}
      count  == IF enough = {} THEN Len(active) ELSE Min(enough)
  IN  {Equals(c.literals[active[i]].var, c.literals[active[i]].active) : i \in 1 .. count}

BooleanLeq(c, s) ==
  LET total == Weight(c, Active(c, s))
      deny(t, i) ==
        LET l == c.literals[i]
        IN  IF IsFixed(t.dom, l.var) \/ l.weight <= c.bound - total THEN t
            ELSE Fix(t, l.var, 1 - l.active, Because(ReasonAbove(c, t, c.bound - l.weight, i)))
  IN  IF total > c.bound THEN FailBecause(s, ReasonAbove(c, s, c.bound, NoSkip))
      ELSE ForEach(deny, s, Indices(c.literals))

-----------------------------------------------------------------------------
(* ReifiedLinear.                                                          *)

Compared(c, lo, hi) ==
  LET always == CASE c.rel = "Eq" -> lo = hi /\ lo = c.rhs   [] c.rel = "Ne" -> c.rhs < lo \/ c.rhs > hi
                  [] c.rel = "Le" -> hi <= c.rhs [] c.rel = "Lt" -> hi < c.rhs
                  [] c.rel = "Ge" -> lo >= c.rhs [] c.rel = "Gt" -> lo > c.rhs
      never  == CASE c.rel = "Eq" -> c.rhs < lo \/ c.rhs > hi [] c.rel = "Ne" -> lo = hi /\ lo = c.rhs
                  [] c.rel = "Le" -> lo > c.rhs [] c.rel = "Lt" -> lo >= c.rhs
                  [] c.rel = "Ge" -> hi < c.rhs [] c.rel = "Gt" -> hi <= c.rhs
  IN  IF always THEN "True" ELSE IF never THEN "False" ELSE "Unknown"

Truth(c, d) == Compared(c, SumMin(c, d), SumMax(c, d))

\* Run an inner propagator with "premise" attributed to all that it does
\* (set_injected_premise, push_conflict_premise).
Attributed(t, injected, premise) ==
  [t EXCEPT !.injected = injected, !.conflict = IF t.ok THEN @ ELSE {why \cup {premise} : why \in @}]

Guarded(Op(_), s, premise) == Attributed(Op([s EXCEPT !.injected = @ \cup {premise}]), s.injected, premise)

PlainLinear(c, s) ==
  CASE c.kind = "linear_leq"  -> LinearLeq(c, s)
    [] c.kind = "linear_eq"   -> LinearEq(c, s)
    [] c.kind = "linear_neq"  -> LinearNeq(c, s)
    [] c.kind = "boolean_leq" -> BooleanLeq(c, s)

ReifiedLinear(c, s) ==
  LET value == TheValue(s.dom, c.selector)
      active == value = c.active
      row    == IF active THEN c.when_true ELSE c.when_false
      why    == UNION {DomainPremises(s.dom, v) : v \in Range(c.vars)}
      settle(truth) ==
        IF truth = "False" \/ (truth = "True" /\ c.equivalence)
        THEN Fix(s, c.selector, IF truth = "True" THEN c.active ELSE 1 - c.active, Because(why)) ELSE s
  IN  IF ~IsFixed(s.dom, c.selector) THEN settle(Truth(c, s.dom))
      ELSE IF active \/ c.equivalence THEN Guarded(LAMBDA t : PlainLinear(row, t), s, Equals(c.selector, value))
      ELSE s

LinearFilter(c, s) == IF c.kind = "reified_linear" THEN ReifiedLinear(c, s) ELSE PlainLinear(c, s)
=============================================================================
