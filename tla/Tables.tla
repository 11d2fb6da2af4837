-------------------------------- MODULE Tables --------------------------------
(***************************************************************************)
(* The propagators of src/constraints/table.rs: tables of allowed or       *)
(* forbidden tuples, automata and layered diagrams.  A value stays only    *)
(* while some tuple or path uses it.  A scope lists each variable once.    *)
(***************************************************************************)
EXTENDS Store

TableKinds == {"extension", "regular", "mdd"}

STAR == -1000   \* i32::MIN: the column matches any value

MatchesEntry(t, i, u) == t[i] \in {STAR, u}

-----------------------------------------------------------------------------
(* Extension.  The table of live tuples is kept across wakes and narrowed  *)
(* by the columns that shrank; what it holds then are the tuples alive in  *)
(* the domains of the moment.                                              *)

Alive(c, d, t) == \A i \in DOMAIN c.vars : t[i] = STAR \/ t[i] \in d[c.vars[i]]

\* killer_lit: a column that rules a dead tuple out (the one that served last
\* is tried first, which is left open here).
Killer(c, d, t) ==
  LET i == CHOOSE i \in DOMAIN c.vars : t[i] # STAR /\ t[i] \notin d[c.vars[i]]
  IN  Differs(c.vars[i], t[i])

ScopeWidth(c, d) == MapThenSumSet(LAMBDA i : Cardinality(DomainPremises(d, c.vars[i])), DOMAIN c.vars)

\* push_killers: one killer for each dead tuple, or the whole scope if that is
\* the shorter reason.
Killers(c, d, T) ==
  LET why == {Killer(c, d, t) : t \in T}
  IN  IF Cardinality(why) > ScopeWidth(c, d) THEN Scope ELSE Because(why)

\* Every reason is built on the domains of the start (d), before the first removal.
Positive(c, s) ==
  LET d == s.dom
      live == {t \in c.tuples : Alive(c, d, t)}
      backing(i, u) == {t \in c.tuples : MatchesEntry(t, i, u)}
      prune(r, i) ==
        ForEach(LAMBDA q, u : RemoveVal(q, c.vars[i], u, Killers(c, d, backing(i, u))), r,
                InOrder({u \in d[c.vars[i]] : backing(i, u) \cap live = {}}))
  IN  IF live = {} THEN [s EXCEPT !.ok = FALSE, !.conflict = Killers(c, d, c.tuples)]
      ELSE ForEach(prune, s, Indices(c.vars))

\* A value goes when every completion of it matches a forbidden tuple.
Negative(c, s) ==
  LET completions(d) == {f \in [DOMAIN c.vars -> Values] : \A i \in DOMAIN c.vars : f[i] \in d[c.vars[i]]}
      forbidden(f) == \E t \in c.tuples : \A i \in DOMAIN c.vars : MatchesEntry(t, i, f[i])
      prune(r, i) == Confine(r, c.vars[i], {f[i] : f \in {f \in completions(r.dom) : ~forbidden(f)}}, Scope)
  IN  ForEach(prune, s, Indices(c.vars))

-----------------------------------------------------------------------------
(* Regular and Mdd: arcs <<from, value, to>> between consecutive layers;   *)
(* an automaton has the same arcs in each layer.                           *)

Arcs(c, i) == IF c.kind = "regular" THEN c.arcs ELSE c.arcs[i]

Heads(arcs, from, values) == {t[3] : t \in {t \in arcs : t[1] \in from /\ t[2] \in values}}
Tails(arcs, to, values)   == {t[1] : t \in {t \in arcs : t[3] \in to /\ t[2] \in values}}

\* The nodes of layer i (from 0) that the start reaches and that reach the end.
Forward(c, d, i)  == FoldLeft(LAMBDA R, j : Heads(Arcs(c, j), R, d[c.vars[j]]), {c.start}, [j \in 1 .. i |-> j])
Backward(c, d, i) ==
  LET n == Len(c.vars)
  IN  FoldLeft(LAMBDA R, k : Tails(Arcs(c, n + 1 - k), R, d[c.vars[n + 1 - k]]), c.final, [k \in 1 .. n - i |-> k])

\* The values of position i on a path, all read before the first removal.
OnPath(c, d, i) ==
  LET F == Forward(c, d, i - 1)  B == Backward(c, d, i)
  IN  {t[2] : t \in {t \in Arcs(c, i) : t[1] \in F /\ t[3] \in B}}

Layered(c, s) ==
  IF c.vars = <<>> THEN IF c.start \in c.final THEN s ELSE Failed(s)
  ELSE ConfineEach(s, c.vars, [i \in DOMAIN c.vars |-> OnPath(c, s.dom, i)], Scope)

-----------------------------------------------------------------------------

TableMeans(c, a) ==
  LET matched == \E t \in c.tuples : \A i \in DOMAIN c.vars : MatchesEntry(t, i, a[c.vars[i]])
  IN  IF c.kind = "extension" THEN matched = c.positive
      ELSE Forward(c, [v \in Vars |-> {a[v]}], Len(c.vars)) \cap c.final # {}

TableWakes(c) == Range(c.vars) \X {"DomainChange"}

TableFilter(c, s) ==
  IF c.kind # "extension" THEN Layered(c, s)
  ELSE IF c.positive THEN Positive(c, s) ELSE Negative(c, s)

-----------------------------------------------------------------------------
(* Compact implications: src/constraints/prefix_set.rs, an index inside a  *)
(* prefix or a slot outside a set, and src/constraints/divisibility.rs, no *)
(* divisor shared by two variables.  A stop inside them ends the round as  *)
(* the stop of the propagation loop does, and is left out.                 *)

ExclusionKinds == {"prefix_set", "shared_divisor"}

Divides(k, u) == u % k = 0

ExclusionMeans(c, a) ==
  IF c.kind = "prefix_set" THEN \A e \in Range(c.entries) : a[c.index] <= e[1] \/ a[e[2]] \notin c.forbidden
  ELSE \A k \in c.divisors : ~Divides(k, a[c.x]) \/ ~Divides(k, a[c.y])

ExclusionWakes(c) ==
  IF c.kind = "prefix_set" THEN {<<c.index, "BoundChange">>} \cup {<<e[2], "DomainChange">> : e \in Range(c.entries)}
  ELSE {c.x, c.y} \X {"Fix"}

-----------------------------------------------------------------------------

\* A slot left with forbidden values keeps the index inside the prefix.
KeepPrefix(c, s, limit, slot) ==
  LET why == DomainPremises(s.dom, slot)
  IN  IF ~(s.dom[slot] \subseteq c.forbidden) THEN s
      ELSE IF Min(s.dom[c.index]) > limit THEN FailBecause(s, why \cup {Ge(c.index, limit + 1)})
      ELSE RemoveAbove(s, c.index, limit, Because(why))

\* An index past the prefix rules the forbidden values out.
ForbidValues(c, s, limit, slot) ==
  LET past == Ge(c.index, limit + 1)
      forbid(t, u) ==
        IF u \notin t.dom[slot] THEN t
        ELSE IF IsFixed(t.dom, slot) THEN FailBecause(t, {past, Equals(slot, u)})
        ELSE RemoveVal(t, slot, u, Because({past}))
  IN  IF ~s.ok \/ Min(s.dom[c.index]) <= limit THEN s ELSE ForEach(forbid, s, InOrder(c.forbidden))

PrefixSet(c, s) ==
  ForEach(LAMBDA t, e : ForbidValues(c, KeepPrefix(c, t, e[1], e[2]), e[1], e[2]), s, c.entries)

-----------------------------------------------------------------------------

\* filter_from: a fixed source rules out the values that share a divisor with it.
FilterFrom(c, s, source, target) ==
  LET u      == TheValue(s.dom, source)
      shared == {w \in s.dom[target] : \E k \in c.divisors : Divides(k, u) /\ Divides(k, w)}
      because == {Equals(source, u)}
      drop(t, w) ==
        IF w \notin t.dom[target] THEN t
        ELSE IF IsFixed(t.dom, target) THEN FailBecause(t, because \cup {Equals(target, w)})
        ELSE RemoveVal(t, target, w, Because(because))
  IN  IF ~s.ok \/ ~IsFixed(s.dom, source) THEN s ELSE ForEach(drop, s, InOrder(shared))

ExclusionFilter(c, s) ==
  IF c.kind = "prefix_set" THEN PrefixSet(c, s) ELSE FilterFrom(c, FilterFrom(c, s, c.x, c.y), c.y, c.x)
=============================================================================
