----------------------------- MODULE Decomposition -----------------------------
(***************************************************************************)
(* How a model is cut into independent components (src/model/decompose.rs) *)
(* and how an assignment of the whole is replayed over them                *)
(* (src/orchestrator/verify.rs).  A component keeps, for each arena of the *)
(* model, the original indices of its own in the order of its local ones.  *)
(***************************************************************************)
EXTENDS Collections

R == INSTANCE Replay WITH Vars <- {}, Values <- {}, subs <- <<>>, prio <- <<>>, single_band <- FALSE,
                          dom <- <<>>, queues <- <<>>, enqueued <- {}

Arenas  == {"ints", "sets", "lists", "intervals", "modes"}

\* The elements of xs at the given positions.
Pick(xs, at) == [i \in DOMAIN at |-> xs[at[i]]]

\* The position of each of the kept indices.
Local(at) == [n \in Range(at) |-> CHOOSE i \in DOMAIN at : at[i] = n]

-----------------------------------------------------------------------------
(* The indices that constraints and objectives hold: the arena and the     *)
(* shape of each field of theirs.                                          *)

Places(c) ==
  CASE c.kind = "Intension"          -> [expr |-> <<"ints", "tree">>]
    [] c.kind = "Selected"           -> [selector |-> <<"ints", "one">>]
    [] c.kind = "Clause"             -> [literals |-> <<"ints", "pairs">>]
    [] c.kind \in {"Minimum", "Maximum"} -> [target |-> <<"ints", "one">>, vars |-> <<"ints", "many">>]
    [] c.kind = "Element"            -> [vars |-> <<"ints", "many">>, index |-> <<"ints", "one">>, target |-> <<"ints", "one">>]
    [] c.kind = "ElementConst"       -> [index |-> <<"ints", "one">>, target |-> <<"ints", "one">>]
    [] c.kind \in {"Lex", "Channel"} -> [left |-> <<"ints", "many">>, right |-> <<"ints", "many">>]
    [] c.kind = "LexChain"           -> [rows |-> <<"ints", "rows">>]
    [] c.kind = "OptionalNoOverlap"  -> [starts |-> <<"ints", "many">>, presences |-> <<"ints", "optional">>]
    [] c.kind = "AlternativeChannel" -> [shared |-> <<"ints", "one">>, starts |-> <<"ints", "many">>, presences |-> <<"ints", "many">>]
    [] c.kind = "CumulativeVar"      -> [starts |-> <<"ints", "many">>, durations |-> <<"ints", "many">>,
                                         demands |-> <<"ints", "many">>, capacity |-> <<"ints", "one">>]
    [] c.kind = "BinLoads"           -> [items |-> <<"ints", "many">>, loads |-> <<"ints", "many">>]
    [] c.kind \in {"SetSubset", "SetDisjoint"} -> [left |-> <<"sets", "one">>, right |-> <<"sets", "one">>]
    [] c.kind = "SetCardinality"     -> [set |-> <<"sets", "one">>]
    [] c.kind \in {"ListPartition", "SameList", "ItemPrecedence"} -> [lists |-> <<"lists", "many">>]
    [] c.kind \in {"ListLength", "ListItemSum"} -> [list |-> <<"lists", "one">>]
    [] c.kind = "ListReduction"      -> [reduction |-> <<"lists", "reduction">>]
    [] c.kind = "IntervalPrecedence" -> [before |-> <<"intervals", "one">>, after |-> <<"intervals", "one">>]
    [] c.kind = "IntervalAlternative" -> [master |-> <<"intervals", "one">>, members |-> <<"intervals", "many">>]
    [] c.kind = "IntervalEndpointRelation" -> [left |-> <<"intervals", "one">>, right |-> <<"intervals", "one">>]
    [] c.kind = "IntervalNoOverlap"  -> [intervals |-> <<"intervals", "many">>]
    [] c.kind = "IntervalCumulative" -> [demands |-> <<"intervals", "pairs">>]
    [] c.kind \in {"CollectionGlobal", "MachineNoOverlap"} -> <<>>
    [] c.kind = "IntExpr"            -> [expr |-> <<"ints", "tree">>]
    [] c.kind = "ListTerms"          -> [terms |-> <<"lists", "reductions">>, max_terms |-> <<"lists", "groups">>]
    [] c.kind = "Makespan"           -> [intervals |-> <<"intervals", "many">>]
    [] OTHER                         -> [vars |-> <<"ints", "many">>]   \* a linear relation, or a constraint over one array

RECURSIVE TreeVars(_)
TreeVars(e) == CASE e.op = "const" -> {} [] e.op = "var" -> {e.v} [] OTHER -> UNION {TreeVars(e.args[i]) : i \in DOMAIN e.args}

RECURSIVE RenamedTree(_, _)
RenamedTree(e, f) ==
  CASE e.op = "const" -> e
    [] e.op = "var"   -> [e EXCEPT !.v = f[e.v]]
    [] OTHER          -> [e EXCEPT !.args = [i \in DOMAIN e.args |-> RenamedTree(e.args[i], f)]]

\* The indices in a field x of a shape, and x with f applied to them.
Held(shape, x) ==
  CASE shape = "one"        -> {x}
    [] shape = "many"       -> Range(x)
    [] shape = "rows"       -> UNION {Range(row) : row \in Range(x)}
    [] shape = "optional"   -> UNION Range(x)
    [] shape = "pairs"      -> {p[1] : p \in Range(x)}
    [] shape = "tree"       -> TreeVars(x)
    [] shape = "reduction"  -> {x.list}
    [] shape = "reductions" -> {r.list : r \in Range(x)}
    [] shape = "groups"     -> UNION {UNION {{r.list : r \in Range(g)} : g \in Range(t.groups)} : t \in Range(x)}

Renamed(shape, x, f) ==
  LET reductions(rs) == [i \in DOMAIN rs |-> [rs[i] EXCEPT !.list = f[@]]]
  IN  CASE shape = "one"        -> f[x]
        [] shape = "many"       -> [i \in DOMAIN x |-> f[x[i]]]
        [] shape = "rows"       -> [j \in DOMAIN x |-> [i \in DOMAIN x[j] |-> f[x[j][i]]]]
        [] shape = "optional"   -> [i \in DOMAIN x |-> {f[v] : v \in x[i]}]
        [] shape = "pairs"      -> [i \in DOMAIN x |-> [x[i] EXCEPT ![1] = f[@]]]
        [] shape = "tree"       -> RenamedTree(x, f)
        [] shape = "reduction"  -> [x EXCEPT !.list = f[@]]
        [] shape = "reductions" -> reductions(x)
        [] shape = "groups"     -> [t \in DOMAIN x |-> [x[t] EXCEPT !.groups = [g \in DOMAIN @ |-> reductions(@[g])]]]

RECURSIVE Refs(_), RemapConstraint(_, _)

\* integer_scope, list_scope and interval_scope, but for what is over a whole arena.
Refs(c) ==
  UNION {{<<Places(c)[k][1], n>> : n \in Held(Places(c)[k][2], c[k])} : k \in DOMAIN Places(c)}
    \cup (IF c.kind = "Selected" THEN Refs(c.inner) ELSE {})

RemapConstraint(c, maps) ==
  [k \in DOMAIN c |->
     IF k \in DOMAIN Places(c) THEN Renamed(Places(c)[k][2], c[k], maps[Places(c)[k][1]])
     ELSE IF k = "inner" THEN RemapConstraint(c.inner, maps) ELSE c[k]]

-----------------------------------------------------------------------------
(* The components.                                                         *)

IntervalKinds == ScheduleKinds \cup {"IntervalAlternative", "IntervalEndpointRelation"}

FamilyOf(c) ==
  CASE c.kind \in ListKinds \cup {"ListTerms"}    -> "Lists"
    [] c.kind \in IntervalKinds \cup {"Makespan"} -> "Intervals"
    [] OTHER                                      -> "IntegerSet"

ArenasOf(family) ==
  CASE family = "IntegerSet" -> {"ints", "sets"}
    [] family = "Lists"      -> {"lists"}
    [] family = "Intervals"  -> {"intervals", "modes"}

\* The variables of a family are nodes from 1: the sets follow the integers.
NodeCount(m, family) ==
  CASE family = "IntegerSet" -> Len(m.ints) + Len(m.sets) [] family = "Lists" -> Len(m.lists) [] family = "Intervals" -> Len(m.intervals)

Scope(m, c) ==
  CASE c.kind = "CollectionGlobal" -> DOMAIN m.lists
    [] c.kind = "MachineNoOverlap" -> DOMAIN m.intervals
    [] OTHER                       -> {IF r[1] = "sets" THEN Len(m.ints) + r[2] ELSE r[2] : r \in Refs(c)}

Scopes(m, cs) == [i \in DOMAIN cs |-> Scope(m, cs[i])]

\* UnionFind: the root of each node, when each scope is joined to its first node.
Roots(n, scopes) ==
  LET join(root, S) == [i \in DOMAIN root |-> IF \E j \in S : root[j] = root[i] THEN root[Min(S)] ELSE root[i]]
  IN  FoldLeft(join, [i \in 1 .. n |-> i], scopes)

Ordered(S) == SetToSortSeq(S, LAMBDA i, j : i < j)

\* The component of m that keeps the given indices, constraints and objectives.
ComponentOf(m, family, keep, constraints, objectives) ==
  LET maps == [a \in Arenas |-> Local(keep[a])]
      declaration(v) == [m.intervals[v] EXCEPT !.modes = [i \in DOMAIN @ |-> maps["modes"][@[i]]]]
      mode(k)        == [m.modes[k] EXCEPT !.interval = maps["intervals"][@]]
  IN  [ family |-> family, keep |-> keep, constraints |-> constraints, tiers |-> objectives,
        model  |-> [ ints        |-> Pick(m.ints, keep["ints"]),
                     sets        |-> Pick(m.sets, keep["sets"]),
                     lists       |-> Pick(m.lists, keep["lists"]),
                     intervals   |-> [i \in DOMAIN keep["intervals"] |-> declaration(keep["intervals"][i])],
                     modes       |-> [i \in DOMAIN keep["modes"] |-> mode(keep["modes"][i])],
                     constraints |-> [i \in DOMAIN constraints |-> RemapConstraint(m.constraints[constraints[i]], maps)],
                     objectives  |-> [i \in DOMAIN objectives |-> RemapConstraint(m.objectives[objectives[i]], maps)] ] ]

\* What the nodes of a group keep: the modes go with their intervals.
KeptBy(m, family, nodes) ==
  [a \in Arenas |->
     IF a \notin ArenasOf(family) THEN <<>>
     ELSE Ordered(CASE a = "ints"  -> nodes \cap DOMAIN m.ints
                    [] a = "sets"  -> {n - Len(m.ints) : n \in nodes \ DOMAIN m.ints}
                    [] a = "modes" -> {k \in DOMAIN m.modes : m.modes[k].interval \in nodes}
                    [] OTHER       -> nodes)]

\* The positions of what is within a group.
Within(scopes, nodes) == SelectSeq(Positions(scopes), LAMBDA i : scopes[i] \subseteq nodes)

GroupComponent(m, family, nodes) ==
  ComponentOf(m, family, KeptBy(m, family, nodes), Within(Scopes(m, m.constraints), nodes), Within(Scopes(m, m.objectives), nodes))

GroupOf(root, r) == {i \in DOMAIN root : root[i] = r}

GroupComponents(m, family, root) ==
  IF \/ Cardinality(Range(root)) < 2
     \/ \E i \in DOMAIN m.constraints : Scope(m, m.constraints[i]) = {}
     \/ \E t \in DOMAIN m.objectives : Cardinality({root[i] : i \in Scope(m, m.objectives[t])}) # 1
  THEN {}
  ELSE LET order == Ordered(Range(root)) IN {[i \in DOMAIN order |-> GroupComponent(m, family, GroupOf(root, order[i]))]}

\* integer_connected_components and its two counterparts: none for a single group, a
\* constraint over nothing, or a tier over nothing or over several groups.
Connected(m, family) == GroupComponents(m, family, Roots(NodeCount(m, family), Scopes(m, m.constraints)))

\* family_components: the parts of m that are there, each with what is its own.
FamilyComponent(m, family) ==
  LET own(cs) == SelectSeq(Positions(cs), LAMBDA i : FamilyOf(cs[i]) = family)
      keep    == [a \in Arenas |-> IF a \in ArenasOf(family) THEN Positions(m[a]) ELSE <<>>]
  IN  ComponentOf(m, family, keep, own(m.constraints), own(m.objectives))

HasParts(p) == (\E a \in Arenas \ {"modes"} : p.keep[a] # <<>>) \/ p.constraints # <<>> \/ p.tiers # <<>>

FamilyComponents(m) == SelectSeq([f \in 1 .. 3 |-> FamilyComponent(m, <<"IntegerSet", "Lists", "Intervals">>[f])], HasParts)

\* compose_component_mapping: the component q of the component p, in the original indices.
Composed(p, q) ==
  [q EXCEPT !.keep = [a \in Arenas |-> Pick(p.keep[a], @[a])], !.constraints = Pick(p.constraints, @), !.tiers = Pick(p.tiers, @)]

\* refine_family_component: the connected components of a family, where it has some.
RefinedInto(p, nested) ==
  IF nested = {} THEN <<p>> ELSE CHOOSE parts \in {[i \in DOMAIN qs |-> Composed(p, qs[i])] : qs \in nested} : TRUE

Refined(p) == RefinedInto(p, Connected(p.model, p.family))

MainFamily(m) == IF m.lists # <<>> THEN "Lists" ELSE IF m.intervals # <<>> THEN "Intervals" ELSE "IntegerSet"

\* independent_family_components
DecomposedInto(m, families) ==
  IF MainFamily(m) # "IntegerSet" /\ Len(families) > 1
  THEN {FlattenSeq([f \in DOMAIN families |-> Refined(families[f])])}
  ELSE Connected(m, MainFamily(m))

Decomposed(m) == DecomposedInto(m, FamilyComponents(m))

\* validate_decomposition_coverage: each index has one owner.
Covered(m, parts) ==
  LET once(n, kept) == LET all == FlattenSeq(kept) IN IsInjective(all) /\ Range(all) = 1 .. n
  IN  /\ \A a \in Arenas : once(Len(m[a]), [i \in DOMAIN parts |-> parts[i].keep[a]])
      /\ once(Len(m.constraints), [i \in DOMAIN parts |-> parts[i].constraints])
      /\ once(Len(m.objectives), [i \in DOMAIN parts |-> parts[i].tiers])

-----------------------------------------------------------------------------
(* Assignments: [ints, sets, lists, intervals], the mode of an interval    *)
(* that has none being 0.                                                  *)

\* project_component_assignment
Projected(p, x) ==
  LET mode(k) == IF k = 0 THEN 0 ELSE Local(p.keep["modes"])[k]
  IN  [ ints |-> Pick(x.ints, p.keep["ints"]), sets |-> Pick(x.sets, p.keep["sets"]), lists |-> Pick(x.lists, p.keep["lists"]),
        intervals |-> [i \in DOMAIN p.keep["intervals"] |-> [x.intervals[p.keep["intervals"][i]] EXCEPT !.mode = mode(@)]] ]

\* A set is the function from its possible values to their membership variables,
\* which follow the integers.
Membership(s, u) == 100 * s + u
SetOf(m, s)      == [u \in m.sets[s].possible |-> Membership(s, u)]

RECURSIVE Resolved(_, _)
Resolved(m, c) ==
  CASE c.kind = "Selected"                     -> [c EXCEPT !.inner = Resolved(m, @)]
    [] c.kind \in {"SetSubset", "SetDisjoint"} -> [c EXCEPT !.left = SetOf(m, @), !.right = SetOf(m, @)]
    [] c.kind = "SetCardinality"               -> [c EXCEPT !.set = SetOf(m, @)]
    [] OTHER                                   -> c

ValuesIn(m, x) ==
  LET members == UNION {{<<s, u>> : u \in m.sets[s].possible} : s \in DOMAIN m.sets}
  IN  [n \in DOMAIN x.ints \cup {Membership(e[1], e[2]) : e \in members} |->
         IF n \in DOMAIN x.ints THEN x.ints[n] ELSE AsNumber(\E e \in members : n = Membership(e[1], e[2]) /\ e[2] \in x.sets[e[1]])]

IntegersHold(m, x, a) ==
  /\ \A v \in DOMAIN m.ints : x.ints[v] \in m.ints[v]
  /\ \A s \in DOMAIN m.sets : m.sets[s].required \subseteq x.sets[s] /\ x.sets[s] \subseteq m.sets[s].possible
  /\ \A i \in DOMAIN m.constraints : R!ConstraintHolds(Resolved(m, m.constraints[i]), a)

\* Values of which some may be missing.
AllKnown(values) == IF \E t \in DOMAIN values : values[t] = {} THEN {} ELSE {[t \in DOMAIN values |-> CHOOSE n \in values[t] : TRUE]}

ReplayIntegers(m, x, a) ==
  IF IntegersHold(m, x, a) THEN AllKnown([t \in DOMAIN m.objectives |-> R!Evaluate(m.objectives[t].expr, a)]) ELSE {}

\* The values of a model from those of its parts.
Recombined(m, parts, values) ==
  LET owner(t) == CHOOSE i \in DOMAIN parts : t \in Range(parts[i].tiers)
  IN  {[t \in DOMAIN m.objectives |-> v[owner(t)][Local(parts[owner(t)].tiers)[t]]] : v \in AllKnown(values)}

RECURSIVE Replayed(_, _)

\* verify_semantic_assignment: the objective values of an assignment that holds.  A
\* model with lists or intervals is decomposed again, and replayed by component.
ReplayedWhole(m, x) ==
  IF m.intervals # <<>> THEN ReplaySchedule(PhysicalSchedule(m), x.intervals)
  ELSE IF m.lists # <<>> THEN ReplayLists(PhysicalLists(m), x.lists)
  ELSE ReplayIntegers(m, x, ValuesIn(m, x))

ReplayedAs(m, x, decomposed) ==
  IF decomposed = {} THEN ReplayedWhole(m, x)
  ELSE UNION {Recombined(m, ps, [i \in DOMAIN ps |-> Replayed(ps[i].model, Projected(ps[i], x))]) : ps \in decomposed}

Replayed(m, x) == ReplayedAs(m, x, IF MainFamily(m) = "IntegerSet" THEN {} ELSE Decomposed(m))
=============================================================================
