----------------------------- MODULE ClauseTrail -----------------------------
(***************************************************************************)
(* The engine of src/lcg/trail.rs between conflicts: the trail of assigned *)
(* literals with their reasons, the clauses of src/lcg/clause.rs with      *)
(* their watches, unit propagation, and the turn of Cdcl::propagate that   *)
(* runs one propagator and records what it did.  The literals inside one   *)
(* explanation are taken in the order of their codes.                      *)
(***************************************************************************)
EXTENDS Propagation

(* Literals over the integer domains (src/lcg/lit.rs) and their truth in a *)
(* domain (src/lcg/view.rs).  An atom is a fact [v >= k] or [v = u], a     *)
(* literal is an atom with a sign.  Wide domains, whose atoms are numbered *)
(* on demand, are left out.                                                *)

VARIABLE sparse   \* the variables whose atoms are allocated for the root values alone

VarOf(l) == l[1][1]
Not(l)   == <<l[1], ~l[2]>>
Nots(L)  == {Not(l) : l \in L}

\* A {-1, 1} variable has one atom, read through its two values.
IsSign(v) == root[v] = {-1, 1}

\* The values that have atoms: the root values, or their whole span.
Support(v) == IF v \in sparse \/ IsSign(v) THEN root[v] ELSE Min(root[v]) .. Max(root[v])

AtomsOf(v) ==
  IF IsSign(v) THEN {Ge(v, 1)}
  ELSE {Ge(v, k) : k \in Support(v) \ {Min(Support(v))}} \cup {Equals(v, u) : u \in Support(v)}

\* Every literal that any root could need, in the order of the codes.
CodeOrder ==
  LET VarSeq == SetToSeq(Vars)
      Signed(a) == << <<a, TRUE>>, <<a, FALSE>> >>
      Each(v) == [i \in DOMAIN Ascending |-> Signed(Ge(v, Ascending[i]))]
                   \o [i \in DOMAIN Ascending |-> Signed(Equals(v, Ascending[i]))]
  IN  FlattenSeq(FlattenSeq([i \in DOMAIN VarSeq |-> Each(VarSeq[i])]))

InCodeOrder(L) == SelectSeq(CodeOrder, LAMBDA l : l \in L)

-----------------------------------------------------------------------------
(* Facts as literals: a constant one folds away, which leaves no literal.  *)

\* [v >= k], at the next value that has an atom.
GeLits(v, k) ==
  LET up == {u \in Support(v) : u >= k}
  IN  IF up = {} \/ up = Support(v) THEN {} ELSE {<<Ge(v, Min(up)), TRUE>>}

EqLits(v, u) ==
  IF u \notin Support(v) THEN {} ELSE IF IsSign(v) THEN {<<Ge(v, 1), u = 1>>} ELSE {<<Equals(v, u), TRUE>>}

\* translate_premises: an equality is two bounds, "never the positive equality
\* atom" (trail.rs:224).
PremiseLits(f) ==
  CASE f[2] = "ge" -> GeLits(f[1], f[3])
    [] f[2] = "le" -> Nots(GeLits(f[1], f[3] + 1))
    [] f[2] = "eq" -> GeLits(f[1], f[3]) \cup Nots(GeLits(f[1], f[3] + 1))
    [] f[2] = "ne" -> Nots(EqLits(f[1], f[3]))

\* translate: what an event asserts.
EventLits(f) == IF f[2] = "eq" THEN EqLits(f[1], f[3]) ELSE PremiseLits(f)

-----------------------------------------------------------------------------
(* The view: the domain decides whether a literal is true.                 *)

AtomTrue(d, a)  == IF a[2] = "ge" THEN Min(d[a[1]]) >= a[3] ELSE d[a[1]] = {a[3]}
AtomFalse(d, a) == IF a[2] = "ge" THEN Max(d[a[1]]) < a[3] ELSE a[3] \notin d[a[1]]

LitTrue(d, l)  == IF l[2] THEN AtomTrue(d, l[1]) ELSE AtomFalse(d, l[1])
LitFalse(d, l) == LitTrue(d, Not(l))

\* apply: enforce a literal on the domain.
Enforce(s, l) ==
  LET v == VarOf(l)
      k == l[1][3]
  IN  CASE l[1][2] = "ge" /\ l[2]  -> RemoveBelow(s, v, k, Scope)
        [] l[1][2] = "ge" /\ ~l[2] -> RemoveAbove(s, v, k - 1, Scope)
        [] l[1][2] = "eq" /\ l[2]  -> Fix(s, v, k, Scope)
        [] l[1][2] = "eq" /\ ~l[2] -> RemoveVal(s, v, k, Scope)

\* Literals that a domain makes true, and literals that an assignment satisfies.
TrueIn(d) == {l \in (UNION {AtomsOf(v) : v \in Vars}) \X BOOLEAN : LitTrue(d, l)}
Satisfied(l, a) == HoldsFor(l[1], a[VarOf(l)]) = l[2]

-----------------------------------------------------------------------------

VARIABLES
  trail,         \* Cdcl.trail: the assigned literals, each with its reason
  levels,        \* the open levels: where each starts, and the domains it saved
  qhead,         \* how many literals have been propagated through the clauses
  clauses,       \* ClauseDb.clauses by slot; a deleted one has no literals
  free,          \* ClauseDb.free: the deleted slots, reused last in first out
  watches,       \* the slots that watch a literal
  implications,  \* what a true literal implies through a clause of two
  checker,       \* vivify_checker: root domains cached for vivification, or none
  clash          \* the false literals of the conflict that propagation has met

cdcl == <<trail, levels, qhead, clauses, free, watches, implications, checker, clash>>

Lits == (UNION {AtomsOf(v) : v \in Vars}) \X BOOLEAN
NoChecker == <<>>

\* Reasons.
Fact           == <<"fact">>
Decision       == <<"decision">>
ByClause(c)    == <<"clause", c>>
ByPremises(ds) == <<"generic", ds>>

-----------------------------------------------------------------------------
(* The engine as a value: the store with the trail and the clauses.        *)

Engine ==
  Contents @@
  [trail |-> trail, tval |-> {t.lit : t \in Range(trail)}, levels |-> levels, qhead |-> qhead,
   clauses |-> clauses, free |-> free, watches |-> watches, implications |-> implications,
   checker |-> checker, falsified |-> 0, clash |-> clash]

EngineIs(e) ==
  /\ StoreIs(e)
  /\ trail' = e.trail /\ levels' = e.levels /\ qhead' = e.qhead
  /\ clauses' = e.clauses /\ free' = e.free
  /\ watches' = e.watches /\ implications' = e.implications
  /\ checker' = e.checker /\ clash' = e.clash

IsTrue(e, l)  == l \in e.tval
IsFalse(e, l) == Not(l) \in e.tval
IsOpen(e, l)  == ~IsTrue(e, l) /\ ~IsFalse(e, l)

Unset == -1
Position(e, l) == SelectInSeq(e.trail, LAMBDA t : t.lit[1] = l[1])
LevelOf(e, l)  ==
  LET at == Position(e, l)
  IN  IF at = 0 THEN Unset ELSE Cardinality({i \in DOMAIN e.levels : e.levels[i].start < at})

\* reason_lits: the false literals that a true one follows from.
Antecedents(e, l) ==
  LET why == e.trail[Position(e, l)].reason
  IN  CASE why[1] = "clause"  -> Range(e.clauses[why[2]].lits) \ {l}
        [] why[1] = "generic" -> Nots(why[2])
        [] OTHER -> {}

-----------------------------------------------------------------------------
(* Assignment.                                                             *)

Record(e, l, why) ==
  IF ~IsOpen(e, l) THEN e
  ELSE [e EXCEPT !.trail = Append(@, [lit |-> l, reason |-> why]), !.tval = @ \cup {l}]

DsRecorded(e, v) == {l \in e.tval : VarOf(l) = v}

SyncVar_Skipped(e, v) == e

\* sync_var: every atom that the domain of v decides and the trail lacks.
SyncVar(e, v) ==
  LET todo == {l \in AtomsOf(v) \X BOOLEAN : IsOpen(e, l) /\ LitTrue(e.dom, l)}
  IN  IF IsSign(v) THEN e
      ELSE FoldLeft(LAMBDA t, l : Record(t, l, ByPremises(DsRecorded(e, v))), e, InCodeOrder(todo))

Quiet(e) == [e EXCEPT !.events = <<>>]

\* assign, and apply_lit of a decision.
Assign(e, l, why) ==
  IF IsTrue(e, l) THEN e
  ELSE Then(Enforce(e, l), LAMBDA t : SyncVar(Record(Quiet(t), l, why), VarOf(l)))

OpenLevel(e) == [e EXCEPT !.levels = Append(@, [start |-> Len(e.trail), dom |-> e.dom])]

Decide(e, l) == Assign(OpenLevel(e), l, Decision)

BackjumpTo_KeepsOneMore(e, d) ==
  IF d + 1 >= Len(e.levels) THEN e
  ELSE LET kept == SubSeq(e.trail, 1, e.levels[d + 2].start)
       IN  [e EXCEPT !.trail = kept, !.tval = {t.lit : t \in Range(kept)}, !.qhead = Len(kept),
                     !.dom = e.levels[d + 2].dom, !.levels = SubSeq(@, 1, d + 1), !.ok = TRUE]

BackjumpTo(e, d) ==
  IF d >= Len(e.levels) THEN e
  ELSE LET kept == SubSeq(e.trail, 1, e.levels[d + 1].start)
       IN  [e EXCEPT !.trail = kept, !.tval = {t.lit : t \in Range(kept)}, !.qhead = Len(kept),
                     !.dom = e.levels[d + 1].dom, !.levels = SubSeq(@, 1, d), !.ok = TRUE]

-----------------------------------------------------------------------------
(* Clauses.                                                                *)

\* initial_watches: two literals that are not false, as far as there are any.
InitialWatches_FirstTwo(e, lits) == IF Len(lits) < 2 THEN <<1, 1>> ELSE <<1, 2>>

InitialWatches(e, lits) ==
  LET At(Test(_)) == SelectSeq(Indices(lits), LAMBDA i : Test(lits[i]))
      best == At(LAMBDA l : ~IsFalse(e, l)) \o At(LAMBDA l : IsFalse(e, l))
  IN  IF Len(lits) < 2 THEN <<1, 1>> ELSE <<best[1], best[2]>>

NewSlot(e) == IF e.free = <<>> THEN Len(e.clauses) + 1 ELSE Last(e.free)

\* add_shared_clause, ClauseDb::add.
AddClause(e, lits, deletable, lbd) ==
  LET slot == NewSlot(e)
      watch == InitialWatches(e, lits)
      new  == [lits |-> lits, watch |-> watch, deletable |-> deletable, lbd |-> lbd]
      kept == [e EXCEPT !.clauses = IF e.free = <<>> THEN Append(@, new) ELSE [@ EXCEPT ![slot] = new],
                        !.free = IF @ = <<>> THEN @ ELSE Front(@)]
  IN  CASE Len(lits) = 1 -> kept
        [] Len(lits) = 2 ->
             [kept EXCEPT !.implications = [@ EXCEPT ![Not(lits[1])] = Append(@, <<lits[2], slot>>),
                                                     ![Not(lits[2])] = Append(@, <<lits[1], slot>>)]]
        [] Len(lits) > 2 ->
             [kept EXCEPT !.watches = [@ EXCEPT ![lits[watch[1]]] = Append(@, slot),
                                                ![lits[watch[2]]] = Append(@, slot)]]

\* delete_clause: unwatch it and free its slot.
DeleteClause(e, c) ==
  [e EXCEPT !.clauses[c].lits = <<>>, !.free = Append(@, c),
            !.watches = [q \in DOMAIN @ |-> SelectSeq(@[q], LAMBDA w : w # c)],
            !.implications = [q \in DOMAIN @ |-> SelectSeq(@[q], LAMBDA i : i[2] # c)]]

\* maybe_reduce_db, when it does: the worst half goes, but for glue and pairs.
ReduceDb(e) ==
  LET learned == SelectSeq(Indices(e.clauses), LAMBDA c : e.clauses[c].deletable /\ Len(e.clauses[c].lits) >= 2)
      Worse(b, c) == LET k == e.clauses[b] m == e.clauses[c]
                     IN  k.lbd > m.lbd \/ (k.lbd = m.lbd /\ Len(k.lits) > Len(m.lits))
      worst   == SortSeq(learned, Worse)
      doomed  == SelectSeq(worst, LAMBDA c : e.clauses[c].lbd > 2 /\ Len(e.clauses[c].lits) # 2)
      target  == Len(learned) \div 2
  IN  FoldLeft(DeleteClause, e, SubSeq(doomed, 1, IF Len(doomed) < target THEN Len(doomed) ELSE target))

-----------------------------------------------------------------------------
(* Unit propagation of one trail literal.                                  *)

\* Assign what clause c implies; it is the conflict where that fails.
Entail(e, l, c) ==
  LET Blame(t) == IF t.ok THEN t ELSE [t EXCEPT !.falsified = c]
  IN  IF IsFalse(e, l) THEN [e EXCEPT !.falsified = c] ELSE Blame(Assign(e, l, ByClause(c)))

\* propagate_binary_implications.
Imply(e, implication) ==
  IF e.falsified # 0 \/ IsTrue(e, implication[1]) THEN e ELSE Entail(e, implication[1], implication[2])

\* Clause c watches q, which has become false.
Visit(e, c, q) ==
  LET clause == e.clauses[c]
      slot   == IF clause.lits[clause.watch[1]] = q THEN 1 ELSE 2
      other  == clause.lits[clause.watch[3 - slot]]
      fresh  == SelectInSeq(Indices(clause.lits), LAMBDA k : k \notin Range(clause.watch) /\ ~IsFalse(e, clause.lits[k]))
      kept   == [e EXCEPT !.watches[q] = Append(@, c)]
  IN  IF e.falsified # 0 \/ IsTrue(e, other) THEN kept
      ELSE IF fresh # 0
           THEN [e EXCEPT !.clauses[c].watch[slot] = fresh, !.watches[clause.lits[fresh]] = Append(@, c)]
      ELSE Entail(kept, other, c)

\* One turn of propagate_clauses; a conflict is the falsified clause.
PropagateLiteral(e) ==
  LET q == e.trail[e.qhead + 1].lit
      visited(t) == IF t.falsified # 0 THEN t
                    ELSE FoldLeft(LAMBDA s, c : Visit(s, c, Not(q)), [t EXCEPT !.watches[Not(q)] = <<>>], t.watches[Not(q)])
      verdict(t) == IF t.falsified = 0 THEN t
                    ELSE [t EXCEPT !.ok = FALSE, !.clash = Range(t.clauses[t.falsified].lits)]
  IN  verdict(visited(FoldLeft(Imply, [e EXCEPT !.qhead = @ + 1], e.implications[q])))

-----------------------------------------------------------------------------
(* One propagator, and what the trail makes of it.                         *)

\* build_ds of the scope before the step.
ScopeLits(e, p) == UNION {PremiseLits(f) : f \in UNION {DomainPremises(e.dom, v) : v \in ScopeOf(p)}}

ReasonBeforeStep_Preferred(e, p, cause) ==
  IF cause = Scope THEN ScopeLits(e, p) ELSE UNION {PremiseLits(f) : f \in UNION cause}

\* cause_lits, then reason_before_step: premises that were all on the trail when
\* the propagator started, or else its whole scope as it was then.
ReasonBeforeStep(e, p, cause) ==
  LET preferred == IF cause = Scope THEN ScopeLits(e, p) ELSE UNION {PremiseLits(f) : f \in UNION cause}
  IN  IF preferred \subseteq e.tval THEN preferred ELSE ScopeLits(e, p)

\* record_prop_events: every event first, then the rest of the variables.
RecordEvents(e, t, p) ==
  LET Primary(s, event) ==
        FoldLeft(LAMBDA r, l : Record(r, l, ByPremises(ReasonBeforeStep(e, p, event.cause))),
                 s, InCodeOrder(EventLits(event.fact)))
      Rest(s, event) == SyncVar(s, event.fact[1])
  IN  FoldLeft(Rest, FoldLeft(Primary, t, t.events), t.events)

\* The second half of a turn of propagate.
PropagatorTurn(e) ==
  LET p == PeekProp(e)
      Settled(t) == [t EXCEPT !.events = <<>>, !.current = NoProp]
      Recorded(t) ==
        IF t.ok THEN Settled(RecordEvents(e, t, p))
        ELSE [Settled(t) EXCEPT !.clash = Nots(ReasonBeforeStep(e, p, t.conflict)), !.conflict = Scope]
  IN  Recorded(RunProp(e))
=============================================================================
