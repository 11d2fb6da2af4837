------------------------------- MODULE Learning -------------------------------
(***************************************************************************)
(* The searches of src/lcg/engine.rs that learn: decide_sat,               *)
(* decide_sat_assuming, optimize, probe and resolve_assumptions, with root *)
(* probing, restarts, clause exchange, the conflict budget and the stop    *)
(* flag.  Variable and value selection is any choice of an open variable   *)
(* and one of its values; a restart is due at any time after a conflict.   *)
(***************************************************************************)
EXTENDS ConflictAnalysis

CONSTANTS
  Tasks,      \* what may be asked: network, mode, cube, objective, budget, peers' clauses
  Restarts    \* how many restarts a search may see

ASSUME LearningAssumption == Restarts \in Nat

VARIABLES
  task,        \* the task of this search
  stop,        \* the stop flag
  at,          \* where the search stands
  agenda,      \* what is to be done at the root before the search goes on
  conflicts,   \* Cdcl.conflicts
  limit_hit,   \* conflict_limit_reached
  due,         \* whether the restart policy may fire
  restarts,    \* restarts left
  pending,     \* clauses of other workers that this one has not seen yet
  best,        \* the incumbent of this search: a set of at most one assignment
  enforced,    \* the objective values that have been ruled out from
  answer       \* what the search returned

driver == <<task, stop, at, agenda, conflicts, limit_hit, due, restarts, pending, best, enforced, answer>>
vars   == <<setup, store, sparse, cdcl, sharing, driver>>

NoAnswer == [found |-> {}, core |-> {}, complete |-> FALSE]
NoBudget == 99   \* more conflicts than a search meets here

Objective(a) == a[task.objective]
Assigned     == [v \in Vars |-> TheValue(dom, v)]
AllFixed     == \A v \in Vars : IsFixed(dom, v)

Asserts(ls) == [i \in DOMAIN ls |-> <<"assert", ls[i]>>]

\* What each search does once the root has been propagated.
Preamble(t) ==
  CASE t.mode = "sat"      -> << <<"probe">>, <<"sync">> >>
    [] t.mode = "assuming" -> Asserts(t.cube) \o << <<"sync">> >>
    [] t.mode = "bounded"  -> << <<"bound">>, <<"sync">> >>
    [] t.mode = "core"     -> <<>>
    [] t.mode = "optimize" ->
         (IF t.cube = <<>> /\ t.budget = NoBudget THEN << <<"probe">> >> ELSE <<>>)
           \o Asserts(t.cube) \o << <<"sync">> >>

\* Cdcl::init: the atoms that the root decides are facts, every propagator waits.
Init ==
  \E t \in Tasks :
    /\ task = t /\ StoreOn(t.on) /\ sparse = t.sparse
    /\ trail = [i \in DOMAIN InCodeOrder(TrueIn(root)) |-> [lit |-> InCodeOrder(TrueIn(root))[i], reason |-> Fact]]
    /\ levels = <<>> /\ qhead = 0 /\ clauses = <<>> /\ free = <<>>
    /\ watches = [l \in Lits |-> <<>>] /\ implications = [l \in Lits |-> <<>>]
    /\ checker = NoChecker /\ clash = {}
    /\ cube_scope = IF t.mode \in {"assuming", "optimize"} THEN Nots(Range(t.cube)) ELSE {}
    /\ bound_scope = {} /\ exported = {}
    /\ stop = FALSE /\ at = "propagate" /\ agenda = Preamble(t)
    /\ conflicts = 0 /\ limit_hit = FALSE /\ due = FALSE /\ restarts = Restarts
    /\ pending = t.foreign /\ best = {} /\ enforced = {} /\ answer = NoAnswer

RaiseStop ==
  /\ ~stop /\ at # "done" /\ task.may_stop
  /\ stop' = TRUE
  /\ UNCHANGED <<setup, store, sparse, cdcl, sharing, task, at, agenda, conflicts, limit_hit, due,
                 restarts, pending, best, enforced, answer>>

-----------------------------------------------------------------------------
(* propagate_and_learn.                                                    *)

Quietly == UNCHANGED <<setup, sparse, task, stop, restarts, pending, best, enforced, answer>>

\* One turn of the clauses or, when they have settled, of one propagator.
PropagateTurn ==
  LET Leads(e) == EngineIs(e) /\ at' = IF e.ok THEN "propagate" ELSE "conflict"
  IN  /\ at = "propagate" /\ ~stop
      /\ qhead < Len(trail) \/ ~QueueIsEmpty(Contents)
      /\ Leads(IF qhead < Len(trail) THEN PropagateLiteral(Engine) ELSE PropagatorTurn(Engine))
      /\ Quietly /\ UNCHANGED <<sharing, agenda, conflicts, limit_hit, due>>

ReachFixpoint ==
  /\ at = "propagate" /\ ~stop
  /\ qhead = Len(trail) /\ QueueIsEmpty(Contents)
  /\ at' = "ready"
  /\ Quietly /\ UNCHANGED <<store, cdcl, sharing, agenda, conflicts, limit_hit, due>>

AbandonPropagation ==
  /\ at = "propagate" /\ stop
  /\ StoreIs(ClearedQueue(Contents))
  /\ at' = "ready"
  /\ Quietly /\ UNCHANGED <<cdcl, sharing, agenda, conflicts, limit_hit, due>>

\* A conflict after the last one that the budget allows is left unresolved.
SpendBudget ==
  /\ at = "conflict" /\ conflicts >= task.budget
  /\ limit_hit' = TRUE /\ at' = "failed"
  /\ Quietly /\ UNCHANGED <<store, cdcl, sharing, agenda, conflicts, due>>

ResolveConflict ==
  LET Leads(r) ==
        /\ EngineIs(r.engine)
        /\ exported' = exported \cup r.published
        /\ at' = CASE r.verdict = "learnt" -> "propagate" [] r.verdict = "refuted" -> "failed"
                   [] r.verdict = "panic" -> "panic"
  IN  /\ at = "conflict" /\ conflicts < task.budget
      /\ conflicts' = conflicts + 1 /\ due' = TRUE
      /\ Leads(Resolved(Engine))
      /\ Quietly /\ UNCHANGED <<cube_scope, bound_scope, agenda, limit_hit>>

\* What a search returns when a step of it has returned false.
GiveUp ==
  /\ at = "failed"
  /\ answer' = [found |-> best, core |-> {}, complete |-> ~stop /\ ~limit_hit]
  /\ at' = "done"
  /\ UNCHANGED <<setup, store, sparse, cdcl, sharing, task, stop, agenda, conflicts, limit_hit, due,
                 restarts, pending, best, enforced>>

-----------------------------------------------------------------------------
(* Root operations: the head of the agenda, run at a fixpoint.             *)

Doing(op) == at = "ready" /\ agenda # <<>> /\ Head(agenda)[1] = op
Operand   == Head(agenda)[2]

\* The operation leaves engine e, at n, with more to do first.
Leaves(e, n, more) ==
  /\ EngineIs(e) /\ at' = n /\ agenda' = more \o Tail(agenda)
  /\ Quietly /\ UNCHANGED <<cube_scope, exported, conflicts, limit_hit, due>>

\* assert_root_lit.
Asserted(l) ==
  LET t == Assign(AddClause(Engine, <<l>>, FALSE, 0), l, ByClause(NewSlot(Engine)))
  IN  Leaves(t, IF t.ok THEN "propagate" ELSE "failed", <<>>)

AssertRoot == Doing("assert") /\ Asserted(Operand) /\ UNCHANGED bound_scope

\* A literal or bound that both branches of a probe share.
AssertCommon ==
  /\ Doing("common")
  /\ IF IsTrue(Engine, Operand) THEN Leaves(Engine, "ready", <<>>)
     ELSE IF IsFalse(Engine, Operand) THEN Leaves(Engine, "failed", <<>>)
     ELSE Asserted(Operand)
  /\ UNCHANGED bound_scope

\* [objective <= target] or [objective >= target].
BoundLits == IF task.minimizing THEN Nots(GeLits(task.objective, task.target + 1))
             ELSE GeLits(task.objective, task.target)

\* assume_objective_bound: a constant bound needs no literal, or fails.
AssumeBound ==
  /\ Doing("bound")
  /\ IF BoundLits # {}
     THEN \E l \in BoundLits : bound_scope' = {Not(l)} /\ Asserted(l)
     ELSE /\ Leaves(Engine, IF \E u \in Support(task.objective) :
                                  IF task.minimizing THEN u <= task.target ELSE u >= task.target
                            THEN "ready" ELSE "failed", <<>>)
          /\ UNCHANGED bound_scope

-----------------------------------------------------------------------------
(* root_probe.                                                             *)

ProbeMaxSize == 16

Candidates ==
  LET Size(l) == Cardinality(dom[VarOf(l)])
      first   == UNION {EqLits(v, Min(dom[v])) : v \in {u \in Vars : Cardinality(dom[u]) \in 2 .. ProbeMaxSize}}
  IN  SortSeq(InCodeOrder({l \in first : IsOpen(Engine, l)}), LAMBDA k, l : Size(k) < Size(l))

BeginProbing ==
  /\ Doing("probe")
  /\ Leaves(Engine, "ready", IF stop THEN <<>> ELSE [i \in DOMAIN Candidates |-> <<"left", Candidates[i]>>])
  /\ UNCHANGED bound_scope

NothingLearnt == [lits |-> {}, dom |-> root]

\* What a branch implies: the rest of its level.
Branch == [lits |-> {trail[i].lit : i \in levels[1].start + 2 .. Len(trail)}, dom |-> dom]

\* probe_branch: decide, then propagate.
ProbeLeft ==
  /\ Doing("left")
  /\ IF stop \/ ~IsOpen(Engine, Operand) THEN Leaves(Engine, "ready", <<>>)
     ELSE Leaves(Decide(Engine, Operand), "propagate", << <<"leave left", Operand>> >>)
  /\ UNCHANGED bound_scope

ProbeRight ==
  /\ Doing("right")
  /\ IF ~IsOpen(Engine, Operand) THEN Leaves(Engine, "ready", <<>>)
     ELSE Leaves(Decide(Engine, Not(Operand)), "propagate", << <<"leave right", Operand, Head(agenda)[3]>> >>)
  /\ UNCHANGED bound_scope

Implications(decision, L) ==
  LET ls == InCodeOrder(L) IN [i \in DOMAIN ls |-> <<"imply", Not(decision), ls[i]>>]

LeaveLeft ==
  /\ Doing("leave left")
  /\ IF levels # <<>>
     THEN Leaves(BackjumpTo(Engine, 0), "ready",
                 Implications(Operand, Branch.lits) \o << <<"right", Operand, Branch>> >>)
     ELSE IF IsFalse(Engine, Operand) THEN Leaves(Engine, "ready", << <<"assert", Not(Operand)>> >>)
     ELSE Leaves(Engine, "ready", << <<"right", Operand, NothingLearnt>> >>)
  /\ UNCHANGED bound_scope

\* assert_common_probe_bounds over the variables that both branches touch, then
\* assert_common_probe_lits.
Common(l, r) ==
  LET both  == {VarOf(k) : k \in l.lits} \cap {VarOf(k) : k \in r.lits}
      hull(v) == l.dom[v] \cup r.dom[v]
      bounds == UNION {GeLits(v, Min(hull(v))) \cup Nots(GeLits(v, Max(hull(v)) + 1)) : v \in both}
      each(ls) == [i \in DOMAIN ls |-> <<"common", ls[i]>>]
  IN  each(InCodeOrder(bounds)) \o each(InCodeOrder(l.lits \cap r.lits))

LeaveRight ==
  /\ Doing("leave right")
  /\ IF levels # <<>>
     THEN Leaves(BackjumpTo(Engine, 0), "ready",
                 Implications(Not(Operand), Branch.lits) \o Common(Head(agenda)[3], Branch))
     ELSE Leaves(Engine, "ready", IF IsTrue(Engine, Operand) THEN << <<"assert", Operand>> >> ELSE <<>>)
  /\ UNCHANGED bound_scope

\* add_probe_clause: the clause of a probed implication, asserted if it is unit.
AddImplication ==
  LET g == Head(agenda)[2]
      l == Head(agenda)[3]
      e == AddClause(Engine, <<g, l>>, TRUE, 2)
      Unit(k) == LET t == Assign(e, k, ByClause(NewSlot(Engine))) IN Leaves(t, IF t.ok THEN "propagate" ELSE "failed", <<>>)
  IN  /\ Doing("imply")
      /\ IF IsTrue(Engine, g) \/ IsTrue(Engine, l) THEN Leaves(Engine, "ready", <<>>)
         ELSE IF IsFalse(Engine, g) /\ IsFalse(Engine, l) THEN Leaves(Engine, "failed", <<>>)
         ELSE IF IsFalse(Engine, g) THEN Unit(l)
         ELSE IF IsFalse(Engine, l) THEN Unit(g)
         ELSE Leaves(e, "ready", <<>>)
      /\ UNCHANGED bound_scope

-----------------------------------------------------------------------------
(* Clauses of other workers.                                               *)

Solutions == {a \in RootBox : \A i \in DOMAIN posed : Satisfies(posed[i], a)}

\* What this worker guarantees of the clauses it publishes (ClausesAreConsequences)
\* it may expect of the clauses that it imports.
Trusted == {c \in pending : \A a \in Solutions : \E l \in Range(c.lits) : Satisfied(l, a)}

\* import_shared_clause: a clause with one open literal is assigned, a false one is
\* a conflict of the root.
Import(e, c) ==
  LET open == SelectSeq(c.lits, LAMBDA l : IsOpen(e, l))
      t    == AddClause(e, c.lits, TRUE, c.lbd)
  IN  IF ~e.ok \/ Len(open) >= 2 \/ \E l \in Range(c.lits) : IsTrue(e, l) THEN t
      ELSE IF open = <<>> THEN Failed(t) ELSE Assign(t, open[1], ByClause(NewSlot(e)))

\* sync_shared_clauses: whatever the ring holds by now.
SyncShared ==
  /\ Doing("sync")
  /\ \E batch \in SUBSET Trusted :
       LET Leads(e) == EngineIs(e) /\ at' = IF ~e.ok THEN "failed" ELSE IF batch = {} THEN "ready" ELSE "propagate"
       IN  Leads(FoldLeft(Import, Engine, SetToSeq(batch))) /\ pending' = pending \ batch
  /\ agenda' = Tail(agenda)
  /\ UNCHANGED <<setup, sparse, sharing, task, stop, conflicts, limit_hit, due, restarts, best, enforced, answer>>

-----------------------------------------------------------------------------
(* The search loops.                                                       *)

Looping == at = "ready" /\ agenda = <<>>

Returns(found, core, complete) ==
  /\ at' = "done" /\ answer' = [found |-> found, core |-> core, complete |-> complete]
  /\ UNCHANGED <<setup, store, sparse, cdcl, sharing, task, stop, agenda, conflicts, limit_hit, due,
                 restarts, pending, best, enforced>>

Halt == Looping /\ (stop \/ conflicts >= task.budget) /\ Returns(best, {}, FALSE)

Restart_StaysDue ==
  /\ Looping /\ due
  /\ EngineIs([BackjumpTo(Engine, 0) EXCEPT !.checker = NoChecker])
  /\ agenda' = << <<"sync">> >>
  /\ UNCHANGED <<setup, sparse, sharing, task, stop, at, conflicts, limit_hit, due, restarts, pending, best, enforced, answer>>

\* maybe_restart: back to the root, perhaps with fewer clauses, then import.
Restart ==
  /\ Looping /\ due /\ restarts > 0
  /\ \E reduce \in BOOLEAN :
       LET e == [BackjumpTo(Engine, 0) EXCEPT !.checker = NoChecker]
       IN  EngineIs(IF reduce THEN ReduceDb(e) ELSE e)
  /\ restarts' = restarts - 1 /\ due' = FALSE
  /\ agenda' = << <<"sync">> >>
  /\ UNCHANGED <<setup, sparse, sharing, task, stop, at, conflicts, limit_hit, pending, best, enforced, answer>>

Continues(e) ==
  /\ EngineIs(e) /\ at' = "propagate"
  /\ Quietly /\ UNCHANGED <<sharing, agenda, conflicts, limit_hit, due>>

\* resolve_assumptions: the assumptions are the first decisions, level by level.
Assuming == task.mode = "core" /\ Len(levels) < Len(task.cube)
NextAssumption    == task.cube[Len(levels) + 1]

PlaceAssumption ==
  /\ Looping /\ ~stop /\ Assuming /\ ~LitFalse(dom, NextAssumption)
  /\ IF LitTrue(dom, NextAssumption)
     THEN /\ EngineIs(OpenLevel(Engine))
          /\ Quietly /\ UNCHANGED <<sharing, agenda, conflicts, limit_hit, due, at>>
     ELSE Continues(Decide(Engine, NextAssumption))

Core_OneStep(e, p) ==
  {p} \cup {t.lit : t \in {u \in Range(e.trail) : u.reason = Decision /\ Not(u.lit) \in Antecedents(e, Not(p))}}

\* analyze_final: the assumptions among the causes of a false one.
Core(e, p) ==
  LET above == SubSeq(e.trail, e.levels[1].start + 1, Len(e.trail))
      Back(w, t) ==
        IF t.lit[1] \notin w.seen THEN w
        ELSE IF t.reason = Decision THEN [w EXCEPT !.core = @ \cup {t.lit}]
        ELSE [w EXCEPT !.seen = @ \cup {l[1] : l \in {m \in Antecedents(e, t.lit) : LevelOf(e, m) > 0}}]
  IN  IF e.levels = <<>> THEN {p}
      ELSE FoldLeft(Back, [seen |-> {p[1]}, core |-> {p}], Reverse(above)).core

AssumptionRefuted ==
  /\ Looping /\ ~stop /\ Assuming /\ LitFalse(dom, NextAssumption)
  /\ Returns({}, Core(Engine, NextAssumption), TRUE)

Branching == Looping /\ ~stop /\ conflicts < task.budget /\ ~Assuming

\* decision_lit: [v = u] for a value of an open variable.
BranchOn ==
  /\ Branching
  /\ \E v \in {w \in Vars : ~IsFixed(dom, w)} : \E u \in dom[v] : \E l \in EqLits(v, u) :
       Continues(Decide(Engine, l))

AcceptSolution ==
  /\ Branching /\ AllFixed /\ task.mode # "optimize"
  /\ Returns({Assigned}, {}, TRUE)

\* improvement_lit: none means that no value is better.
Improvement(value) == IF task.minimizing THEN Nots(GeLits(task.objective, value)) ELSE GeLits(task.objective, value + 1)

\* tighten_bound: back to the root, under a bound that scopes what is exported.
Tightened(value) ==
  /\ enforced' = {value}
  /\ IF Improvement(value) = {}
     THEN at' = "failed" /\ UNCHANGED <<store, cdcl, bound_scope>>
     ELSE \E l \in Improvement(value) :
            LET e == [BackjumpTo(Engine, 0) EXCEPT !.checker = NoChecker]
                t == Assign(AddClause(e, <<l>>, FALSE, 0), l, ByClause(NewSlot(e)))
            IN  /\ EngineIs(t) /\ bound_scope' = {Not(l)}
                /\ at' = IF t.ok THEN "propagate" ELSE "failed"
  /\ UNCHANGED <<setup, sparse, cube_scope, exported, task, stop, agenda, conflicts, limit_hit, due,
                 restarts, pending, answer>>

\* accept_solution.
ImproveIncumbent ==
  /\ Branching /\ AllFixed /\ task.mode = "optimize"
  /\ best' = {Assigned} /\ Tightened(Objective(Assigned))

Stronger(value) == \A old \in enforced : IF task.minimizing THEN value < old ELSE value > old

\* The shared bound: another worker has found a solution of this value.
ImportBound ==
  /\ Branching /\ task.mode = "optimize" /\ task.peers
  /\ \E value \in {Objective(a) : a \in Solutions} : Stronger(value) /\ Tightened(value)
  /\ UNCHANGED best

RootStep == AssertRoot \/ AssertCommon \/ AssumeBound \/ BeginProbing \/ ProbeLeft \/ ProbeRight
              \/ LeaveLeft \/ LeaveRight \/ AddImplication \/ SyncShared

Step ==
  \/ PropagateTurn \/ ReachFixpoint \/ AbandonPropagation \/ SpendBudget \/ ResolveConflict \/ GiveUp
  \/ RootStep \/ Halt \/ Restart \/ PlaceAssumption \/ AssumptionRefuted
  \/ BranchOn \/ AcceptSolution \/ ImproveIncumbent \/ ImportBound

Ended == at \in {"done", "panic"}

Next == RaiseStop \/ Step \/ (Ended /\ UNCHANGED vars)

\* The search thread runs until it returns: WF_vars(Step) with its ENABLED
\* written out.
Spec == Init /\ [][Next]_vars /\ ([]<>Ended \/ []<><<Step>>_vars)

-----------------------------------------------------------------------------
(* Properties.                                                             *)

Propagating == at \in {"propagate", "ready"}

\* Invariant T2 (trail.rs:905): the trail holds the atoms that the domains decide,
\* each at the level that decided it.  "Recording later, at a deeper level, would
\* let 1-UIP backjump too far and prune feasible solutions."
TrailMirrorsDomains ==
  Propagating =>
    /\ {t.lit : t \in Range(trail)} = TrueIn(dom)
    /\ \A i \in DOMAIN levels : {trail[j].lit : j \in 1 .. levels[i].start} = TrueIn(levels[i].dom)

\* The assignments that a clause of this search may be limited to: within the cube
\* it explores and better than the bound it is under.
Better(a) ==
  CASE task.mode = "optimize" ->
         \A value \in enforced : IF task.minimizing THEN Objective(a) < value ELSE Objective(a) > value
    [] task.mode = "bounded" -> IF task.minimizing THEN Objective(a) <= task.target ELSE Objective(a) >= task.target
    [] OTHER -> TRUE

InCube(a)    == task.mode = "core" \/ \A l \in Range(task.cube) : Satisfied(l, a)
Wanted       == {a \in Solutions : InCube(a) /\ Better(a)}
Live == {c \in DOMAIN clauses : clauses[c].lits # <<>>}

\* Above the root, where analysis reads them: a reason is made of literals recorded
\* before, a clause reason is a clause that still holds the literal it forced (a
\* slot is reused after deletion, clause.rs:105), and what it says follows from the
\* constraints.
ReasonsAreJustified ==
  LET RootEnd == IF levels = <<>> THEN Len(trail) ELSE levels[1].start
      Explained == {i \in RootEnd + 1 .. Len(trail) : trail[i].reason \notin {Fact, Decision}}
      Ante(i)   == Antecedents(Engine, trail[i].lit)
  IN  /\ \A i \in Explained :
           /\ Nots(Ante(i)) \subseteq {trail[j].lit : j \in 1 .. i - 1}
           /\ trail[i].reason[1] = "clause" => trail[i].lit \in Range(clauses[trail[i].reason[2]].lits)
      /\ \A a \in Wanted : \A i \in Explained :
           Satisfied(trail[i].lit, a) \/ \E l \in Ante(i) : Satisfied(l, a)

\* What is learnt, added by probing or imported follows from the constraints in the
\* cube and under the bound; what other workers are given follows from the
\* constraints alone, whatever cube or bound it was learnt under (resolve_conflict,
\* set_cube_scope).
ClausesAreConsequences ==
  /\ \A a \in Wanted : \A c \in Live : \E l \in Range(clauses[c].lits) : Satisfied(l, a)
  /\ \A a \in Solutions : \A L \in exported : \E l \in L : Satisfied(l, a)

\* Propagation ends when there is nothing left to infer: every clause is satisfied
\* or has two open literals, although only two of its literals are watched, and no
\* propagator can remove a value, although conflicts clear the queue.
NothingIsMissed ==
  at = "ready" /\ ~stop =>
    /\ \A c \in Live : \/ \E l \in Range(clauses[c].lits) : LitTrue(dom, l)
                      \/ Cardinality({l \in Range(clauses[c].lits) : ~LitFalse(dom, l)}) >= 2
    /\ LET Is(e) == e.ok /\ e.dom = dom IN Is(Exhaustive(props, dom))

\* A learned clause asserts: "the asserting literal is the only open one; it cannot
\* wipe a domain" (trail.rs:1617).
LearnedClausesAssert == at # "panic"

\* The answers are right: a solution is one, in the cube and under the bound; a
\* complete search without one (or with an incumbent) leaves none (or no better
\* one); a core is a part of the cube that no solution satisfies.
AnswersAreRight ==
  at = "done" =>
    /\ answer.found \subseteq Solutions
    /\ \A a \in answer.found : InCube(a) /\ (task.mode # "optimize" => Better(a))
    /\ task.mode = "core" /\ answer.found # {} => \A a \in answer.found : \A l \in Range(task.cube) : Satisfied(l, a)
    /\ answer.complete /\ (task.mode = "optimize" \/ answer.found = {}) =>
         IF task.mode = "core"
         THEN /\ answer.core \subseteq Range(task.cube)
              /\ \A a \in Solutions : \E l \in answer.core : ~Satisfied(l, a)
         ELSE Wanted = {}

\* Every search returns.
SearchEnds == <>(at = "done")
=============================================================================
