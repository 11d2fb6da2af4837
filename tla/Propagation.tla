----------------------------- MODULE Propagation -----------------------------
(***************************************************************************)
(* Posting and running propagators (src/store.rs, src/propagator.rs): a    *)
(* network of constraints, each with its meaning, its subscriptions, its   *)
(* band and its filtering, and the guard that puts a constraint in force   *)
(* once a selector is fixed to 1.                                          *)
(***************************************************************************)
EXTENDS Primitives, Intension, Sequencing, Tables, Lists, Scheduling, Lowering

CONSTANT Networks   \* pairs <<constraints, root domains>> that may be posted

ASSUME PropagationAssumption ==
  \A n \in Networks :
    /\ n[1] \in Seq(Range(n[1]))
    /\ n[2] \in [Vars -> (SUBSET Values) \ {{}}]

VARIABLES
  posed,   \* the constraints of the network
  props,   \* the propagators, by PropId
  root     \* the domains they were posted on

setup == <<posed, props, root, subs, prio, single_band>>

-----------------------------------------------------------------------------
(* Constraints.  A guarded one (kind "selected") is in force once its      *)
(* selector is fixed to 1.                                                 *)

Inner(c) == IF c.kind = "selected" THEN c.inner ELSE c

Means(c, a) ==
  CASE c.kind \in PrimitiveKinds  -> PrimitiveMeans(c, a)
    [] c.kind \in CountingKinds   -> CountingMeans(c, a)
    [] c.kind \in RowKinds        -> RowMeans(c, a)
    [] c.kind \in LinearKinds     -> RowMeans(c.row, a)
    [] c.kind \in IntensionKinds  -> IntensionMeans(c, a)
    [] c.kind \in SequencingKinds -> SequencingMeans(c, a)
    [] c.kind \in TableKinds      -> TableMeans(c, a)
    [] c.kind \in CircuitKinds    -> CircuitMeans(c, a)
    [] c.kind \in ExclusionKinds  -> ExclusionMeans(c, a)
    [] c.kind \in ListKinds         -> ListMeans(c, a)
    [] c.kind \in SchedulingKinds   -> SchedulingMeans(c, a)
    [] c.kind \in IntervalKinds     -> IntervalMeans(c, a)

Satisfies(c, a) == (c.kind = "selected" => a[c.sel] = 1) => Means(Inner(c), a)

\* The canonical replay judges what a model holds.
Accepts(c, a) == IF c.kind \in ModelKinds THEN ConstraintHolds(c, a) ELSE Satisfies(c, a)

\* The propagators that a constraint becomes: one, but for an expression.
PostedOne(c, d) ==
  CASE c.kind \in RowKinds       -> <<PostedRow(c, d)>>
    [] c.kind \in IntensionKinds -> PostedIntension(c, d)
    [] c.kind \in CircuitKinds   -> <<[c EXCEPT !.nbr = [k \in DOMAIN c.succ |-> d[c.succ[k]]]]>>
    [] OTHER                     -> <<c>>

Posted(c, d) ==
  LET guard(q) == [c EXCEPT !.inner = q]
      inner    == PostedOne(Inner(c), d)
  IN  IF c.kind = "selected" THEN [i \in DOMAIN inner |-> guard(inner[i])] ELSE inner

InnerWakes(c) ==
  CASE c.kind \in PrimitiveKinds  -> PrimitiveWakes(c)
    [] c.kind \in CountingKinds   -> CountingWakes(c)
    [] c.kind \in LinearKinds     -> LinearWakes(c)
    [] c.kind \in IntensionKinds  -> IntensionWakes(c)
    [] c.kind \in SequencingKinds -> SequencingWakes(c)
    [] c.kind \in TableKinds      -> TableWakes(c)
    [] c.kind \in CircuitKinds    -> CircuitWakes(c)
    [] c.kind \in ExclusionKinds  -> ExclusionWakes(c)
    [] c.kind \in ListKinds         -> ListWakes(c)
    [] c.kind \in SchedulingKinds   -> SchedulingWakes(c)
    [] c.kind \in IntervalKinds     -> IntervalWakes(c)

Wakes_NoSelector(c) == InnerWakes(Inner(c))

\* register.
Wakes(c) == InnerWakes(Inner(c)) \cup IF c.kind = "selected" THEN {<<c.sel, "Fix">>} ELSE {}

Priority(c) ==
  CASE Inner(c).kind \in CountingKinds -> CountingPriority(Inner(c))
    [] Inner(c).kind \in CircuitKinds \cup SchedulingKinds -> "Expensive"
    [] Inner(c).kind \in ListKinds     -> ListPriority(Inner(c))
    [] Inner(c).kind \in IntervalKinds -> IntervalPriority(Inner(c))
    [] OTHER -> "Linear"

RECURSIVE Propagate(_, _)

\* propagate.  A guarded propagator (Selected::propagate) waits for its
\* selector, and then runs with it among its causes.
Propagate(c, s) ==
  CASE c.kind = "selected" -> (IF s.dom[c.sel] # {1} THEN s
                               ELSE Guarded(LAMBDA t : Propagate(c.inner, t), s, Equals(c.sel, 1)))
    [] c.kind \in PrimitiveKinds  -> PrimitiveFilter(c, s)
    [] c.kind \in CountingKinds   -> CountingFilter(c, s)
    [] c.kind \in LinearKinds     -> LinearFilter(c, s)
    [] c.kind \in IntensionKinds  -> IntensionFilter(c, s)
    [] c.kind \in SequencingKinds -> SequencingFilter(c, s)
    [] c.kind \in TableKinds      -> TableFilter(c, s)
    [] c.kind \in CircuitKinds    -> CircuitFilter(c, s)
    [] c.kind \in ExclusionKinds  -> ExclusionFilter(c, s)
    [] c.kind \in ListKinds       -> ListFilter(c, s)
    [] c.kind \in SchedulingKinds -> SchedulingFilter(c, s)
    [] c.kind \in IntervalKinds   -> IntervalFilter(c, s)

-----------------------------------------------------------------------------

\* compile: constraint by constraint, on the domains left by those before it.
Fixed(cs, d) == FoldLeft(LAMBDA e, c : [v \in Vars |-> IF v \in DOMAIN Fixings(c) THEN e[v] \cap {Fixings(c)[v]} ELSE e[v]], d, cs)
PostAll(ps, d) == FlattenSeq([k \in DOMAIN ps |-> Posted(ps[k], d)])
Compiled(cs, d) == FlattenSeq([i \in DOMAIN cs |-> PostAll(Lowered(cs, i), Fixed(SubSeq(cs, 1, i), d))])

\* post: every propagator waits in its band, in the order of posting.
StoreOn(n) ==
  /\ posed = n[1]
  /\ root = Fixed(n[1], n[2]) /\ dom = root
  /\ props = Compiled(n[1], n[2])
  /\ subs = [p \in DOMAIN props |-> Wakes(props[p])]
  /\ prio = [p \in DOMAIN props |-> Priority(props[p])]
  /\ single_band \in BOOLEAN
  /\ queues = [b \in Bands |-> SelectSeq([p \in PropIds |-> p], LAMBDA p : BandOf(p) = b)]
  /\ enqueued = [p \in PropIds |-> TRUE]

\* The outcome of running the next propagator.
Outcome(s) == Propagate(props[PeekProp(s)], Dequeued(s))

\* run_prop: a failure clears the queue.
Emptied(t) == IF t.ok THEN t ELSE ClearedQueue(t)
RunProp(s) == Emptied(Outcome(s))

\* Solver::propagate: run propagators until the queue is empty or one fails.
RECURSIVE Drained(_)
Drained(s) == IF s.ok /\ ~QueueIsEmpty(s) THEN Drained(RunProp(s)) ELSE s

-----------------------------------------------------------------------------
(* Properties of the store.                                                *)

\* The flag of a propagator says that it waits, once, in the queue of its band.
FlagsMatchQueues ==
  \A p \in PropIds :
    LET places == {<<b, i>> \in Bands \X (1 .. Len(props)) : i \in DOMAIN queues[b] /\ queues[b][i] = p}
    IN  IF enqueued[p] THEN Cardinality(places) = 1 /\ \A l \in places : l[1] = BandOf(p)
        ELSE places = {}

\* The reference: every propagator of ps in turn, round after round.  A round
\* that changes something removes a value, which bounds the rounds.
Round(ps, s) == FoldLeft(LAMBDA t, c : IF t.ok THEN Propagate(c, t) ELSE t, s, ps)

Exhaustive(ps, d) ==
  While(LAMBDA s : Round(ps, s), LAMBDA before, after : after.dom # before.dom, [Contents EXCEPT !.dom = d])

\* Expressions are probed once, from the first variable to the last, and the
\* cut-set check of a circuit, which only fails, is woken by fixed arcs alone: both
\* may leave something to find.
LeavesNothing(c) == c.kind \notin IntensionKinds /\ (c.kind \in CircuitKinds => ~c.cutset)

BoxOf(d) == FoldSet(LAMBDA v, box : {(v :> u) @@ a : u \in d[v], a \in box}, {<<>>}, Vars)
RootBox  == BoxOf(root)

\* build_ds: the domains, before the step, of what the propagator subscribed to.
Premises(p, cause) ==
  IF cause = Scope THEN UNION {DomainPremises(dom, v) : v \in ScopeOf(p)} ELSE UNION cause

AllHold(facts, a) == \A fact \in facts : HoldsFor(fact, a[fact[1]])

\* What the store knows when event i of t is emitted.
KnownBefore(t, i) ==
  [v \in Vars |-> {u \in dom[v] : \A j \in 1 .. i - 1 : t.events[j].fact[1] = v => HoldsFor(t.events[j].fact, u)}]

\* Every change propagator p makes in a step with outcome t follows from its
\* constraint and the premises it gives, which hold when it gives them:
\* "premises true now that entail the change" (store.rs:891).
ReasonsHold(p, t) ==
  \A i \in DOMAIN t.events :
    LET fact == t.events[i].fact
        why  == Premises(p, t.events[i].cause)
    IN  /\ \A a \in RootBox : Satisfies(props[p], a) /\ AllHold(why, a) => HoldsFor(fact, a[fact[1]])
        /\ \A w \in why : \A u \in KnownBefore(t, i)[w[1]] : HoldsFor(w, u)

\* "premises true now that are jointly infeasible" (store.rs:923), or the whole
\* scope where none are given.
ConflictHolds(p, t) == ~t.ok => \A a \in RootBox : ~(Satisfies(props[p], a) /\ AllHold(Premises(p, t.conflict), a))
=============================================================================
