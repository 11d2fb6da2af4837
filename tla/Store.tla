-------------------------------- MODULE Store --------------------------------
(***************************************************************************)
(* The constraint store of src/store.rs as the propagators see it: domains *)
(* with their mutators, the wakes, the banded queue and the buffer of      *)
(* explained events.  A domain is the set of its values (IntDomain models  *)
(* its storage); a propagator walks the values of a domain in ascending    *)
(* order.                                                                  *)
(***************************************************************************)
EXTENDS Integers, Sequences, FiniteSets, SequencesExt, FiniteSetsExt

CONSTANTS
  Vars,      \* the integer variables
  Values     \* the values their root domains are drawn from

ASSUME StoreAssumption == IsFiniteSet(Vars) /\ IsFiniteSet(Values) /\ Values \subseteq Int

VARIABLES
  subs,         \* Store.subs by PropId: the pairs <<variable, event>> that wake it
  prio,         \* Store.prio: the band of each propagator
  single_band,  \* set_single_band: one FIFO instead of three
  dom,          \* the current domains
  queues,       \* Store.queues, one for each band
  enqueued      \* Store.enqueued

store == <<dom, queues, enqueued>>

Bands   == {"Cheap", "Linear", "Expensive"}
PropIds == DOMAIN subs
NoProp  == 0   \* Store.current is None: a decision or an assertion of the search

BandOf(p) == IF single_band THEN "Cheap" ELSE prio[p]

\* Store.scope: the variables a propagator has subscribed to, in any way.
ScopeOf(p) == {w[1] : w \in subs[p]}

Ascending == SetToSortSeq(Values, LAMBDA u, w : u < w)
InOrder(S) == SelectSeq(Ascending, LAMBDA u : u \in S)

IsFixed(d, v)  == Cardinality(d[v]) = 1
TheValue(d, v) == Min(d[v])

-----------------------------------------------------------------------------
(* Facts about one variable (Premise, DomEvent) and reasons (Cause).       *)

Ge(v, k)    == <<v, "ge", k>>
Le(v, k)    == <<v, "le", k>>
Equals(v, k) == <<v, "eq", k>>
Differs(v, k) == <<v, "ne", k>>

HoldsFor(fact, u) ==
  CASE fact[2] = "ge" -> u >= fact[3]
    [] fact[2] = "le" -> u <= fact[3]
    [] fact[2] = "eq" -> u = fact[3]
    [] fact[2] = "ne" -> u # fact[3]

\* A cause is a set of at most one set of premises: none is Cause::Scope.
Scope        == {}
Because(why) == {why}

\* domain_premises: the bounds and the holes between them.
DomainPremises_NoHoles(d, v) == {Ge(v, Min(d[v])), Le(v, Max(d[v]))}

DomainPremises(d, v) ==
  {Ge(v, Min(d[v])), Le(v, Max(d[v]))}
    \cup {Differs(v, h) : h \in {u \in Values \ d[v] : Min(d[v]) < u /\ u < Max(d[v])}}

-----------------------------------------------------------------------------
(* The store as a value: a propagator makes its changes one after another, *)
(* and leaves at the first one that fails; then nothing changes any more.  *)

Contents ==
  [dom |-> dom, queues |-> queues, enqueued |-> enqueued, current |-> NoProp,
   injected |-> {}, events |-> <<>>, conflict |-> Scope, ok |-> TRUE]

Failed(s) == [s EXCEPT !.ok = FALSE]

\* fail_because.
FailBecause(s, why) == IF s.ok THEN [s EXCEPT !.ok = FALSE, !.conflict = Because(why)] ELSE s

Enqueue(s, W) ==
  LET fresh == {p \in W : ~s.enqueued[p]}
      added == [b \in Bands |-> SelectSeq([p \in PropIds |-> p], LAMBDA p : p \in fresh /\ BandOf(p) = b)]
  IN  [s EXCEPT !.queues = [b \in Bands |-> s.queues[b] \o added[b]],
                !.enqueued = [p \in PropIds |-> s.enqueued[p] \/ p \in fresh]]

Woken_BoundsOnly(v, old, new, current) ==
  {p \in PropIds \ {current} :
     \/ Min(new) # Min(old) /\ <<v, "DomainChange">> \in subs[p]
     \/ (Min(new) # Min(old) \/ Max(new) # Max(old)) /\ <<v, "BoundChange">> \in subs[p]
     \/ Cardinality(new) = 1 /\ <<v, "Fix">> \in subs[p]}

\* notify and wake: not the running propagator.
Woken(v, old, new, current) ==
  {p \in PropIds \ {current} :
     \/ <<v, "DomainChange">> \in subs[p]
     \/ (Min(new) # Min(old) \/ Max(new) # Max(old)) /\ <<v, "BoundChange">> \in subs[p]
     \/ Cardinality(new) = 1 /\ <<v, "Fix">> \in subs[p]}

\* One mutator: after_change, then emit with cause_for.
Change(s, v, new, fact, cause) ==
  IF ~s.ok \/ new = s.dom[v] THEN s
  ELSE IF new = {} THEN [s EXCEPT !.dom[v] = {}, !.ok = FALSE]
  ELSE Enqueue([s EXCEPT !.dom[v] = new,
                         !.events = Append(@, [fact  |-> fact,
                                               cause |-> {why \cup s.injected : why \in cause}])],
               Woken(v, s.dom[v], new, s.current))

RemoveVal(s, v, u, cause)   == Change(s, v, s.dom[v] \ {u}, Differs(v, u), cause)
RemoveBelow(s, v, k, cause) == Change(s, v, {u \in s.dom[v] : u >= k}, Ge(v, k), cause)
RemoveAbove(s, v, k, cause) == Change(s, v, {u \in s.dom[v] : u <= k}, Le(v, k), cause)

\* An absent value is an inconsistency that changes nothing.
Fix(s, v, u, cause) ==
  IF s.ok /\ u \notin s.dom[v] THEN Failed(s) ELSE Change(s, v, {u}, Equals(v, u), cause)

-----------------------------------------------------------------------------
(* Loops over mutators.                                                    *)

\* What follows "?".
Then(s, Op(_)) == IF s.ok THEN Op(s) ELSE s

\* for x in xs { s = Op(s, x)? }
ForEach(Op(_, _), s, xs) == FoldLeft(LAMBDA t, x : IF t.ok THEN Op(t, x) ELSE t, s, xs)

Indices(xs) == [i \in DOMAIN xs |-> i]

\* Remove, one by one, the values of v outside S.
Confine(s, v, S, cause) ==
  IF ~s.ok THEN s ELSE ForEach(LAMBDA t, u : RemoveVal(t, v, u, cause), s, InOrder(s.dom[v] \ S))

\* The same for every variable of a sequence in turn.
ConfineEach(s, xs, Sets, cause) ==
  ForEach(LAMBDA t, i : Confine(t, xs[i], Sets[i], cause), s, Indices(xs))

\* Repeat Op, which only removes values, while a round gives More.
While(Op(_), More(_, _), s) ==
  LET rounds == [n \in 1 .. Cardinality(Vars) * Cardinality(Values) |-> n]
      Step(before, after) == [s |-> after, again |-> after.ok /\ More(before, after)]
      Round(r, n) == IF r.again THEN Step(r.s, Op(r.s)) ELSE r
  IN  FoldLeft(Round, [s |-> s, again |-> TRUE], rounds).s

UntilStable(Op(_), s) == While(Op, LAMBDA before, after : after.dom # before.dom, s)

-----------------------------------------------------------------------------
(* The queue.                                                              *)

QueueIsEmpty(s) == \A b \in Bands : s.queues[b] = <<>>

NextBand(s) == IF s.queues["Cheap"] # <<>> THEN "Cheap"
               ELSE IF s.queues["Linear"] # <<>> THEN "Linear" ELSE "Expensive"

PeekProp(s) == Head(s.queues[NextBand(s)])

Dequeued(s) == [s EXCEPT !.queues[NextBand(s)] = Tail(@), !.enqueued[PeekProp(s)] = FALSE,
                         !.current = PeekProp(s)]

ClearedQueue_KeepsFlags(s) == [s EXCEPT !.queues = [b \in Bands |-> <<>>]]

ClearedQueue(s) ==
  [s EXCEPT !.queues = [b \in Bands |-> <<>>], !.enqueued = [p \in PropIds |-> FALSE]]

StoreIs(s) == dom' = s.dom /\ queues' = s.queues /\ enqueued' = s.enqueued
=============================================================================
