----------------------------- MODULE Enumeration -----------------------------
(***************************************************************************)
(* Cdcl::enumerate (src/lcg/engine.rs) over the propagation loop of        *)
(* Cdcl::propagate (src/lcg/trail.rs): a depth-first search that reports   *)
(* every solution of the posted constraints.  It learns no clause, so the  *)
(* clause side of the loop has nothing to do; the root probing before it,  *)
(* which only asserts consequences, is left out.  Branching heuristics and *)
(* search policies are any choice of an open variable and one of its       *)
(* values.                                                                 *)
(***************************************************************************)
EXTENDS Propagation

CONSTANT Stoppable   \* the constraint sequences whose caller may raise its stop flag

ASSUME EnumerationAssumption == Stoppable \subseteq {n[1] : n \in Networks}

VARIABLES
  phase,      \* where the loop stands
  stop,       \* the shared stop flag
  levels,     \* open levels: the domains saved by the trail, and the decision
  reported,   \* history: the solutions handed to on_solution
  repeated,   \* history: whether one of them was handed over twice
  base,       \* history: the domains before this propagation
  goal        \* history: the assignments that satisfy the posted propagators

given  == <<setup, goal>>
search == <<phase, stop, levels, reported, repeated>>
vars   == <<given, store, search, base>>

Init ==
  /\ \E n \in Networks : StoreOn(n)
  /\ phase = "propagate" /\ stop = FALSE
  /\ levels = <<>> /\ reported = {} /\ repeated = FALSE
  /\ base = dom
  /\ goal = {a \in RootBox : \A p \in PropIds : Satisfies(props[p], a)}

RaiseStop ==
  /\ posed \in Stoppable /\ ~stop
  /\ stop' = TRUE
  /\ UNCHANGED <<given, store, phase, levels, reported, repeated, base>>

\* One turn of Cdcl::propagate; a failure is the Err arm of enumerate.
PropagateStep ==
  LET Leads(s) == StoreIs(s) /\ phase' = IF s.ok THEN "propagate" ELSE "conflict"
  IN  /\ phase = "propagate" /\ ~stop /\ ~QueueIsEmpty(Contents)
      /\ Leads(RunProp(Contents))
      /\ UNCHANGED <<given, stop, levels, reported, repeated, base>>

ReachFixpoint ==
  /\ phase = "propagate" /\ ~stop /\ QueueIsEmpty(Contents)
  /\ phase' = "ready"
  /\ UNCHANGED <<given, store, stop, levels, reported, repeated, base>>

\* A stopped propagation clears the queue and returns Ok.
AbandonPropagation ==
  /\ phase = "propagate" /\ stop
  /\ StoreIs(ClearedQueue(Contents))
  /\ phase' = "ready"
  /\ UNCHANGED <<given, stop, levels, reported, repeated, base>>

Halt ==
  /\ phase = "ready" /\ stop
  /\ phase' = "stopped"
  /\ UNCHANGED <<given, store, stop, levels, reported, repeated, base>>

\* decide: open a level and fix the variable in it.
Decide ==
  /\ phase = "ready" /\ ~stop
  /\ \E v \in Vars : \E u \in dom[v] :
       /\ ~IsFixed(dom, v)
       /\ levels' = Append(levels, [dom |-> dom, var |-> v, val |-> u])
       /\ StoreIs(Fix(Contents, v, u, Scope))
       /\ base' = [dom EXCEPT ![v] = {u}]
  /\ phase' = "propagate"
  /\ UNCHANGED <<given, stop, reported, repeated>>

AllFixed == \A v \in Vars : IsFixed(dom, v)
Assigned == [v \in Vars |-> TheValue(dom, v)]

Report_IgnoresStop ==
  /\ phase = "ready" /\ AllFixed
  /\ reported' = reported \cup {Assigned} /\ repeated' = (repeated \/ Assigned \in reported)
  /\ phase' \in {"backtrack", "stopped"}
  /\ UNCHANGED <<given, store, stop, levels, base>>

\* A full assignment; the consumer may ask to stop.
Report ==
  /\ phase = "ready" /\ ~stop /\ AllFixed
  /\ reported' = reported \cup {Assigned} /\ repeated' = (repeated \/ Assigned \in reported)
  /\ phase' \in {"backtrack", "stopped"}
  /\ UNCHANGED <<given, store, stop, levels, base>>

BacktrackAndForbid_WithoutWaking ==
  /\ phase \in {"conflict", "backtrack"}
  /\ IF levels = <<>> THEN phase' = "exhausted" /\ UNCHANGED <<store, levels, base>>
     ELSE LET top == Last(levels)
          IN  /\ levels' = Front(levels)
              /\ dom' = [top.dom EXCEPT ![top.var] = @ \ {top.val}]
              /\ base' = dom'
              /\ phase' = "propagate"
              /\ UNCHANGED <<queues, enqueued>>
  /\ UNCHANGED <<given, stop, reported, repeated>>

BacktrackAndForbid_KeepsValue ==
  /\ phase \in {"conflict", "backtrack"}
  /\ IF levels = <<>> THEN phase' = "exhausted" /\ UNCHANGED <<store, levels, base>>
     ELSE /\ levels' = Front(levels)
          /\ StoreIs([Contents EXCEPT !.dom = Last(levels).dom])
          /\ base' = dom' /\ phase' = "propagate"
  /\ UNCHANGED <<given, stop, reported, repeated>>

\* backtrack_and_forbid: pop the deepest level and assert the negated decision;
\* climb when that empties the variable.
BacktrackAndForbid ==
  /\ phase \in {"conflict", "backtrack"}
  /\ IF levels = <<>> THEN phase' = "exhausted" /\ UNCHANGED <<store, levels, base>>
     ELSE LET top == Last(levels)
              s   == RemoveVal([Contents EXCEPT !.dom = top.dom], top.var, top.val, Scope)
          IN  /\ levels' = Front(levels)
              /\ StoreIs(s)
              /\ base' = s.dom
              /\ phase' = IF s.ok THEN "propagate" ELSE "backtrack"
  /\ UNCHANGED <<given, stop, reported, repeated>>

Ended == phase \in {"exhausted", "stopped"}

Step ==
  \/ PropagateStep \/ ReachFixpoint \/ AbandonPropagation \/ Halt
  \/ Decide \/ Report \/ BacktrackAndForbid

Next == RaiseStop \/ Step \/ (Ended /\ UNCHANGED vars)

Spec == Init /\ [][Next]_vars

\* The search thread runs until the search has ended: WF_vars(Step), with
\* ENABLED <<Step>>_vars written out as ~Ended, which is quick to evaluate.
FairSpec == Spec /\ ([]<>Ended \/ []<><<Step>>_vars)

-----------------------------------------------------------------------------
(* Properties.                                                             *)

TypeOK ==
  /\ subs \in [PropIds -> SUBSET (Vars \X {"DomainChange", "BoundChange", "Fix"})]
  /\ prio \in [PropIds -> Bands] /\ single_band \in BOOLEAN
  /\ dom \in [Vars -> SUBSET Values]
  /\ queues \in [Bands -> Seq(PropIds)] /\ enqueued \in [PropIds -> BOOLEAN]
  /\ phase \in {"propagate", "ready", "conflict", "backtrack", "exhausted", "stopped"}
  /\ stop \in BOOLEAN
  /\ root \in [Vars -> SUBSET Values] /\ base \in [Vars -> SUBSET Values]

\* Domains, queues and flags are well formed and agree (enqueue, dequeue,
\* clear_queue, wake): a propagator whose flag outlives its place in the queue
\* would never run again.
QueueInv == TypeOK /\ FlagsMatchQueues

\* "The fixpoint reached is independent" of the order in which propagators run
\* (propagator.rs:23-24): it is what running all of them until nothing changes
\* gives, and a failure means that this fails too.  No wake is missed, although
\* the running propagator is never woken and most changes wake only a few.  Where
\* a propagator may leave something to find, the search keeps at least the values
\* that this keeps.
FixpointIsCanonical ==
  LET Agrees(e) ==
        /\ phase = "ready" /\ ~stop =>
             IF \A p \in PropIds : LeavesNothing(Inner(props[p])) THEN e.ok /\ e.dom = dom
             ELSE e.ok => \A v \in Vars : e.dom[v] \subseteq dom[v]
        /\ phase = "conflict" => ~e.ok
  IN  Agrees(Exhaustive(props, base))

\* The reasons that the learning engine turns into clauses without looking again
\* (ReasonsHold, ConflictHolds).  A conflict of the root ends the search, whatever
\* its premises.
ExplanationsHold ==
  LET Explains(s) ==
        /\ ReasonsHold(PeekProp(Contents), s)
        /\ levels # <<>> => ConflictHolds(PeekProp(Contents), s)
  IN  phase = "propagate" /\ ~QueueIsEmpty(Contents) => Explains(Outcome(Contents))

\* The assignments to the variables of the model that replay accepts.  Membership
\* variables are as wide as their declaration; the variables that the compiler adds
\* to order tasks that may be absent are not part of the answer.
Added    == UNION {Range(c.orders) : c \in {d \in Range(posed) : d.kind = "OptionalNoOverlap"}}
Decoded(a) == [v \in Vars \ Added |-> a[v]]
Declared == LET bits == UNION {Range(c.set) : c \in {d \in Range(posed) : d.kind = "SetVar"}}
            IN  [v \in Vars |-> IF v \in bits THEN {0, 1} ELSE root[v]]
Solves(a) == \A i \in DOMAIN posed : Accepts(posed[i], a)

\* The search reports only what canonical replay accepts, each assignment once, and
\* all of them when it ends by itself, whatever it branches on (enumerate,
\* backtrack_and_forbid) and whatever the constraints were compiled into
\* (cp_compile.rs, verify.rs): a candidate that replay refuses fails the solve.
EnumerationIsExact ==
  /\ (\A a \in reported : Solves(a)) /\ ~repeated
  /\ phase = "exhausted" => \A a \in BoxOf(Declared) : Solves(a) => \E b \in reported : Decoded(b) = Decoded(a)

\* The enumeration implements a depth-first search over any filtering that loses no
\* solution and lets no other assignment through, and it ends.
Promise == INSTANCE ExhaustiveSearch
ImplementsSearch == Promise!Spec /\ <>Ended
=============================================================================
