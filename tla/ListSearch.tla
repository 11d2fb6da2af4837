------------------------------ MODULE ListSearch ------------------------------
(***************************************************************************)
(* Local search over ordered lists: the workers of src/engines/ls/lists    *)
(* (run_generic_search and run_routing_search as seen by the others), the  *)
(* incumbent that they share (portfolio.rs), and the structural bound that *)
(* waits for the first incumbent (result_from_local_search).               *)
(*                                                                         *)
(* A solution is what it is compared by: its violation and the values of   *)
(* the objective tiers, all minimized.  A move leads to any solution.  The *)
(* executor is what ExecutionScope promises: one slot of progress, where   *)
(* the last value wins, and a return that waits for every worker.          *)
(***************************************************************************)
EXTENDS Integers, Sequences, FiniteSets, FiniteSetsExt, SequencesExt

CONSTANTS
  Crews,       \* how many workers a search may have
  Candidates,  \* the solutions met: <<violation, tier 0, tier 1>>
  Iterations   \* how many iterations each worker has

ASSUME ListSearchAssumption ==
  Crews \subseteq Nat \ {0} /\ Iterations \in Nat /\ Candidates \subseteq Nat \X Int \X Int

VARIABLES
  crew, tiers,           \* the request: workers, and whether the model has objectives
  ls_stop,               \* the stop flag that every part polls
  walker,                \* where each worker stands
  left,                  \* the iterations it has left
  best,                  \* its incumbent: a sequence of at most one solution
  seen,                  \* WorkerCoordination.last_seen_generation
  shared, generation,    \* SharedListIncumbent: <<solution, source>>, and how often it changed
  slot,                  \* the progress not consumed yet: at most one value
  callback,              \* the value that the improvement callback is given
  told,                  \* the values it was given before
  gate,                  \* DeferredDualState: "closed", "released" or "cancelled"
  dual,                  \* the thread of the structural bound
  host,                  \* the thread of result_from_local_search
  found                  \* the solution it returns

searchRequest == <<crew, tiers>>
walkers == <<walker, left, best, seen>>
progress == <<slot, callback, told>>
listVars == <<searchRequest, ls_stop, walkers, shared, generation, progress, gate, dual, host, found>>

None == <<>>
SearchOver == host \in {"returned", "panicked"}
Crew == 0 .. crew - 1

IsFeasible(c) == c[1] = 0
Reportable(c) == tiers /\ IsFeasible(c)

\* better: a feasible solution first, then the lower score.
Lower(a, b) == \E i \in DOMAIN a : a[i] < b[i] /\ \A j \in 1 .. i - 1 : a[j] = b[j]
Better(a, b) == \/ IsFeasible(a) /\ ~IsFeasible(b)
                \/ IsFeasible(a) = IsFeasible(b) /\ Lower(a, b)
Improves(c, incumbent) == \A b \in Range(incumbent) : Better(c, b)

\* worker_profile; injection_period, where "some" is every so many local optima.
Profile(w) == CASE w % 4 = 0 -> "sequential" [] w % 4 = 1 -> "intensify"
                [] w % 4 = 2 -> "diversify" [] w % 4 = 3 -> "balanced"
Injects(w) == IF crew = 1 THEN {FALSE}
              ELSE CASE Profile(w) = "intensify" -> {TRUE} [] Profile(w) = "balanced" -> BOOLEAN [] OTHER -> {FALSE}

ListInit ==
  /\ crew \in Crews /\ tiers \in BOOLEAN
  /\ ls_stop = FALSE
  /\ walker = [w \in Crew |-> "begin"] /\ left = [w \in Crew |-> Iterations]
  /\ best = [w \in Crew |-> None] /\ seen = [w \in Crew |-> 0]
  /\ shared = None /\ generation = 0
  /\ slot = None /\ callback = None /\ told = <<>>
  /\ gate = "closed" /\ dual = "waiting" /\ host = "collecting" /\ found = None

RaiseListStop ==
  /\ ~ls_stop /\ ~SearchOver
  /\ ls_stop' = TRUE
  /\ UNCHANGED <<searchRequest, walkers, shared, generation, progress, gate, dual, host, found>>

-----------------------------------------------------------------------------
(* Progress.  A single worker calls back itself, from the thread of the    *)
(* host; several leave the value for the host, in place of an older one.   *)

Report(c) ==
  /\ callback' = IF Reportable(c) /\ crew = 1 THEN <<c[2]>> ELSE callback
  /\ slot' = IF Reportable(c) /\ crew > 1 THEN <<c[2]>> ELSE slot
  /\ UNCHANGED told

Silent == UNCHANGED progress

\* A lone worker runs nothing while its callback runs.
Runs(w) == w \in Crew /\ (crew = 1 => callback = None)
\* A worker sees the stop flag, or the cancellation of an unwinding scope.
Halted == ls_stop \/ host = "unwinding"

At(w, from) == Runs(w) /\ walker[w] = from
Goes(w, to) == walker' = [walker EXCEPT ![w] = to]
Elsewhere == UNCHANGED <<searchRequest, ls_stop, gate, dual, host, found>>

\* record_state.
Record(w, c) ==
  IF Improves(c, best[w]) THEN best' = [best EXCEPT ![w] = <<c>>] /\ Report(c) ELSE UNCHANGED best /\ Silent

-----------------------------------------------------------------------------
(* A worker (solve_collection_capped_worker).                              *)

\* Any of the ways out before there is a state: the stop, seen at the start or in
\* the middle of the construction.
GiveUpEarly(w) ==
  /\ At(w, "begin") /\ Halted
  /\ Goes(w, "done")
  /\ UNCHANGED <<left, best, seen, shared, generation>> /\ Silent /\ Elsewhere

\* The constructor may report before its solution is shared, or leave it to the worker.
Construct(w) ==
  /\ At(w, "begin")
  /\ \E c \in Candidates :
       /\ best' = [best EXCEPT ![w] = <<c>>]
       /\ \/ Goes(w, "share") /\ Report(c)
          \/ Goes(w, "introduce") /\ Silent
  /\ UNCHANGED <<left, seen, shared, generation>> /\ Elsewhere

Offers(c, w) ==
  IF crew > 1 /\ (\A s \in Range(shared) : Better(c, s[1]))
  THEN shared' = <<<<c, w>>>> /\ generation' = generation + 1
  ELSE UNCHANGED <<shared, generation>>

Introduce(w) ==
  /\ At(w, "introduce") /\ Offers(best[w][1], w)
  /\ Report(best[w][1]) /\ Goes(w, "search")
  /\ UNCHANGED <<left, best, seen>> /\ Elsewhere

\* SharedListIncumbent::publish, under the lock.
Share(w) ==
  /\ At(w, "share") /\ Offers(best[w][1], w)
  /\ Goes(w, "search")
  /\ UNCHANGED <<left, best, seen>> /\ Silent /\ Elsewhere

\* The state goes somewhere: an improving move, or the candidate of a destruction
\* and repair, accepted or not.
Visit(w, from) ==
  /\ At(w, from)
  /\ \E c \in Candidates : Record(w, c) /\ Goes(w, IF Improves(c, best[w]) THEN "share" ELSE "search")

MoveOn(w) ==
  /\ ~Halted /\ left[w] > 0 /\ Visit(w, "search")
  /\ left' = [left EXCEPT ![w] = @ - 1]
  /\ UNCHANGED <<seen, shared, generation>> /\ Elsewhere

ReachOptimum(w) ==
  /\ At(w, "search") /\ ~Halted /\ left[w] > 0
  /\ left' = [left EXCEPT ![w] = @ - 1]
  /\ \E injects \in Injects(w) : Goes(w, IF injects THEN "look" ELSE "escape")
  /\ UNCHANGED <<best, seen, shared, generation>> /\ Silent /\ Elsewhere

\* maybe_inject: the generation is read before the lock is taken.
Look(w) ==
  /\ At(w, "look")
  /\ seen' = [seen EXCEPT ![w] = generation]
  /\ Goes(w, IF generation = seen[w] THEN "escape" ELSE "compare")
  /\ UNCHANGED <<left, best, shared, generation>> /\ Silent /\ Elsewhere

\* The assertion of a debug build: "a shared incumbent must strictly improve the
\* worker incumbent".
Inject(w, c) ==
  \/ Record(w, c) /\ Goes(w, IF Improves(c, best[w]) THEN "search" ELSE "panic")
  \/ Halted /\ Goes(w, "done") /\ UNCHANGED best /\ Silent

\* What the shared incumbent offers a worker: another's, if it is strictly better.
Worth(w) == {s[1] : s \in {r \in Range(shared) : r[2] # w /\ Improves(r[1], best[w])}}

Compare(w) ==
  /\ At(w, "compare")
  /\ \/ \E c \in Worth(w) : Inject(w, c)
     \/ Worth(w) = {} /\ Goes(w, "escape") /\ UNCHANGED best /\ Silent
  /\ UNCHANGED <<left, seen, shared, generation>> /\ Elsewhere

\* The candidate of a destruction and repair, which may fail.
Escape(w) ==
  /\ \/ Visit(w, "escape")
     \/ At(w, "escape") /\ Goes(w, "search") /\ UNCHANGED best /\ Silent
  /\ UNCHANGED <<left, seen, shared, generation>> /\ Elsewhere

\* The last state may be one that was never recorded.
Finish(w) ==
  /\ At(w, "search") /\ (Halted \/ left[w] = 0)
  /\ \/ Goes(w, "done") /\ UNCHANGED best /\ Silent
     \/ \E c \in Candidates : Improves(c, best[w]) /\ Record(w, c) /\ Goes(w, "share")
  /\ UNCHANGED <<left, seen, shared, generation>> /\ Elsewhere

-----------------------------------------------------------------------------
(* The host: progress, the end of the workers, and the dual bound.         *)

Settle(to) == gate' = IF gate = "closed" THEN to ELSE gate

Deliver_ReleasesFirst ==
  /\ host = "collecting" /\ crew > 1 /\ callback = None /\ slot # None
  /\ slot' = None /\ Settle("released")
  /\ callback' = IF told = <<>> \/ slot[1] < Last(told) THEN slot ELSE None
  /\ UNCHANGED <<searchRequest, ls_stop, walkers, shared, generation, told, dual, host, found>>

\* The handler of execute_workers lets strict improvements through.
Deliver ==
  /\ host = "collecting" /\ crew > 1 /\ callback = None /\ slot # None
  /\ slot' = None
  /\ callback' = IF told = <<>> \/ slot[1] < Last(told) THEN slot ELSE None
  /\ UNCHANGED <<searchRequest, ls_stop, walkers, shared, generation, told, gate, dual, host, found>>

\* publish_first_incumbent: the bound may start once the callback has returned.
CallbackReturns ==
  /\ callback # None
  /\ callback' = None /\ told' = Append(told, callback[1])
  /\ Settle("released")
  /\ UNCHANGED <<searchRequest, ls_stop, walkers, shared, generation, slot, dual, host, found>>

\* A callback that panics unwinds through the workers' scope, which stops them.
CallbackPanics ==
  /\ callback # None
  /\ callback' = None /\ host' = "unwinding"
  /\ walker' = IF crew = 1 THEN [walker EXCEPT ![0] = "done"] ELSE walker
  /\ UNCHANGED <<searchRequest, ls_stop, left, best, seen, shared, generation, slot, told, gate, dual, found>>

AllGone == \A w \in Crew : walker[w] = "done"

\* solution_better: infeasible solutions are all alike.
SolutionBetter(a, b) ==
  a # None /\ IsFeasible(a[1]) /\ (b = None \/ ~IsFeasible(b[1]) \/ Lower(a[1], b[1]))

ChosenOf_First(results) == Head(results)

\* The first that no other is better than, in the order of the workers.
BestIndex(results) ==
  CHOOSE i \in DOMAIN results : /\ \A j \in DOMAIN results : ~SolutionBetter(results[j], results[i])
                                /\ \A j \in 1 .. i - 1 : SolutionBetter(results[i], results[j])
ChosenOf(results) == results[BestIndex(results)]

Collect ==
  /\ host = "collecting" /\ AllGone /\ slot = None /\ callback = None
  /\ found' = ChosenOf([i \in 1 .. crew |-> best[i - 1]])
  /\ Settle(IF found' # None /\ Reportable(found'[1]) THEN "released" ELSE "cancelled")
  /\ host' = "joining"
  /\ UNCHANGED <<searchRequest, ls_stop, walkers, shared, generation, progress, dual>>

\* DeferredDualGate::drop.
Unwind ==
  /\ host = "unwinding" /\ AllGone
  /\ Settle("cancelled") /\ host' = "unwound"
  /\ UNCHANGED <<searchRequest, ls_stop, walkers, shared, generation, progress, dual, found>>

StartDual ==
  /\ dual = "waiting" /\ gate # "closed"
  /\ dual' = IF gate = "cancelled" \/ ls_stop THEN "done" ELSE "computing"
  /\ UNCHANGED <<searchRequest, ls_stop, walkers, shared, generation, progress, gate, host, found>>

EndDual ==
  /\ dual = "computing" /\ dual' = "done"
  /\ UNCHANGED <<searchRequest, ls_stop, walkers, shared, generation, progress, gate, host, found>>

JoinDual ==
  /\ dual = "done"
  /\ \/ host = "joining" /\ host' = "returned"
     \/ host = "unwound" /\ host' = "panicked"
  /\ UNCHANGED <<searchRequest, ls_stop, walkers, shared, generation, progress, gate, dual, found>>

WalkerStep(w) ==
  \/ GiveUpEarly(w) \/ Construct(w) \/ Introduce(w) \/ Share(w) \/ MoveOn(w) \/ ReachOptimum(w)
  \/ Look(w) \/ Compare(w) \/ Escape(w) \/ Finish(w)

HostStep == Deliver \/ CallbackReturns \/ CallbackPanics \/ Collect \/ Unwind \/ JoinDual
ListStep == (\E w \in Crew : WalkerStep(w)) \/ HostStep \/ StartDual \/ EndDual
ListNext == RaiseListStop \/ ListStep
ListSpec == ListInit /\ [][ListNext]_listVars

\* Every thread runs and every callback returns or panics.
ListFairness == []<>SearchOver \/ []<><<ListStep>>_listVars

-----------------------------------------------------------------------------
(* Properties.                                                             *)

\* What the caller has been told only improves and some worker has it; and the
\* answer is at least as good as all that a worker has had or shared.  No incumbent
\* is lost, whichever progress was dropped on the way; and "a shared incumbent must
\* strictly improve the worker incumbent" (local_search.rs:2786, 3475), although the
\* generation was read before the lock.
AnswersKeepIncumbents ==
  LET Had == {b \in (UNION {Range(best[w]) : w \in Crew}) \cup {s[1] : s \in Range(shared)} : IsFeasible(b)}
  IN  /\ \A w \in Crew : walker[w] # "panic"
      /\ \A i \in 1 .. Len(told) - 1 : told[i] >= told[i + 1] /\ (crew > 1 => told[i] # told[i + 1])
      /\ \A i \in DOMAIN told : \E b \in Had : b[2] <= told[i]
      /\ host \in {"joining", "returned"} => \A b \in Had : \E f \in Range(found) : IsFeasible(f) /\ ~Better(b, f)

\* "Construction owns the time-to-first-incumbent contract": the bound is not
\* computed before the caller has been given a first incumbent, if there is one.
BoundWaitsForIncumbent == dual = "computing" => told # <<>> \/ found # None

ListSearchEnds == <>SearchOver
=============================================================================
