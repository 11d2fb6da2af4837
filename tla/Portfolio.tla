------------------------------ MODULE Portfolio ------------------------------
(***************************************************************************)
(* The exact COP portfolio: src/engines/cp/portfolio.rs with the parts of  *)
(* src/lcg/engine.rs, src/lcg/trail.rs and src/search.rs that cooperate.   *)
(*                                                                         *)
(* Regular workers prove: each searches the whole problem, or, when the    *)
(* portfolio splits, cubes taken from a shared work queue.  Probe workers  *)
(* bisect the objective range, LNS workers only improve the incumbent.     *)
(* All of them share the incumbent, its bound, the learned clauses and the *)
(* "proved" flag that the orchestrator turns into OPTIMAL/UNSATISFIABLE.   *)
(*                                                                         *)
(* The problem is a finite set of points with their objective value; a     *)
(* cube (a vector of literals) is the set of points it leaves, a clause is *)
(* the set of points it removes.  A search engine is its contract:         *)
(* under a cube and a cutoff it finds improving points in any order, and   *)
(* says "complete" when none is left that its clauses allow.               *)
(***************************************************************************)
EXTENDS Integers, Sequences, FiniteSets

CONSTANTS
  Regular, Lns, Probes,  \* the worker indices of the three roles
  Zero,                  \* worker 0
  Points,                \* assignments of the search variables
  Low, High,             \* bounds of the objective variable at the root
  Infeasible,            \* cost of a point that violates a constraint
  NoBound, NoPoint, NoWorker,
  Minimizing,            \* objective direction
  Split,                 \* RunOptions.split
  Policies,              \* whether the guidance may, or may not, carry search phases
  SplitTarget,           \* 2 * regular_workers in the code
  SplitLimit,            \* 4 * regular_workers in the code
  Certificates,          \* objective bounds a dual engine may have certified before
  MayStop                \* whether the caller may raise its stop flag

Workers == Regular \cup Lns \cup Probes
Values  == Low .. High

ASSUME PortfolioAssumption ==
  /\ IsFiniteSet(Workers) /\ IsFiniteSet(Points)
  /\ Regular \cap (Lns \cup Probes) = {} /\ Lns \cap Probes = {}
  /\ Zero \in Regular
  /\ Low \in Int /\ High \in Int /\ Low <= High
  /\ Infeasible \notin Values /\ NoBound \notin Values
  /\ NoPoint \notin Points /\ NoWorker \notin Workers
  /\ {Minimizing, Split, MayStop} \subseteq BOOLEAN /\ Policies \subseteq BOOLEAN
  /\ SplitTarget \in Nat \ {0} /\ SplitLimit \in Nat
  /\ Certificates \subseteq Values

VARIABLES
  cost, certified,           \* the problem: objective of each point, a proved bound
  explicit,                  \* explicit_policy: the guidance carries search phases
  cancel, proved,            \* CopShared.cancel, CopShared.proved
  best_value, best_present,  \* CopShared.best
  slot, lock,                \* CopShared.solution and the holder of its mutex
  jobs, active, split,       \* WorkState
  lower, upper,              \* probe_lower, probe_upper
  pool,                      \* points removed by the shared clauses
  pc,                        \* control point of each worker
  cube, half,                \* the cube held, and the side of it about to be kept
  bound,                     \* cutoff of the engine, bound read or target of a probe
  pruned,                    \* points removed by the clauses imported
  found,                     \* the point being reported
  complete                   \* what the last search answered

problem   == <<cost, certified, explicit>>
flags     == <<cancel, proved>>
incumbent == <<best_value, best_present, slot, lock>>
work      == <<jobs, active, split>>
range     == <<lower, upper>>
locals    == <<cube, half, bound, pruned, found, complete>>
vars      == <<problem, flags, incumbent, work, range, pool, pc, locals>>

Feasible == {p \in Points : cost[p] # Infeasible}

\* The order of objective values, with the absence of a bound beaten by all.
Beats(v, b)   == IF b = NoBound THEN TRUE ELSE IF Minimizing THEN v < b ELSE v > b
Reaches(v, b) == IF Minimizing THEN v <= b ELSE v >= b
Certifies(v)  == IF certified = NoBound THEN FALSE ELSE Reaches(v, certified)

BestLoaded == IF best_present THEN best_value ELSE NoBound
SlotValue  == IF slot = NoPoint THEN NoBound ELSE cost[slot]

RunsCompleteWorker_IgnoresPolicy(w) == ~Split
RunsCompleteWorker(w) == ~Split \/ (explicit /\ w = Zero)
AuxiliaryMayProve == ~explicit
Splitter(w) == w \in Regular /\ ~RunsCompleteWorker(w)

PC == {"take", "split", "push", "solve", "search", "report", "present", "slot",
       "certify", "finish", "prove", "loop", "check", "compare", "pick", "aim",
       "probe", "last", "verdict", "lns", "done"}

TypeOK ==
  /\ cost \in [Points -> Values \cup {Infeasible}]
  /\ certified \in Values \cup {NoBound} /\ explicit \in BOOLEAN
  /\ cancel \in BOOLEAN /\ proved \in BOOLEAN
  /\ best_value \in Values \cup {0} /\ best_present \in BOOLEAN
  /\ slot \in Points \cup {NoPoint} /\ lock \in Workers \cup {NoWorker}
  /\ jobs \in Seq(SUBSET Points) /\ active \in Nat /\ split \in Nat
  /\ lower \in Int /\ upper \in Int
  /\ pool \in SUBSET Points
  /\ pc \in [Workers -> PC]
  /\ cube \in [Workers -> SUBSET Points] /\ half \in [Workers -> SUBSET Points]
  /\ bound \in [Workers -> Values \cup {0, NoBound}]
  /\ pruned \in [Workers -> SUBSET Points]
  /\ found \in [Workers -> Points \cup {NoPoint}]
  /\ complete \in [Workers -> BOOLEAN]

\* A certified bound is a proved one: no feasible point passes it.  The verified
\* warm start may already be stored; when it reaches the bound nothing is run.
Init ==
  /\ cost \in [Points -> Values \cup {Infeasible}]
  /\ certified \in {NoBound} \cup {v \in Certificates : \A p \in Feasible : Reaches(v, cost[p])}
  /\ explicit \in Policies
  /\ cancel = FALSE /\ proved = FALSE
  /\ slot \in Feasible \cup {NoPoint} /\ lock = NoWorker
  /\ best_present = (slot # NoPoint)
  /\ best_value = (IF slot = NoPoint THEN 0 ELSE cost[slot])
  /\ IF slot = NoPoint THEN TRUE ELSE ~Certifies(cost[slot])
  /\ jobs = <<Points>> /\ active = 0 /\ split = 0
  /\ lower = Low /\ upper = High
  /\ pool = {}
  /\ pc = [w \in Workers |-> IF w \in Probes THEN "check"
                             ELSE IF w \in Lns THEN "lns"
                             ELSE IF Splitter(w) THEN "take" ELSE "search"]
  /\ cube = [w \in Workers |-> IF w \in Regular /\ RunsCompleteWorker(w) THEN Points ELSE {}]
  /\ half = [w \in Workers |-> {}]
  /\ bound = [w \in Workers |-> NoBound]
  /\ pruned = [w \in Workers |-> {}]
  /\ found = [w \in Workers |-> NoPoint]
  /\ complete = [w \in Workers |-> FALSE]

At(w, l)   == pc[w] = l
Goto(w, l) == pc' = [pc EXCEPT ![w] = l]

-----------------------------------------------------------------------------
(* The caller's stop flag, copied into cancel by the executor's monitor.   *)

Interrupt ==
  /\ MayStop /\ ~cancel
  /\ cancel' = TRUE
  /\ UNCHANGED <<problem, proved, incumbent, work, range, pool, pc, locals>>

-----------------------------------------------------------------------------
(* The work queue.  Each operation runs under its mutex; a worker with     *)
(* nothing to take wakes up every 5 ms, so a lost notification is harmless.*)

NeedsSplit == Len(jobs) < SplitTarget /\ split < SplitLimit

Take(w) ==
  /\ At(w, "take")
  /\ \/ /\ ~cancel /\ jobs # <<>>
        /\ cube' = [cube EXCEPT ![w] = Head(jobs)]
        /\ jobs' = Tail(jobs)
        /\ active' = active + 1
        /\ Goto(w, "split")
     \/ /\ cancel \/ (jobs = <<>> /\ active = 0)
        /\ Goto(w, "done")
        /\ UNCHANGED <<cube, jobs, active>>
  /\ UNCHANGED <<problem, flags, incumbent, split, range, pool, half, bound, pruned, found, complete>>

\* needs_split held, and split_cube chose a literal: one side to keep.
ChooseLiteral(w) ==
  /\ At(w, "split") /\ NeedsSplit
  /\ \E h \in (SUBSET cube[w]) \ {{}, cube[w]} : half' = [half EXCEPT ![w] = h]
  /\ Goto(w, "push")
  /\ UNCHANGED <<problem, flags, incumbent, work, range, pool, cube, bound, pruned, found, complete>>

\* The queue is full, or the cube is terminal, refuted or interrupted.
StopSplitting(w) ==
  /\ At(w, "split")
  /\ Goto(w, "solve")
  /\ UNCHANGED <<problem, flags, incumbent, work, range, pool, locals>>

TryPushSplit_WithoutRecheck(w) ==
  /\ At(w, "push")
  /\ jobs' = Append(jobs, cube[w] \ half[w])
  /\ split' = split + 1
  /\ cube' = [cube EXCEPT ![w] = half[w]]
  /\ half' = [half EXCEPT ![w] = {}]
  /\ Goto(w, "split")
  /\ UNCHANGED <<problem, flags, incumbent, active, range, pool, bound, pruned, found, complete>>

TryPushSplit_KeepsHalf(w) ==
  /\ At(w, "push")
  /\ IF NeedsSplit
     THEN /\ jobs' = Append(jobs, cube[w] \ half[w])
          /\ split' = split + 1
          /\ Goto(w, "split")
     ELSE Goto(w, "solve") /\ UNCHANGED <<jobs, split>>
  /\ cube' = [cube EXCEPT ![w] = half[w]]
  /\ half' = [half EXCEPT ![w] = {}]
  /\ UNCHANGED <<problem, flags, incumbent, active, range, pool, bound, pruned, found, complete>>

\* Other workers may have filled the queue since needs_split.
TryPushSplit(w) ==
  /\ At(w, "push")
  /\ half' = [half EXCEPT ![w] = {}]
  /\ IF NeedsSplit
     THEN /\ jobs' = Append(jobs, cube[w] \ half[w])
          /\ split' = split + 1
          /\ cube' = [cube EXCEPT ![w] = half[w]]
          /\ Goto(w, "split")
     ELSE Goto(w, "solve") /\ UNCHANGED <<jobs, split, cube>>
  /\ UNCHANGED <<problem, flags, incumbent, active, range, pool, bound, pruned, found, complete>>

FinishCube_IgnoresActive(w) ==
  /\ At(w, "finish")
  /\ active' = active - 1
  /\ cube' = IF complete[w] THEN [cube EXCEPT ![w] = {}] ELSE cube
  /\ IF complete[w] /\ jobs = <<>> /\ AuxiliaryMayProve
     THEN Goto(w, "prove") ELSE Goto(w, "loop")
  /\ UNCHANGED <<problem, flags, incumbent, jobs, split, range, pool, half, bound, pruned, found, complete>>

FinishCube_KeepsInterrupted(w) ==
  /\ At(w, "finish")
  /\ active' = IF complete[w] THEN active - 1 ELSE active
  /\ cube' = IF complete[w] THEN [cube EXCEPT ![w] = {}] ELSE cube
  /\ IF complete[w] /\ active' = 0 /\ jobs = <<>> /\ AuxiliaryMayProve
     THEN Goto(w, "prove") ELSE Goto(w, "loop")
  /\ UNCHANGED <<problem, flags, incumbent, jobs, split, range, pool, half, bound, pruned, found, complete>>

\* WorkQueue::finish: an interrupted cube is not put back.
FinishCube(w) ==
  /\ At(w, "finish")
  /\ active' = active - 1
  /\ cube' = IF complete[w] THEN [cube EXCEPT ![w] = {}] ELSE cube
  /\ IF complete[w] /\ active' = 0 /\ jobs = <<>> /\ AuxiliaryMayProve
     THEN Goto(w, "prove") ELSE Goto(w, "loop")
  /\ UNCHANGED <<problem, flags, incumbent, jobs, split, range, pool, half, bound, pruned, found, complete>>

NextCube(w) ==
  /\ At(w, "loop")
  /\ IF ~complete[w] \/ proved THEN Goto(w, "done") ELSE Goto(w, "take")
  /\ UNCHANGED <<problem, flags, incumbent, work, range, pool, locals>>

-----------------------------------------------------------------------------
(* The search engine of a regular or a probe worker.                       *)

\* The points the cube and the objective bound assumed by the engine allow.
WithinBound(w, p) ==
  IF cost[p] = Infeasible THEN TRUE
  ELSE IF At(w, "probe") THEN Reaches(cost[p], bound[w]) ELSE Beats(cost[p], bound[w])

InScope(w, p) == (At(w, "probe") \/ p \in cube[w]) /\ WithinBound(w, p)

Open(w) == {p \in Feasible : InScope(w, p) /\ p \notin pruned[w]}

Searching(w) == At(w, "search") \/ At(w, "probe")

\* Every cube starts from a fresh engine.
StartSearch(w) ==
  /\ At(w, "solve")
  /\ bound' = [bound EXCEPT ![w] = NoBound]
  /\ pruned' = [pruned EXCEPT ![w] = {}]
  /\ complete' = [complete EXCEPT ![w] = FALSE]
  /\ IF cancel THEN Goto(w, "finish") ELSE Goto(w, "search")
  /\ UNCHANGED <<problem, flags, incumbent, work, range, pool, cube, half, found>>

\* The loop of optimize reads the shared bound and asserts it when stronger.
TightenBound(w) ==
  /\ At(w, "search")
  /\ best_present /\ Beats(best_value, bound[w])
  /\ bound' = [bound EXCEPT ![w] = best_value]
  /\ UNCHANGED <<problem, flags, incumbent, work, range, pool, pc, cube, half, pruned, found, complete>>

SyncSharedClauses(w) ==
  /\ Searching(w) /\ ~(pool \subseteq pruned[w])
  /\ pruned' = [pruned EXCEPT ![w] = @ \cup pool]
  /\ UNCHANGED <<problem, flags, incumbent, work, range, pool, pc, cube, half, bound, found, complete>>

\* What the clauses an engine learns may remove: everything that is infeasible or
\* outside the scope it assumes.
Learnable(w) == Points \ Open(w)

ExportClause_CubeScopeOnly(w) ==
  /\ Searching(w)
  /\ pool' = pool \cup {p \in Learnable(w) : p \in cube[w] \/ At(w, "probe")}
  /\ UNCHANGED <<problem, flags, incumbent, work, range, pc, locals>>

\* resolve_conflict exports the clause with the negated scope in front of it.
ExportClause(w) ==
  /\ Searching(w)
  /\ pool' = pool \cup {p \in Learnable(w) : InScope(w, p)}
  /\ UNCHANGED <<problem, flags, incumbent, work, range, pc, locals>>

FindSolution(w) ==
  /\ Searching(w)
  /\ \E p \in Open(w) : found' = [found EXCEPT ![w] = p]
  /\ Goto(w, "report")
  /\ UNCHANGED <<problem, flags, incumbent, work, range, pool, cube, half, bound, pruned, complete>>

ExhaustCube(w) ==
  /\ At(w, "search") /\ Open(w) = {}
  /\ complete' = [complete EXCEPT ![w] = TRUE]
  /\ IF Splitter(w) THEN Goto(w, "finish") ELSE Goto(w, "prove")
  /\ UNCHANGED <<problem, flags, incumbent, work, range, pool, cube, half, bound, pruned, found>>

StopSearch(w) ==
  /\ At(w, "search") /\ cancel
  /\ complete' = [complete EXCEPT ![w] = FALSE]
  /\ IF Splitter(w) THEN Goto(w, "finish") ELSE Goto(w, "done")
  /\ UNCHANGED <<problem, flags, incumbent, work, range, pool, cube, half, bound, pruned, found>>

\* proved.store(true); stop().
Prove(w) ==
  /\ At(w, "prove")
  /\ proved' = TRUE /\ cancel' = TRUE
  /\ IF Splitter(w) THEN Goto(w, "loop") ELSE Goto(w, "done")
  /\ UNCHANGED <<problem, incumbent, work, range, pool, locals>>

-----------------------------------------------------------------------------
(* report_improvement.  The solution mutex is held from the comparison to  *)
(* the store of the slot; readers of best do not take it.                  *)

\* Back in the engine, whose own solution is its new cutoff.
ReportDone(w) ==
  /\ bound' = IF w \in Regular THEN [bound EXCEPT ![w] = cost[found[w]]] ELSE bound
  /\ Goto(w, IF w \in Regular THEN "search" ELSE IF w \in Probes THEN "check" ELSE "lns")

ReportImprovement_Unlocked(w) ==
  /\ At(w, "report")
  /\ IF Beats(cost[found[w]], SlotValue)
     THEN /\ best_value' = cost[found[w]]
          /\ lock' = w
          /\ Goto(w, "present")
          /\ UNCHANGED bound
     ELSE ReportDone(w) /\ UNCHANGED <<lock, best_value>>
  /\ UNCHANGED <<problem, flags, best_present, slot, work, range, pool, cube, half, pruned, found, complete>>

ReportImprovement(w) ==
  /\ At(w, "report") /\ lock = NoWorker
  /\ IF Beats(cost[found[w]], SlotValue)
     THEN /\ lock' = w
          /\ best_value' = cost[found[w]]
          /\ Goto(w, "present")
          /\ UNCHANGED bound
     ELSE ReportDone(w) /\ UNCHANGED <<lock, best_value>>
  /\ UNCHANGED <<problem, flags, best_present, slot, work, range, pool, cube, half, pruned, found, complete>>

PublishPresence(w) ==
  /\ At(w, "present")
  /\ best_present' = TRUE
  /\ Goto(w, "slot")
  /\ UNCHANGED <<problem, flags, best_value, slot, lock, work, range, pool, locals>>

StoreSolution(w) ==
  /\ At(w, "slot")
  /\ slot' = found[w] /\ lock' = NoWorker
  /\ Goto(w, "certify")
  /\ UNCHANGED <<problem, flags, best_value, best_present, work, range, pool, locals>>

CertifyImprovement(w) ==
  /\ At(w, "certify")
  /\ IF Certifies(cost[found[w]])
     THEN proved' = TRUE /\ cancel' = TRUE
     ELSE UNCHANGED flags
  /\ ReportDone(w)
  /\ UNCHANGED <<problem, incumbent, work, range, pool, cube, half, pruned, found, complete>>

-----------------------------------------------------------------------------
(* Probe workers.  finish_if_probed and next_probe load the best bound     *)
(* first and the proved range after it, without a lock; only one end of    *)
(* the range ever moves, so its two loads count as one.                    *)

LoadBest(w) == bound' = [bound EXCEPT ![w] = BestLoaded]

Probed_OffByOne(b) ==
  IF b = NoBound THEN lower > upper
  ELSE IF Minimizing THEN lower >= b - 1 ELSE upper <= b + 1

Probed(b) ==
  IF b = NoBound THEN lower > upper
  ELSE IF Minimizing THEN lower >= b ELSE upper <= b

BeginProbe(w) ==
  /\ At(w, "check")
  /\ IF cancel THEN Goto(w, "last") /\ UNCHANGED bound
               ELSE Goto(w, "compare") /\ LoadBest(w)
  /\ UNCHANGED <<problem, flags, incumbent, work, range, pool, cube, half, pruned, found, complete>>

\* finish_if_probed at the head of the loop, and again after it.
FinishIfProbed(w) ==
  /\ At(w, "compare") \/ At(w, "verdict")
  /\ IF Probed(bound[w]) /\ AuxiliaryMayProve
     THEN proved' = TRUE /\ cancel' = TRUE
     ELSE UNCHANGED flags
  /\ Goto(w, IF At(w, "verdict") THEN "done"
             ELSE IF Probed(bound[w]) THEN "last" ELSE "pick")
  /\ UNCHANGED <<problem, incumbent, work, range, pool, locals>>

LoadBestForProbe(w) ==
  /\ At(w, "pick") \/ At(w, "last")
  /\ LoadBest(w)
  /\ Goto(w, IF At(w, "pick") THEN "aim" ELSE "verdict")
  /\ UNCHANGED <<problem, flags, incumbent, work, range, pool, cube, half, pruned, found, complete>>

\* The interval next_probe bisects, given the bound b it loaded.
ProbeLow(b)  == IF ~Minimizing /\ b # NoBound /\ b + 1 > lower THEN b + 1 ELSE lower
ProbeHigh(b) == IF Minimizing /\ b # NoBound /\ b - 1 < upper THEN b - 1 ELSE upper

NextProbe(w) ==
  /\ At(w, "aim")
  /\ LET lo == ProbeLow(bound[w])
         hi == ProbeHigh(bound[w])
     IN  IF lo <= hi
         THEN bound' = [bound EXCEPT ![w] = lo + (hi - lo) \div 2] /\ Goto(w, "probe")
         ELSE Goto(w, "last") /\ UNCHANGED bound
  /\ pruned' = [pruned EXCEPT ![w] = {}]
  /\ UNCHANGED <<problem, flags, incumbent, work, range, pool, cube, half, found, complete>>

RecordProbeUnsat_PastTarget(w) ==
  /\ At(w, "probe") /\ Open(w) = {}
  /\ IF Minimizing
     THEN lower' = (IF bound[w] + 2 > lower THEN bound[w] + 2 ELSE lower) /\ UNCHANGED upper
     ELSE upper' = (IF bound[w] - 2 < upper THEN bound[w] - 2 ELSE upper) /\ UNCHANGED lower
  /\ Goto(w, "check")
  /\ UNCHANGED <<problem, flags, incumbent, work, pool, locals>>

\* The engine found no point as good as the target; fetch_max / fetch_min.
RecordProbeUnsat(w) ==
  /\ At(w, "probe") /\ Open(w) = {}
  /\ IF Minimizing
     THEN lower' = (IF bound[w] + 1 > lower THEN bound[w] + 1 ELSE lower) /\ UNCHANGED upper
     ELSE upper' = (IF bound[w] - 1 < upper THEN bound[w] - 1 ELSE upper) /\ UNCHANGED lower
  /\ Goto(w, "check")
  /\ UNCHANGED <<problem, flags, incumbent, work, pool, locals>>

StopProbe(w) ==
  /\ At(w, "probe") /\ cancel
  /\ Goto(w, "last")
  /\ UNCHANGED <<problem, flags, incumbent, work, range, pool, locals>>

-----------------------------------------------------------------------------
(* LNS workers: a neighbourhood of the incumbent is searched under the     *)
(* shared cutoff; whether it was exhausted only steers the next attempt.   *)

LnsImprove(w) ==
  /\ At(w, "lns") /\ ~cancel /\ slot # NoPoint
  /\ \E p \in Feasible : Beats(cost[p], BestLoaded) /\ found' = [found EXCEPT ![w] = p]
  /\ Goto(w, "report")
  /\ UNCHANGED <<problem, flags, incumbent, work, range, pool, cube, half, bound, pruned, complete>>

LnsStop(w) ==
  /\ At(w, "lns") /\ cancel
  /\ Goto(w, "done")
  /\ UNCHANGED <<problem, flags, incumbent, work, range, pool, locals>>

-----------------------------------------------------------------------------
WorkerStep(w) ==
  \/ Take(w) \/ ChooseLiteral(w) \/ StopSplitting(w) \/ TryPushSplit(w)
  \/ StartSearch(w) \/ TightenBound(w) \/ SyncSharedClauses(w) \/ ExportClause(w)
  \/ FindSolution(w) \/ ExhaustCube(w) \/ StopSearch(w) \/ Prove(w)
  \/ FinishCube(w) \/ NextCube(w)
  \/ ReportImprovement(w) \/ PublishPresence(w) \/ StoreSolution(w) \/ CertifyImprovement(w)
  \/ BeginProbe(w) \/ FinishIfProbed(w) \/ LoadBestForProbe(w) \/ NextProbe(w)
  \/ RecordProbeUnsat(w) \/ StopProbe(w)
  \/ LnsImprove(w) \/ LnsStop(w)

AllDone == \A w \in Workers : pc[w] = "done"

\* Every thread has been joined.
Returned == AllDone /\ UNCHANGED vars

Next == Interrupt \/ (\E w \in Workers : WorkerStep(w)) \/ Returned

Spec == Init /\ [][Next]_vars

\* The operating system runs every thread, and a search of a finite problem
\* ends: each of its steps shrinks what is left.
FairSpec == Spec /\ \A w \in Workers : WF_vars(WorkerStep(w))

-----------------------------------------------------------------------------
(* Properties.                                                             *)

\* Points that would still improve the bound the workers prune with.
Improving == {p \in Feasible : Beats(cost[p], BestLoaded)}

\* Splitting workers that were interrupted: finish(false) drops their cube.
Abandoned == {w \in Regular : Splitter(w) /\ pc[w] \in {"loop", "done"} /\ cube[w] # {}}

\* Splitting loses no part of the problem: a point that would still improve on
\* the shared bound lies in a queued job, in the cube some worker holds, or in
\* the cube an interrupted worker let go (take, try_push_split, finish).
QueueCoversImprovements ==
  \A p \in Improving :
    \/ \E i \in DOMAIN jobs : p \in jobs[i]
    \/ \E w \in Regular : Splitter(w) /\ p \in cube[w]

\* Between needs_split and try_push_split other workers push: the queue and the
\* number of splits stay within their limits all the same.
SplitsBounded == Len(jobs) <= SplitTarget /\ split <= SplitLimit

\* From the cube a splitting worker took to its finish, whatever the outcome.
Reporting == {"report", "present", "slot", "certify"}
Holding   == {"split", "push", "solve", "search", "finish"} \cup Reporting
Holders   == {w \in Regular : Splitter(w) /\ pc[w] \in Holding}

\* A count that is not given back would keep the idle workers waiting in take, and
\* one that is missing would end them, or prove too much, while a cube is searched.
ActiveCountsHolders == active = Cardinality(Holders)

\* The work queue: well formed, bounded, forgetting no improving point, and counting
\* exactly the workers that hold a cube.
WorkQueueInv == TypeOK /\ SplitsBounded /\ QueueCoversImprovements /\ ActiveCountsHolders

\* A clause exported by a worker that searches under a cube, a cutoff or a probe
\* target removes no feasible point for the others (cube_scope, bound_scope).
SharedClausesKeepSolutions == pool \cap Feasible = {}

\* The bound read without the lock is the value of the stored solution whenever
\* no report is in progress (report_improvement, SharedObjectiveBound).
BoundMatchesSolution == lock = NoWorker => BestLoaded = SlotValue

\* The range the probes have ruled out holds no point better than the incumbent,
\* whatever mixture of old and new bounds their target was computed from.
RuledOutRangeIsSterile ==
  \A p \in Improving : lower <= cost[p] /\ cost[p] <= upper

\* A proof means that nothing beats the incumbent, except in the cubes that
\* interrupted workers let go: every role, every race, with or without a stop.
ProofsAreHonest ==
  proved => \A p \in Improving : \E w \in Abandoned : p \in cube[w]

\* What the probe workers exclude and what the run claims from it, together.
ProbedProofsAreHonest == RuledOutRangeIsSterile /\ ProofsAreHonest

\* What the orchestrator makes of the outcome: "proved" is reported as OPTIMAL
\* or UNSATISFIABLE, which "require a complete engine claim" (README.md:48).
ProvedOutcomeIsOptimal ==
  AllDone /\ proved => \A p \in Feasible : ~Beats(cost[p], SlotValue)

\* Every worker comes home: no worker waits for a job that will not come, and
\* the LNS workers, which only stop when told, are told.
Termination == <>AllDone
=============================================================================
