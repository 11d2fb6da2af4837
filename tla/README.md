# A verification project for the qayd constraint solver

qayd turns a semantic model into a compiled problem, plans engines for it, runs
them under one budget, replays their candidates on the semantic model and assigns
a public status.  This directory holds TLA+ modules that model its control, TLC
configurations that check them on small instances, and TLAPS proofs of what
matters most for every value of the constants.  Paths below are relative to the
repository's `src/`; `PROJECT.json` maps every definition to its source lines.

## 1. Inventory

### 1.1 The path of a solve

```
 front ends ─ model ─ validate ─ plan ─┐
                                       v
 caller ──stop flag──> session/solve ── budget (stop, hard stop, reason, limits)
    ^  ^                   │   │            │ derived stops
    │  └── events ── finalize  │            v
    │                          ├──> executor ── worker threads
    │                          │                   │
    │                          │      CP portfolio: work queue, incumbent, bound,
    │                          │      shared clauses, probes, LNS
    │                          │                   │
    │                          │      LCG engine: literals, reasons, clauses
    │                          │                   │
    │                          │      store: domains + propagation queue ── trail
    └────── semantic replay ───┘
```

### 1.2 Components

| component | state | operations | hard behaviour | what makes it right |
|---|---|---|---|---|
| Worker executor `orchestrator/executor.rs` | cancel flag, latest-wins slot, channel, reports | run workers and a monitor in a scope, coalesce progress, collect reports, stop on a verdict or a panic | publishers racing the consumer for one slot; panics; joining | every report once, the last progress not lost, the scope always closes |
| Trail `trail.rs` | values, epoch stamps, undo log, level marks | new_int, get, set, push_level, pop_level | one log entry per level incarnation: stale stamps after pops | a level's closing restores exactly what it saved |
| Integer domain `domains/int.rs` | three layouts over trailed cells | remove, fix, remove_below, remove_above, queries | arrays permuted and never restored; holes left by dead levels; counters | each layout is a set of values with backtracking |
| Store and queue `store.rs`, `propagator.rs` | domains, subscriptions, three FIFOs, enqueued flags, running propagator | the mutators with their wakes, post, enqueue, dequeue, run | which wakes may be skipped; order; a failure in the middle | the fixpoint does not depend on the order, nothing is left to narrow |
| Constraints `constraints/*` | scratch buffers, some trailed integers | propagate, register | holes, overflow, non-idempotent passes | never removes a solution, rejects every full assignment that is not one |
| LCG engine `lcg/*` | literal trail, reasons, clause database, watches, restarts | decide, propagate, analyze, backjump, reduce, assumptions, enumerate | reasons for batched changes; reuse of clause slots; stop in the middle | learned clauses are consequences, searches are exhaustive |
| CP portfolio `engines/cp/portfolio.rs` | work queue, incumbent and bound, certified bound, range of the probes, proved flag | take, split, finish, report, probe, LNS | a cube interrupted while another finishes; bounds read at different times; scoped clauses shared | a proof is claimed only for what was searched; all workers end |
| Incremental adapter `engines/cp/incremental.rs`, session | worker ids, persistent clause pool | epochs under assumptions | clauses that outlive their solve | nothing learned in one epoch is wrong in the next |
| Budget `orchestrator/budget.rs`, `verify.rs` | stop, hard stop, reason, timer, derived stops | cancel, deadline, early cutoff, replay with grace | every flag is written by several threads, one atomic operation at a time | a cancellation is final and visible; a cutoff stays local; the request ends |
| Process memory limit `budget.rs`, `mem.rs` | registry of limits, process limit, reference counts | configure, monitor, drop | the last handle is decided by a count the monitor shares | a running solve keeps its limit; no finished one leaves any |
| External stop and publication `orchestrator/{solve,session,finalize}.rs` | caller's flag, monitor, sink, final events | monitored solve, publish, decide | a stop racing the evidence; sinks that stop or fail | evidence already handed over is kept, a stop before it wins |
| SAT engine `engines/sat/*` | clauses, eliminated variables, proof | preprocess, solve, reconstruct | reconstruction order | models of the reduced formula extend to the original |
| MUS `mus.rs`, diagnostics | selectors, cores | shrink, QuickXplain, MARCO | interruption at any query | minimality is claimed only when proved |
| Structured engines `engines/{dual,linear,linear_lift,list_exact,routing,schedule}.rs` | relaxations, search trees | bounds, branch and bound | arithmetic at large magnitudes | bounds are valid |
| Local search `engines/ls/*` | assignments, elites, shared incumbent | moves, portfolio | incremental scores; the shared incumbent | candidates are replayed before they count |
| Solve plans `orchestrator/solve.rs`, `model/decompose.rs` | plan, components, what was found, bounded and proved so far | cut a model, check the coverage, run the components in stages, merge | index maps of five arenas; a deadline between two components; tiers of different components | the merged answer is one about the whole model |
| Orchestrator routing `orchestrator/{cp,sat,collection,integer_search,plan,types}.rs` | plan, hand-over, deferred dual bound | route, assign statuses | a dual worker waiting on a condition variable | only complete claims become OPTIMAL or UNSATISFIABLE |
| Model and compilers `model/*`, external functions | immutable data; four permits for abandoned calls | validate, lower, evaluate | stuck callbacks | lowering keeps the solutions |
| Front ends, command line | none | parse, print | input formats | round trips |

`PROJECT.json` lists them all, modelled or not, with the reason, and the hazards
of the code, each at its line.

## 2. The modules

### 2.1 What models what

| module | code | state | actions or operators |
|---|---|---|---|
| `Executor` | executor.rs | pc of main, monitor and each worker, cancel, slot, notified flag, channel, reports | one per atomic operation: lock-protected store, send, receive, load of a flag, drop of a sender |
| `ExecutionScope` | its contract | reports collected, cancelled, open | the abstract steps a caller may rely on |
| `Trail` | trail.rs | the four vectors and the epoch counters in a record | Allocate, Write, Push, Pop over pure operators |
| `ReversibleState` | its contract | a stack of whole copies | the same four |
| `SparseSetDomain`, `BoundsDomain`, `IntDomain` | domains/int.rs | dense permutation or bounds with a hole vector, over trailed cells | every mutator of each layout, level changes |
| `ReversibleDomain` | their contract | a set of values with saved copies | the filtering calls in one step each, save, restore |
| `Store` | store.rs | domains, three queues, enqueued flags, the buffer of explained events | the mutators with their wakes and reasons |
| `Primitives`, `Linear` (with counting), `Sequencing`, `Tables`, `Lists`, `Scheduling` (with intervals) | constraints/*.rs | | for every propagator of the file: its meaning, its subscriptions, its filtering in the order of its changes, its reasons |
| `Expressions`, `Intension` | expr.rs, constraints/intension.rs | | values, intervals and linear forms of expression trees; posting, filtering and exact check |
| `Replay` | orchestrator/verify.rs | | what the canonical replay accepts, constraint by constraint |
| `Lowering` | model/cp_compile.rs | | what compilation posts for each constraint of a model |
| `Propagation` | store.rs, propagator.rs | | posting, guards, the run of one propagator, the network's dispatch |
| `Enumeration` | `Cdcl::enumerate`, `Cdcl::propagate` | phase, open levels, reported solutions, stop | propagate one, reach the fixpoint, abandon, decide, report, backtrack and forbid |
| `ExhaustiveSearch` | its contract | domains, open levels, the solutions to find and those reported | the same search over any filtering that loses no solution: filter, notice a fixpoint or a conflict, decide, report, backtrack |
| `ClauseTrail` | lcg/{lit,view,clause,trail}.rs | literal trail with levels and reasons, clause arena with its free list, watches, binary implications | enqueue, unit propagation, the turn that runs one propagator and records its events |
| `ConflictAnalysis` | `resolve_conflict` of lcg/trail.rs | | first-UIP analysis, minimization, vivification, publication, assertion |
| `Learning` | lcg/{trail,engine}.rs | the engine, its task, its answer | one action per turn of the searches: decide, propagate, resolve, restart, reduce, import, answer, stop |
| `Portfolio` | cp/portfolio.rs with the engine's contract | queue, split counters, incumbent with its lock, bound, certificates, probe range, shared clauses, proved, per-worker locals | one per atomic operation of the roles: regular, splitting, probe, LNS |
| `Budget` | budget.rs, verify.rs | stop, hard stop, reason, timer, three derived stops with their threads, request | cancel_with in four steps, the timer's four, the children's, the request's phases |
| `MemoryLimits` | budget.rs, mem.rs | registry, process limit, monitors, counts | configure, run, drop, monitor rounds |
| `SolveProtocol` | solve.rs, session.rs, finalize.rs | caller's flag, monitor, sink calls, published events, outcome | search events, the final sequence, the decision |
| `ExternalCalls` | model/list/external.rs | active permits, per call its stop flag, its thread and its channel | the checks, the acquisition, the spawn, the poll, the evaluator's end, the permit's drop |
| `Mus` | mus.rs, diagnostics.rs | working set, blocks of the map, the sets found | trim, QuickXplain, the map's seeds, growing and blocking, interruption |
| `Collections` | model/list/{mod,verify}.rs, model/compile.rs | | what reductions over lists and schedules mean, the physical model, its replay |
| `Decomposition` | model/decompose.rs, orchestrator/verify.rs | | scopes, components, renaming of constraints and objectives, coverage, replay by component |
| `SolvePlan` | orchestrator/solve.rs, types.rs | plan, engines of the present component, warm start, what is gathered, verdict | compile the plan, divide, run a stage, hand over, gather, announce, merge |
| `ListSearch` | engines/ls/lists/portfolio.rs, local_search.rs, collection.rs | per worker its solution and generation, shared incumbent, callback slot, dual gate | construct, move, share, inject, escape, report, the dual worker's wait |

`ExecutorProofs`, `StorageProofs` (trail and integer domain), `BudgetProofs`,
`PortfolioProofs`, `EnumerationProofs` and `RequestProofs` (memory limits, external
calls, publication, list search, diagnosis) hold the theorems; `MCStorage`,
`MCEnumeration`, `MCLearning`, `MCPortfolio` and `MCRequest` the instances that TLC
checks.

Definitions keep the names of the code where TLA+ allows it.  An operator whose
name ends in a capitalised defect after an underscore (`PopLevel_KeepsEpoch`) is a
deliberately wrong variant that stands before the definition it spoils: putting it
in the place of that definition makes a property fail, which shows that the
property depends on the code being as it is.

The granularity is that of the code's shared operations.  In the threaded modules a
step is one atomic load, store, read-modify-write or critical section; code between
two of them that touches only local state is part of the next step.  The
sequential modules (`Trail`, `IntDomain`, `Enumeration`, `Learning`, `Mus`) take a
whole call, or the run of one propagator, as a step; the removal loops of a sparse set
take one step per iteration.

### 2.2 How they fit together

`Executor` gives each portfolio worker its thread, its cancel flag and its way to
report; `Portfolio` keeps of it the cancel flag and the end of the workers.  `Budget`
gives the stop flags that both poll; in them a stop is a flag that may rise at any
moment, which covers every budget.  `SolveProtocol` is the caller's side of the same
budget.  `Portfolio` treats a search as its contract: it finds improving points in
any order and is complete when none is left.  `Learning` is what justifies that
contract, for each kind of search, and the contract that `Mus` has of its oracle.

`SolvePlan` stands above them: it cuts the model with `Decomposition`, gives each part to
an engine, and merges what the engines answer.  An engine there is any engine that is
honest about the model it is given, which is what the modules of the engines (and, for
candidates, `Replay` and `Collections`) are about; the plan is right if honest engines
make an honest answer.

The store's side is one chain.  A model's constraint has the meaning that `Replay`
gives it; `Lowering` turns it into posts; each posted propagator lives in the module
of its source file, over the mutators of `Store`; `Propagation` runs them under the
banded queue; `Enumeration` searches without learning, `Learning` with it.  Domains
are sets of values because `IntDomain` implements such sets, and levels are saved
copies because `Trail` implements a stack of copies.  Because the enumeration
compares its solutions with those that `Replay` accepts, one property ties
compilation, propagation, search and replay together.  `Enumeration` also implements
`ExhaustiveSearch`, which knows nothing of propagators but that they lose no solution
and reject every full assignment that is none; that is where the search itself is
proved right.

## 3. What is checked

`CHECK_DEADLOCK FALSE` is set in `Executor.cfg`, `MCRequest.cfg` and in the leak run:
a returned call has no further step.  Everywhere else a state without successor would
be reported.

| run | instance | properties and what they show |
|---|---|---|
| `executor` | two workers that publish up to three events, panicking workers and handlers, both entry points | `ExecutorInv` (the slot, its flag and the messages in flight agree, reports are lossless), `ImplementsScope` (refines `ExecutionScope`), `HandlerVerdictIsFinal` (no event after the handler's stop), `StopEndsTheCall`, `ProgressIsTaken` (an event left in the slot is consumed) |
| `storage` | two trailed cells with two values and three level openings; domains whose roots lie within five values, every layout that fits, arguments one outside, two levels | `TrailInv`, `ImplementsSnapshots` (refines `ReversibleState`), `RepresentationAgrees` (permutation, extremes, hole counts), `ImplementsDomain` (refines `ReversibleDomain`) |
| `enumeration` | networks with every kind of integer, set, list and interval constraint, but minimum, maximum and the cases listed in section 5, over up to five variables with values within 0..2 and holes, guarded and reified ones, one queue or three, every branching, for three groups of networks a stop at any time | `QueueInv`, `FixpointIsCanonical` (the queue reaches the fixpoint of exhaustive rounds), `EnumerationIsExact` (solutions that replay accepts only, once each, all of them), `ExplanationsHold` (every reason given entails its change), `ImplementsSearch` (refines `ExhaustiveSearch`, and ends) |
| `enumeration_minimum`, `enumeration_selected` | y = min(x1, x2); a guarded constraint that subscribes to nothing | violations, see 5 |
| `learning` | networks of four variables, tasks of every kind: cubes, assumptions, improving and imported bounds, a conflict budget, imported clauses, one restart with or without reduction, a stop at any time | `TrailMirrorsDomains`, `ReasonsAreJustified` (every reason entails its literal and was true before it), `ClausesAreConsequences`, `NothingIsMissed` (no unit or conflicting clause escapes a fixpoint), `LearnedClausesAssert`, `AnswersAreRight` (each answer of each search), `SearchEnds` |
| `portfolio_split` | two interchangeable splitting workers, four points in every split, every cost in 1..2 or infeasible, the bound 2 certified or none | `WorkQueueInv` (what may still improve is in a job, in a held cube or dropped by an interrupted worker, and the active count, on which idle workers wait, is that of the held cubes), `BoundMatchesSolution`, `ProofsAreHonest` |
| `portfolio_roles` | a proving, a probe and an LNS worker, objective 1..3, the bound 2 certified or none, with and without an explicit policy | `SharedClausesKeepSolutions` (no shared clause removes a feasible point), `ProbedProofsAreHonest`, `Termination` |
| `portfolio_claim` | the split run with two points | violation, see 5 |
| `budget` | a cancelling thread, the memory monitor, the timer, three derived stops, no limit, a zero limit and a timed one | `BudgetInv`, `ReasonEscalates`, `RequestEnds` |
| `memory_leak` | two solves with limits of 1 or 2 or none | violation, see 5 |
| `request` | what surrounds a request, one part at a time, see below | ten properties, see below |

The parts of `request`, each alone in its behaviours:

* the caller of `solve_model` or of a session, two events while searching, a sink that
  continues, stops or fails: `EvidenceIsKept`, `ConsumerStopIsTerminal`,
  `StopBeforeEvidenceWins` (evidence handed over is never withdrawn, a stop before it is
  never overtaken);
* two solves of one process with memory limits: `RunningLimitEnforced`;
* three external calls with two permits, evaluators that return, panic or hang:
  `PermitsAreExact`;
* the diagnosis of an infeasible model, one core of up to four selected constraints or
  every core of three, with every family of inconsistent sets and every participating
  part as the oracle's answer, and an inconsistent root that `init` refutes or leaves to
  search: `LandscapeIsExact` (an extraction over such a root apart, see section 5);
* one or two workers of a list search over three candidate solutions, with a callback
  that answers, stops or panics, and a dual bound that waits: `AnswersKeepIncumbents`
  (the answer is no worse than any incumbent reported), `BoundWaitsForIncumbent`;
* nineteen requests about small models of integers, sets, lists and intervals (with
  assumptions, required proofs, a deadline, a limit of conflicts), every honest outcome
  of every engine: `PlanIsHonest` (the merged answer solves the model it was asked about,
  an optimum cannot be beaten on all tiers together, an infeasible answer, every bound
  and every announced value are true of the whole model);
* all but the plan: `EveryPartEnds`.

### Bounds

* Executor: two publishers and one consumer are all the roles around the one slot; a
  third event lets a publisher run once before, once during and once after a take.
* Trail: three openings (`MaxEpochs`) are enough for a level to be closed, another
  opened at its depth, and both to be below a third; the proof covers the rest.
* IntDomain: five values give interior holes on both sides of a fixed value and moves
  of a bound over two holes; two levels (`MaxLevels`) give a dead level under a live
  one.
* Enumeration: three to five variables give chains of wakes through two propagators and
  a propagator that is woken while it waits; holes are in the roots.  Values stay in
  0..3 (and -1..1 for signs), so nothing here speaks of overflow.  A stop acts on the
  search loop alone, whatever is propagated, so it is only raised (`Stoppable`) for the
  binary, the conditional and the clausal networks.
* Learning: one restart (`Restarts`), conflict budgets of a few conflicts (99 stands for
  none), four variables: enough for backjumps over a level, for a learned clause that
  propagates, is a reason, is deleted and has its slot reused.
* Portfolio: `SplitTarget` and `SplitLimit` are 2 and 4 times the workers in the
  code; here 1 and at most 2, so that both the refusal of a split and the limit are
  reached.  Four points are split three times at most.
* Budget: one caller and the monitor make two racing cancellations with different
  reasons, beside the timer and the children of all three derived stops.
* SolveProtocol: events sent while searching differ only in the answer they get, so
  two (`MaxTransfers`) are one before and one after a stop.
* ExternalCalls: three calls and two permits (`MaxDetached`, four in the code): one call
  is refused while abandoned evaluators hold the permits.
* Mus: extraction over one or four constraints (`ExtractSizes`), enumeration over none
  or three (`EnumerateSizes`), stopped after two results or never (`FoundLimits`).
* ListSearch: crews of one and two, one iteration of the outer loop each, candidates
  given by their cost vector over two tiers; the proof covers any number of each.
* SolvePlan: models of at most four variables of one kind, which divide into two or three
  components, or none; `MaxDeadlineComponents` is 1 (16 in the code), so that timed
  requests are found on both sides of it.

Time is abstract everywhere: an armed timer may expire at any moment.

### Fairness

* `Executor`: the caller's thread and the monitor are scheduled, a worker that has
  begun to publish or to drop its sender goes on.  A worker is only required to
  finish once `cancel` is raised: the executor cannot make a worker return before.
* `Portfolio`: each worker thread is scheduled, and a search under way ends: it is a
  finite tree.  No fairness is given to finding a solution, to splitting or to
  imports.
* `Budget`: threads are scheduled, armed timers expire, and an operation of the
  request ends once its flag is raised (engines poll it).  A replay is not required to
  end otherwise.
* `request`: started solves end and monitors are scheduled; the sink returns and the
  search ends once it is hard-stopped; an external call's caller polls, its evaluator
  is never required to return; the diagnosis and the list workers run.
* `Enumeration`, `Learning`: the search thread runs; raising the stop, finding clauses
  to import or restarting is never required.

## 4. What is proved

The proofs are in modules of their own; `tlapm` checks every leaf.  They hold for all
values of the constants under the named assumptions in the modules
(`ExecutorAssumption`, `TrailAssumption`, `SparseSetAssumption`, `BudgetAssumption`, `PortfolioAssumption`,
`MemoryAssumption`, `ExternalAssumption`, `ProtocolAssumption`, `ListSearchAssumption`,
`MusAssumption`),
which TLC evaluates in each run.

* `ExecutorProofs`, for any finite set of workers and any number of events.
  `ExecutorInv` is inductive: besides types it says which of the slot, the flag, the
  messages and the control points of publishers and of the consumer account for an
  event, since "notified" is set under the lock and the message is sent later;
  without the clause about the publisher that has still to send, `ProgressIsNotLost`
  is not inductive.  From it: at most one progress message in the channel
  (`ProgressChannelIsBounded`), a stored event is always announced
  (`ProgressIsNotLost`), `ReportsAreLossless`, `ScopeIsClosed`, and
  `ExecutorImplementsScope`: initial states and steps map to those of
  `ExecutionScope`.  `VerdictIsFinal` needs only that the handler runs while there is
  no verdict.
* `StorageProofs`, for the two parts of the reversible storage:
  * the trail, for any cells, any values and any number of levels.  `TrailInv`: stamps
    never come from the future, epochs of open levels increase, marks are ordered, and a
    cell stamped with the epoch of an open level is logged in that level's segment.  That
    last clause is what makes skipping a log entry harmless, and the increase of epochs
    keeps a stamp of a closed level from passing for an open one.
    `TrailImplementsSnapshots` shows the refinement: replaying the log gives each saved
    copy;
  * the integer domain, for any finite universe, any inputs and any number of levels, in
    the three layouts.  `RepresentationsAgree` needs more than what it says, which
    `DomainInv` adds.  For a sparse set: the saved sizes only grow outwards, so that a
    swap below the present size keeps each saved prefix the same set; what a removal
    loop has already visited; and that a loop that was started does remove something,
    or its answer would be wrong.  That the constructors' arrays are inverse is the
    pigeonhole principle (an injection between sets of one size is onto).  For the
    bounds layout: no hole is recorded twice in a visible prefix, the count is that of
    the holes between the bounds, neither bound is a hole, and the saved prefixes only
    grow inwards, so that the slot that is overwritten belongs to none of them.
    `SizeCounts` derives the exact size, `SetMinEffect` and `SetMaxEffect` what a moving
    bound does to the count.  `DomainsKeepTheirPromise` is the refinement of
    `ReversibleDomain`: one lemma per call gives the promised set, the saved sets and
    the answer after it; the iterations of a loop are stutters.
* `BudgetProofs`, for any number of cancelling threads.  `BudgetInv` adds to the
  properties what every thread knows at its control point (after its swap the reason
  is not Running; the timer that stores a stop has seen a reason).  From it
  `CancelsAreHard`, `CancelsAreVisible`, `StopsHaveReasons`, `CutoffsStayLocal`, and
  the action property `ReasonsEscalate`.
* `PortfolioProofs`, for any finite set of workers in the three roles, any points and
  costs, either direction, any limits of the queue.  `ProofsAreHonest` is far from
  inductive, since there are four ways to a proof (a worker of the whole problem that
  ends, the last of the splitting workers, a probe that closes the range, a report that
  reaches the certified bound) and each relies on what other workers did earlier.
  `PortfolioInv` has three layers.  `PublicationInv`: a report is three writes under the
  lock, after which the incumbent has only improved; so every bound that some worker
  still holds from an earlier load is one the incumbent has reached, and pruning with it
  loses nothing.  `EvidenceInv`: the certified bound, the shared clauses and the range
  ruled out by probes exclude no point that would improve.  `WorkInv`: `active` is the
  number of workers that hold a cube, and every improving point is in a queued job, in a
  held cube, or in one that an interrupted worker let go; without the equality with the
  holders "active is zero" says nothing about the cubes.  The assumption `SplitTarget`
  at least 1 is that of the code, where it is twice the number of splitting workers.
  From it `WorkQueueIsSafe`, `BoundIsTheSolutions`, `SharedClausesAreSound`,
  `ProofsAreAlwaysHonest` and `ProbesAreHonest`.
  `ProvedIsOptimalUnlessStoppedSplitting` bounds the finding of `portfolio_claim`: if
  the portfolio does not split, or the caller never stops it, a proved outcome is
  optimal.  It adds to the invariant that a cube is only let go under a cancellation and
  that without the caller's stop only a proof cancels.  Two theorems are about reports
  and not about proofs: `BoundOnlyImproves`, an action property (the bound read without
  the lock is never withdrawn and never worse), and `NoSolutionIsLost` (outside a report
  the stored solution is at least as good as any that a worker reported), for which the
  invariant also remembers that a report that was refused had been beaten.
* `EnumerationProofs`, for any variables, any values, any set of solutions, every
  branching and any filtering that loses none of them: `EnumerationIsOnceAndAll`.  The
  invariant places each solution: it has been reported, or it is in the present domains,
  or it is on the forbidden side of the decision of exactly one open level.  "Exactly"
  is what makes it reported once, "one of the three" what makes an exhausted search
  complete.  Filtering may only shrink the present domains around the solutions left in
  them, and backtracking gives the last level's other side back.  That the real
  propagators are such a filtering is what `ImplementsSearch` checks on every network of
  the run `enumeration`.
* `RequestProofs`, for the parts of a request:
  * any finite set of solves with any limits: `LimitsEnforced` and `LeaksNeedMonitors`,
    from an invariant that the process limit is the least registered one and that a
    running solve's entry is registered;
  * any finite set of external calls and any number of permits: `PermitsAreCounted`.
    The invariant names the holders (`Holders`): a caller between the acquisition and the
    spawn, then the evaluator's thread until its permit is dropped.
  * any number of events published while searching: `EvidenceStays`,
    `ConsumerStopEndsAll` and `StopIsNotOvertaken` (the safety half of
    `StopBeforeEvidenceWins`, an action property).  Besides types the invariant says that nothing is delivered
    before the result is there except transfers, that all answers were "Continue" while
    more may follow, and that evidence seen is evidence counted;
  * any number of workers of a list search over any solutions with two tiers:
    `NoIncumbentIsLost` and `BoundStartsLate`.  The steps of a worker are first shown
    to be of four kinds (`WalkersMove`): it records an improvement, builds a first
    solution, publishes what it has, or changes nothing that others see.  Then
    incumbents only improve (`BestKept`), so what one of them covered stays covered:
    the shared incumbent, the value in the slot, the value in the callback and those
    told.  A lone worker reports its own incumbent, which is why what it tells falls
    without a comparison; several go through the slot, whose handler compares.
    `ChosenIsBest` shows that the answer collected is beaten by no worker's.
  * any number of selected constraints and any upward closed family of inconsistent
    sets: `DiagnosisIsExact`.  Every set reported is inconsistent, and minimal unless an
    extraction met an inconsistent root.  `QuickXplain` and the growing of a seed are recursive
    functions; that they are defined, and what they compute, is shown by taking a least
    question for which it fails (the order of the naturals is well founded): the two
    halves of a set are smaller and not empty, so the answers to smaller questions are
    there and are right (`QuickXplainAnswers`, `QuickXplainIsRight`, `GrowIsMaximal`);
    over spurious models they are at least parts of the candidates (`AnswersAreParts`).
    The invariant of the enumeration says that each block of the map is one of the sets
    found; a map without a seed left therefore means that every minimal inconsistent and
    every maximal consistent set has been found (`ExhaustedMapIsWhole`).

Only model-checked:

* liveness under fairness, which is out of the prover's reach;
* what the propagators, the posting, the learning engine and the plan compute
  (`QueueInv`, `FixpointIsCanonical`, `EnumerationIsExact` and `ExplanationsHold`, the
  invariants of `Learning`, `PlanIsHonest`), and with it that `Enumeration` implements
  `ExhaustiveSearch`: these modules work on expression trees, constraints and models with
  RECURSIVE operators, which the SMT backend does not take, and with folds over an
  operator, which no prover here can instantiate.

## 5. What the checks found

* `enumeration_minimum` (`EnumerationIsExact` violated).  `Extremum::propagate` makes
  one pass from bounds it read at its start.  With y fixed to 1 and x1, x2 in {0, 2} it
  removes the values below 1, which raises both to 2, and ends: y = 1 is no longer
  their minimum.  A propagator is not woken by its own changes, so nothing looks
  again, and the assignment is reported.  `propagator.rs:84` requires propagators to be
  idempotent, and the tests of `minimum` compare the enumeration with an oracle, on
  contiguous domains, where the pass is idempotent.  In a full solve the semantic
  replay would reject the candidate.
* `enumeration_selected` (`ExplanationsHold` violated).  `InSet` and `Instantiation`
  subscribe to nothing and are only marked relevant, so under a selector their scope is
  the selector alone.  When one fails because its variable lost its value, the
  whole-scope reason names the selector only, which rules the selector out for good;
  `propagator.rs:157-158` and `mus.rs:9-10` say otherwise.
* `portfolio_claim` (`ProvedOutcomeIsOptimal` violated).  A worker that a stop
  interrupts gives its cube up without putting it back; when the other worker then
  finishes its own cube, the queue looks exhausted and the whole search is claimed as
  proved.  `ProofsAreHonest`, in the passing runs, shows that this is the only way: a
  claim is right except for the cubes that interrupted workers dropped; and
  `ProvedIsOptimalUnlessStoppedSplitting` proves that it takes both the splitting and the
  caller's stop.
* `memory_leak` (`NoPressureWithoutLimit` violated).  A solve that ends while its
  monitor waits leaves its entry in the registry for good, and later solves without a
  limit see pressure.  `LeaksNeedMonitors`, proved, shows that this is the only way.

Met while modelling, and not given a run of their own.  Two are in the instances, and
excused by a clause of the property:

* An extraction over an inconsistent root.  `extract_mus` reports a "minimal
  unsatisfiable subset", "Empty means the root (non-selected) constraints are already
  unsatisfiable" (`mus.rs:64-65`), but it never asks for the root alone as
  `enumerate_mus` does (`mus.rs:337-350`): a root that only search refutes goes on with
  whatever core `resolve_assumptions` names (`mus.rs:99-109`), and `quickxplain` returns a
  lone candidate without testing the empty background (`mus.rs:264`).  Four variables in
  1..3, a disequality for every two of them at the root, and one selected constraint that
  fixes two of them to different values: the core is that selector, and so is the reported set, although the
  empty set is inconsistent.  `LandscapeIsExact` asks for minimality unless `RootUnasked`.
* A decomposed plan may hand progress to the caller before a later component without
  objectives is solved, so that it can belong to an infeasible model, although the
  comment at `solve.rs:802` calls it safe at the parent's boundary.  `PlanIsHonest` asks
  of announced values only what they say of a feasible model (the instance `Hopeless`).

The others are kept out of the instances, so that the passing runs pass:

* `NoOverlap` with a task of no duration: the engine ignores it (`interval.rs:366`), the
  replay refuses it strictly inside another task (`verify.rs:1326`).
* A `Circuit` of one node: the replay accepts the self-loop, the engine removes it.
* `Regular` with two transitions for one state and symbol: the replay takes the first.
* `SetSubset` with a required member the superset cannot have: a compilation error where
  the model is infeasible.
* `Channel`: the replay checks one direction only.
* `Regular`, `Mdd` and `Extension` over a scope that lists a variable twice: one pass is
  not idempotent, and a non-solution can be reported.
* Intension: `y = x mod z` and `x div z` with z = 0 have bounds (0, 0) that entail before
  the exact check; `imp` of a condition and an integer has unsound raw bounds; `and` and
  `or` with an undefined operand differ between replay and kernel.
* The comment of `trail.rs:23-24` says that every opened level takes a fresh epoch so
  that stamps of closed levels never match; `EpochsStayFresh` proves the form that
  holds, with the enclosing level's epoch restored on a pop.
* The executor's progress slot is shared by all workers: the latest event of any of them
  wins (`executor.rs:3-7` speaks of the latest).
* With `proof=Require`, a decomposed model that has a satisfiable component without
  objectives always ends in "a required proof was not produced": the component inherits
  the requirement (`solve.rs:552`) and `solve.rs:783` refuses its SATISFIABLE answer.

## 6. What is not modelled, and why

* The compact evaluation of guarded sums, relaxation rows and the linear relaxation, the
  guards against overflow: numerical code whose cases lie at magnitudes that TLC cannot
  enumerate.
* Structured exact engines (routing, schedules, dual bounds) and the moves of local
  search: numerical code on large data; what they find is replayed before it counts.
* The SAT engine's preprocessing and proof log, and the incremental adapter: see the plan.
  Of the orchestrator's planning: SAT plans, estimates of memory, quotas of iterations
  and conflicts, and the controls that only guide a search.
* Front ends, printing, parsing: input and output.
* The ring through which clauses are exchanged: `Portfolio` has a set of shared clauses
  imported as a whole at any moment.
* Atoms numbered on demand for wide domains, branching heuristics (any choice).
* Weak memory: the flags are single atomics with Acquire/Release or are read under a
  mutex; steps are interleaved sequentially.  Relaxed loads of the stop flag are
  delayed reads of a flag that only rises.
* The worker and iteration quotas (a conflict limit disables splitting, probes and
  LNS), process crashes (nothing is persisted).

## 7. Plan

The order puts the behaviour that decides public statuses first.

1. Done: everything in 2.1; proofs for the executor, the trail, the integer
   domain, the budget, the portfolio, the enumeration's search and five parts of a
   request.
2. `ClauseExchange`: the ring with its cursors under the pool abstraction that
   `Portfolio` uses, shown to implement it.
3. `Session`: epochs under assumptions over one persistent pool, the lowest-worker
   incumbent, worker ids.
4. Pure algorithms against reference definitions: quotas and normalization of the
   portfolio's options, SAT preprocessing with reconstruction.
5. Proofs: further action properties of `Budget`; an abstract specification of the
   learning search, as `ExhaustiveSearch` is of the enumeration; that the store's domains
   may be used through `ReversibleDomain`.
