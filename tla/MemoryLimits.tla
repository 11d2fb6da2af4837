---------------------------- MODULE MemoryLimits ----------------------------
(***************************************************************************)
(* The process-wide memory limit: configure_memory_limit, the memory       *)
(* monitor's hold on its budget and Drop of src/orchestrator/budget.rs,    *)
(* with the limit of src/mem.rs they install.                              *)
(*                                                                         *)
(* Concurrent solves register their limits in one map; the process limit,  *)
(* which every engine's degrade policy reads, is the least of them.  A     *)
(* budget is reference counted: the solve holds one count, and its monitor *)
(* thread holds another while it looks at the budget.                      *)
(***************************************************************************)
EXTENDS Naturals, FiniteSets, FiniteSetsExt

CONSTANTS
  Solves,   \* the requests of one process
  Bytes     \* the memory limits they may ask for

ASSUME MemoryAssumption == IsFiniteSet(Solves) /\ Bytes \subseteq Nat \ {0}

VARIABLES
  solve,         \* where each solve is in its life
  memory_limit,  \* BudgetInner.memory_limit, 0 for none
  hard_stops,    \* BudgetInner.hard_stop
  woken,         \* TimerSignal.stopped
  monitors,      \* the monitor thread of each solve
  registry,      \* ACTIVE_MEMORY_LIMITS, 0 for an absent key
  process_limit  \* LIMIT

registryVars == <<solve, memory_limit, hard_stops, woken, monitors, registry, process_limit>>

RegistryTypeOK ==
  /\ solve \in [Solves -> {"idle", "register", "spawn", "running", "unregister", "wake", "release", "gone"}]
  /\ memory_limit \in [Solves -> Bytes \cup {0}]
  /\ hard_stops \in [Solves -> BOOLEAN] /\ woken \in [Solves -> BOOLEAN]
  /\ monitors \in [Solves -> {"none", "between", "check", "wait", "gone"}]
  /\ registry \in [Solves -> Bytes \cup {0}]
  /\ process_limit \in Bytes \cup {0}

RegistryInit ==
  /\ solve = [s \in Solves |-> "idle"]
  /\ memory_limit = [s \in Solves |-> 0]
  /\ hard_stops = [s \in Solves |-> FALSE] /\ woken = [s \in Solves |-> FALSE]
  /\ monitors = [s \in Solves |-> "none"]
  /\ registry = [s \in Solves |-> 0] /\ process_limit = 0

Registered == {s \in Solves : registry[s] # 0}

\* update_process_memory_limit: the map and the limit change under one lock.
UpdateProcessLimit(s, bytes) ==
  /\ registry' = [registry EXCEPT ![s] = bytes]
  /\ process_limit' = LET set == {registry'[t] : t \in Solves} \ {0}
                      IN  IF set = {} THEN 0 ELSE Min(set)

-----------------------------------------------------------------------------
(* The solve: it configures its budget, runs, and drops it.                *)

Move(s, from, to) == solve[s] = from /\ solve' = [solve EXCEPT ![s] = to]

Configure(s, bytes) ==
  /\ Move(s, "idle", IF bytes = 0 THEN "running" ELSE "register")
  /\ memory_limit' = [memory_limit EXCEPT ![s] = bytes]
  /\ UNCHANGED <<hard_stops, woken, monitors, registry, process_limit>>

Register(s) ==
  /\ Move(s, "register", "spawn")
  /\ UpdateProcessLimit(s, memory_limit[s])
  /\ UNCHANGED <<memory_limit, hard_stops, woken, monitors>>

\* A budget that is over its limit at once is cancelled and gets no monitor; nor
\* does one whose memory cannot be measured.
Spawn(s) ==
  /\ Move(s, "spawn", "running")
  /\ \/ hard_stops' = [hard_stops EXCEPT ![s] = TRUE] /\ woken' = [woken EXCEPT ![s] = TRUE]
        /\ UNCHANGED monitors
     \/ monitors' = [monitors EXCEPT ![s] = "between"] /\ UNCHANGED <<hard_stops, woken>>
     \/ UNCHANGED <<monitors, hard_stops, woken>>
  /\ UNCHANGED <<memory_limit, registry, process_limit>>

\* cancel_with, from any thread, for any reason but a deadline.
Cancel(s) ==
  /\ solve[s] = "running"
  /\ hard_stops' = [hard_stops EXCEPT ![s] = TRUE] /\ woken' = [woken EXCEPT ![s] = TRUE]
  /\ UNCHANGED <<solve, memory_limit, monitors, registry, process_limit>>

\* Arc::strong_count at the start of Drop: the monitor counts while it holds.
StrongCount(s) == (IF solve[s] = "gone" THEN 0 ELSE 1)
                  + (IF monitors[s] \in {"check", "wait"} THEN 1 ELSE 0)

Drop(s) ==
  /\ Move(s, "running", IF StrongCount(s) # 1 THEN "release"
                        ELSE IF memory_limit[s] > 0 THEN "unregister" ELSE "wake")
  /\ UNCHANGED <<memory_limit, hard_stops, woken, monitors, registry, process_limit>>

Unregister_ClearsProcessLimit(s) ==
  /\ Move(s, "unregister", "wake")
  /\ registry' = [registry EXCEPT ![s] = 0] /\ process_limit' = 0
  /\ UNCHANGED <<memory_limit, hard_stops, woken, monitors>>
Unregister(s) ==
  /\ Move(s, "unregister", "wake")
  /\ UpdateProcessLimit(s, 0)
  /\ UNCHANGED <<memory_limit, hard_stops, woken, monitors>>

Wake(s) ==
  /\ Move(s, "wake", "release")
  /\ woken' = [woken EXCEPT ![s] = TRUE]
  /\ UNCHANGED <<memory_limit, hard_stops, monitors, registry, process_limit>>

Release(s) ==
  /\ Move(s, "release", "gone")
  /\ UNCHANGED <<memory_limit, hard_stops, woken, monitors, registry, process_limit>>

-----------------------------------------------------------------------------
(* The monitor: each round upgrades its weak reference, and lets go of the  *)
(* budget only after its wait.                                              *)

MoveMonitor(s, from, to) == monitors[s] = from /\ monitors' = [monitors EXCEPT ![s] = to]

Upgrade(s) ==
  /\ MoveMonitor(s, "between", IF StrongCount(s) = 0 THEN "gone" ELSE "check")
  /\ UNCHANGED <<solve, memory_limit, hard_stops, woken, registry, process_limit>>

Check(s) ==
  /\ \/ hard_stops[s] /\ MoveMonitor(s, "check", "gone") /\ UNCHANGED hard_stops
     \/ ~hard_stops[s] /\ MoveMonitor(s, "check", "wait") /\ UNCHANGED hard_stops
     \/ ~hard_stops[s] /\ MoveMonitor(s, "check", "gone") /\ hard_stops' = [hard_stops EXCEPT ![s] = TRUE]
  /\ UNCHANGED <<solve, memory_limit, woken, registry, process_limit>>

EndWait_HoldsBudget(s) ==
  /\ MoveMonitor(s, "wait", IF woken[s] THEN "gone" ELSE "check")
  /\ UNCHANGED <<solve, memory_limit, hard_stops, woken, registry, process_limit>>
EndWait(s) ==
  /\ MoveMonitor(s, "wait", IF woken[s] THEN "gone" ELSE "between")
  /\ UNCHANGED <<solve, memory_limit, hard_stops, woken, registry, process_limit>>

-----------------------------------------------------------------------------
SolveStep(s) == Register(s) \/ Spawn(s) \/ Drop(s) \/ Unregister(s) \/ Wake(s) \/ Release(s)
MonitorRound(s) == Upgrade(s) \/ Check(s) \/ EndWait(s)

RegistryNext ==
  \E s \in Solves :
    \/ \E bytes \in Bytes \cup {0} : Configure(s, bytes)
    \/ Cancel(s) \/ SolveStep(s) \/ MonitorRound(s)

RegistrySpec == RegistryInit /\ [][RegistryNext]_registryVars

\* Every started solve ends and every thread is scheduled.
RegistryFairness ==
  \A s \in Solves : WF_registryVars(SolveStep(s)) /\ WF_registryVars(MonitorRound(s))

-----------------------------------------------------------------------------
(* Properties.                                                             *)

\* A solve that runs under a limit is never left without it by another solve
\* that starts or ends: the process limit is at most its own.
RunningLimitEnforced ==
  \A s \in Solves : (solve[s] \in {"spawn", "running"} /\ memory_limit[s] > 0) =>
    process_limit > 0 /\ process_limit <= memory_limit[s]

\* No thread is left behind: once its solve is over, a monitor ends.
MonitorEnds ==
  \A s \in Solves : (solve[s] = "gone") ~> (monitors[s] \in {"none", "gone"})

\* mem.rs reports no pressure when no limit is configured: a process without a
\* limited solve in flight has no limit.
NoPressureWithoutLimit ==
  process_limit > 0 =>
    \E s \in Solves : solve[s] \notin {"idle", "gone"} /\ memory_limit[s] > 0

\* What Drop does ensure: a limit outlives its solve only when the monitor held
\* the budget at that moment, so a budget without a monitor always cleans up.
OnlyMonitorsLeak ==
  \A s \in Registered : solve[s] = "gone" => monitors[s] # "none"
=============================================================================
