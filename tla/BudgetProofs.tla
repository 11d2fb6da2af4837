---------------------------- MODULE BudgetProofs ----------------------------
(***************************************************************************)
(* Proofs about Budget, for every set of cancelling threads and every set  *)
(* of cancellation reasons.                                                *)
(***************************************************************************)
EXTENDS Budget, TLAPS

LEMMA BudgetInit == Init => BudgetInv
<1> SUFFICES ASSUME Init PROVE BudgetInv
  OBVIOUS
<1> USE BudgetAssumption DEF Init, Threads, Reasons, Phases, Limits, At
<1>1. TypeOK
  BY DEF TypeOK
<1>2. CallsInOrder /\ AskedIsHard /\ RaisersKnowReason
  BY DEF CallsInOrder, AskedIsHard, RaisersKnowReason
<1>3. ReportedCancelIsHard /\ ReturnedCancelIsVisible /\ StopHasReason /\ CutoffKeepsRequestAlive
  BY DEF ReportedCancelIsHard, ReturnedCancelIsVisible, StopHasReason, CutoffKeepsRequestAlive
<1>4. QED
  BY <1>1, <1>2, <1>3 DEF BudgetInv

\* A step that only touches control of the request thread, the phases and the
\* timer's signal keeps everything the cancelling threads rely on.
LEMMA QuietStep ==
  ASSUME BudgetInv, TypeOK', UNCHANGED <<limit, shared, timer, cancels>>,
         child["search"]' = "raise" => child["search"] = "raise",
         flag["search"]' => flag["search"] \/ stop \/ child["search"] = "raise"
  PROVE  BudgetInv'
<1> USE DEF BudgetInv, shared, cancels
<1>1. CallsInOrder' /\ AskedIsHard'
  BY DEF CallsInOrder, AskedIsHard, Replaces
<1>2. RaisersKnowReason' /\ StopHasReason'
  BY DEF RaisersKnowReason, StopHasReason
<1>3. ReportedCancelIsHard' /\ ReturnedCancelIsVisible' /\ CutoffKeepsRequestAlive'
  BY DEF ReportedCancelIsHard, ReturnedCancelIsVisible, CutoffKeepsRequestAlive, At
<1>4. QED
  BY <1>1, <1>2, <1>3

\* A step that may move the reason from Running to Deadline, and nothing else that
\* is shared, as the cutoffs and the timer do.
LEMMA DeadlineStep ==
  ASSUME BudgetInv, TypeOK', UNCHANGED <<limit, stop, hard_stop, cancels>>,
         reason' = reason \/ (reason = Running /\ reason' = Deadline),
         timer' = "gone" <=> timer = "gone",
         timer' \in {"recheck", "store"} => reason' # Running,
         child["search"]' = "raise" => reason' # Running,
         flag["search"]' => flag["search"] \/ stop \/ reason' # Running
  PROVE  BudgetInv'
<1> USE BudgetAssumption DEF BudgetInv, cancels
<1>1. CallsInOrder' /\ AskedIsHard'
  BY DEF CallsInOrder, AskedIsHard, Replaces
<1>2. RaisersKnowReason' /\ StopHasReason'
  BY DEF RaisersKnowReason, StopHasReason
<1>3. ReportedCancelIsHard' /\ ReturnedCancelIsVisible' /\ CutoffKeepsRequestAlive'
  BY DEF ReportedCancelIsHard, ReturnedCancelIsVisible, CutoffKeepsRequestAlive, At
<1>4. QED
  BY <1>1, <1>2, <1>3

-----------------------------------------------------------------------------
LEMMA BudgetTypeStep == TypeOK /\ [Next]_vars => TypeOK'
<1> SUFFICES ASSUME TypeOK, [Next]_vars PROVE TypeOK'
  OBVIOUS
<1> USE BudgetAssumption DEF TypeOK, Threads, Reasons, Phases, Limits, At, Goto, To,
        shared, clock, derived, request, cancels
<1>1. ASSUME NEW t \in Callers, NEW r \in Reasons, Call(t, r) PROVE TypeOK'
  BY <1>1 DEF Call
<1>2. ASSUME NEW t \in Threads, CancelStep(t) PROVE TypeOK'
  <2>1. CASE LoadReason(t)
    BY <2>1 DEF LoadReason
  <2>2. CASE SwapReason(t)
    BY <2>2 DEF SwapReason
  <2>3. CASE RaiseStop(t)
    BY <2>3 DEF RaiseStop
  <2>4. CASE WakeTimer(t)
    BY <2>4 DEF WakeTimer
  <2>5. QED
    BY <1>2, <2>1, <2>2, <2>3, <2>4 DEF CancelStep
<1>3. CASE MonitorStep
  <2>1. CASE MonitorCheck \/ MonitorWait
    BY <2>1 DEF MonitorCheck, MonitorWait
  <2>2. CASE MonitorMeasure
    <3>1. pc' \in [Threads -> {"idle", "measure", "wait", "load", "swap", "stop", "wake", "returned"}]
      BY <2>2 DEF MonitorMeasure
    <3>2. asked' \in [Threads -> Reasons] /\ hard_stop' \in BOOLEAN
      <4>1. asked' = [asked EXCEPT ![Monitor] = MemoryLimit] \/ asked' = asked
        BY <2>2 DEF MonitorMeasure
      <4>2. hard_stop' \in BOOLEAN
        BY <2>2 DEF MonitorMeasure
      <4>3. QED
        BY <4>1, <4>2
    <3>3. UNCHANGED <<limit, stop, reason, clock, derived, request, seen>>
      BY <2>2 DEF MonitorMeasure
    <3>4. QED
      BY <3>1, <3>2, <3>3
  <2>3. QED
    BY <1>3, <2>1, <2>2 DEF MonitorStep
<1>4. CASE TimerStep
  BY <1>4 DEF TimerStep, Expire, RecordDeadline, RecheckDeadline, StoreStop
<1>5. ASSUME NEW k \in Phases, ChildStep(k) PROVE TypeOK'
  <2>1. CASE Poll(k)
    <3>1. child' = [child EXCEPT ![k] = "gone"]
      BY <2>1 DEF Poll
    <3>2. flag' \in [Phases -> BOOLEAN]
      BY <2>1 DEF Poll
    <3>3. UNCHANGED <<limit, shared, clock, done, request, cancels>>
      BY <2>1 DEF Poll
    <3>4. QED
      BY <3>1, <3>2, <3>3
  <2>2. CASE Elapse(k)
    BY <2>2 DEF Elapse
  <2>3. CASE RecordCutoff(k)
    BY <2>3 DEF RecordCutoff
  <2>4. CASE RaiseFlag(k)
    BY <2>4 DEF RaiseFlag
  <2>5. QED
    BY <1>5, <2>1, <2>2, <2>3, <2>4 DEF ChildStep
<1>6. CASE RequestStep
  <2>1. ASSUME NEW noTime \in BOOLEAN, OpenWarmStart(noTime) \/ OpenSearch(noTime) PROVE TypeOK'
    BY <2>1 DEF OpenWarmStart, OpenSearch, Open, SharesStop, Parent
  <2>2. CASE OpenGrace
    BY <2>2 DEF OpenGrace, Open, SharesStop, Parent
  <2>3. CASE EndWarmStart \/ EndSearch
    BY <2>3 DEF EndWarmStart, EndSearch, EndPhase
  <2>4. CASE SkipWarmStart \/ Join \/ FinishReplay \/ InterruptReplay \/ ReadReason \/ ReadHardStop
    BY <2>4 DEF SkipWarmStart, Join, FinishReplay, InterruptReplay, ReadReason, ReadHardStop
  <2>5. CASE EndGrace \/ Confirm
    BY <2>5 DEF EndGrace, Confirm
  <2>6. QED
    BY <1>6, <2>1, <2>2, <2>3, <2>4, <2>5 DEF RequestStep
<1>7. CASE UNCHANGED vars
  BY <1>7 DEF vars
<1>8. QED
  BY <1>1, <1>2, <1>3, <1>4, <1>5, <1>6, <1>7 DEF Next

-----------------------------------------------------------------------------
\* The steps of cancel_with and of the memory monitor.
LEMMA CancelSteps ==
  ASSUME BudgetInv, TypeOK',
         \/ \E t \in Callers, r \in Reasons : Call(t, r)
         \/ \E t \in Threads : CancelStep(t)
         \/ MonitorStep
  PROVE  BudgetInv'
<1> USE BudgetAssumption DEF BudgetInv, Threads, At, Goto, shared, clock, derived, request, cancels
<1>1. ASSUME NEW t \in Callers, NEW r \in Reasons, Call(t, r) PROVE BudgetInv'
  <2> USE <1>1 DEF Call, TypeOK, Reasons
  <2>1. CallsInOrder' /\ AskedIsHard'
    BY DEF CallsInOrder, AskedIsHard, Replaces
  <2>2. RaisersKnowReason' /\ StopHasReason' /\ ReportedCancelIsHard'
    BY DEF RaisersKnowReason, StopHasReason, ReportedCancelIsHard
  <2>3. ReturnedCancelIsVisible' /\ CutoffKeepsRequestAlive'
    BY DEF ReturnedCancelIsVisible, CutoffKeepsRequestAlive
  <2>4. QED
    BY <2>1, <2>2, <2>3
<1>2. ASSUME NEW t \in Threads, LoadReason(t) PROVE BudgetInv'
  <2> USE <1>2 DEF LoadReason, TypeOK, Reasons
  <2>1. CallsInOrder' /\ AskedIsHard'
    BY DEF CallsInOrder, AskedIsHard, Replaces
  <2>2. RaisersKnowReason' /\ StopHasReason' /\ ReportedCancelIsHard'
    BY DEF RaisersKnowReason, StopHasReason, ReportedCancelIsHard
  <2>3. ReturnedCancelIsVisible' /\ CutoffKeepsRequestAlive'
    BY DEF ReturnedCancelIsVisible, CutoffKeepsRequestAlive
  <2>4. QED
    BY <2>1, <2>2, <2>3
<1>3. ASSUME NEW t \in Threads, SwapReason(t) PROVE BudgetInv'
  <2> USE <1>3 DEF SwapReason, TypeOK, Reasons
  <2>1. asked[t] # Running /\ Replaces(seen[t], asked[t])
    BY DEF CallsInOrder
  <2>2. reason' = reason \/ (reason = seen[t] /\ reason' = asked[t])
    OBVIOUS
  <2>3. reason' # Running \/ reason' = reason
    BY <2>1, <2>2
  <2>4. reason \in HardReasons => reason' = reason
    BY <2>1, <2>2 DEF Replaces
  <2>5. CallsInOrder' /\ AskedIsHard'
    BY <2>1, <2>2, <2>3, <2>4 DEF CallsInOrder, AskedIsHard, Replaces
  <2>6. RaisersKnowReason' /\ StopHasReason' /\ ReportedCancelIsHard'
    BY <2>1, <2>2, <2>3, <2>4 DEF RaisersKnowReason, StopHasReason, ReportedCancelIsHard, AskedIsHard
  <2>7. ReturnedCancelIsVisible' /\ CutoffKeepsRequestAlive'
    BY <2>4 DEF ReturnedCancelIsVisible, CutoffKeepsRequestAlive
  <2>8. QED
    BY <2>5, <2>6, <2>7
<1>4. ASSUME NEW t \in Threads, RaiseStop(t) PROVE BudgetInv'
  <2> USE <1>4 DEF RaiseStop, TypeOK, Reasons
  <2>1. asked[t] # Running /\ reason # Running /\ (asked[t] \in HardReasons => reason \in HardReasons)
    BY DEF CallsInOrder
  <2>2. CallsInOrder' /\ AskedIsHard'
    BY <2>1 DEF CallsInOrder, AskedIsHard, Replaces
  <2>3. RaisersKnowReason' /\ StopHasReason' /\ ReportedCancelIsHard'
    BY <2>1 DEF RaisersKnowReason, StopHasReason, ReportedCancelIsHard
  <2>4. ReturnedCancelIsVisible' /\ CutoffKeepsRequestAlive'
    BY <2>1 DEF ReturnedCancelIsVisible, CutoffKeepsRequestAlive, AskedIsHard
  <2>5. QED
    BY <2>2, <2>3, <2>4
<1>5. ASSUME NEW t \in Threads, WakeTimer(t) PROVE BudgetInv'
  <2> USE <1>5 DEF WakeTimer, TypeOK, Reasons
  <2>1. CallsInOrder' /\ AskedIsHard'
    BY DEF CallsInOrder, AskedIsHard, Replaces
  <2>2. RaisersKnowReason' /\ StopHasReason' /\ ReportedCancelIsHard'
    BY DEF RaisersKnowReason, StopHasReason, ReportedCancelIsHard
  <2>3. ReturnedCancelIsVisible' /\ CutoffKeepsRequestAlive'
    BY DEF ReturnedCancelIsVisible, CutoffKeepsRequestAlive, CallsInOrder, AskedIsHard
  <2>4. QED
    BY <2>1, <2>2, <2>3
<1>6. CASE MonitorCheck \/ MonitorWait
  <2> USE <1>6 DEF MonitorCheck, MonitorWait, TypeOK, Reasons
  <2>1. CallsInOrder' /\ AskedIsHard'
    BY DEF CallsInOrder, AskedIsHard, Replaces
  <2>2. RaisersKnowReason' /\ StopHasReason' /\ ReportedCancelIsHard'
    BY DEF RaisersKnowReason, StopHasReason, ReportedCancelIsHard
  <2>3. ReturnedCancelIsVisible' /\ CutoffKeepsRequestAlive'
    BY DEF ReturnedCancelIsVisible, CutoffKeepsRequestAlive, CallsInOrder
  <2>4. QED
    BY <2>1, <2>2, <2>3
<1>7. CASE MonitorMeasure
  <2> USE <1>7 DEF MonitorMeasure, TypeOK, Reasons
  <2>1. CallsInOrder' /\ AskedIsHard'
    BY DEF CallsInOrder, AskedIsHard, Replaces
  <2>2. RaisersKnowReason' /\ StopHasReason' /\ ReportedCancelIsHard'
    BY DEF RaisersKnowReason, StopHasReason, ReportedCancelIsHard
  <2>3. ReturnedCancelIsVisible' /\ CutoffKeepsRequestAlive'
    BY DEF ReturnedCancelIsVisible, CutoffKeepsRequestAlive
  <2>4. QED
    BY <2>1, <2>2, <2>3
<1>8. QED
  BY <1>1, <1>2, <1>3, <1>4, <1>5, <1>6, <1>7 DEF CancelStep, MonitorStep

LEMMA TimerSteps ==
  ASSUME BudgetInv, TypeOK', TimerStep
  PROVE  BudgetInv'
<1> USE BudgetAssumption DEF shared, clock, derived, request, cancels
<1>1. CASE RecordDeadline \/ (Expire /\ ~stopped)
  <2>1. timer' \in {"recheck", "store"} => reason' # Running
    BY <1>1 DEF RecordDeadline, Expire
  <2>2. timer' = "gone" <=> timer = "gone"
    BY <1>1 DEF RecordDeadline, Expire
  <2>3. /\ UNCHANGED <<limit, stop, hard_stop, cancels, flag, child>>
        /\ reason' = reason \/ (reason = Running /\ reason' = Deadline)
    BY <1>1 DEF RecordDeadline, Expire
  <2>4. child["search"]' = "raise" => reason' # Running
    BY <2>3 DEF BudgetInv, RaisersKnowReason
  <2>5. flag["search"]' => flag["search"] \/ stop \/ reason' # Running
    BY <2>3
  <2>6. QED
    BY <2>1, <2>2, <2>3, <2>4, <2>5, DeadlineStep
<1>2. CASE RecheckDeadline \/ StoreStop \/ (Expire /\ stopped)
  <2> USE <1>2 DEF RecheckDeadline, StoreStop, Expire, BudgetInv
  <2>1. timer # "gone" /\ limit' = "timed"
    BY DEF TypeOK
  <2>2. timer' \in {"store", "gone"} /\ (timer' = "store" => reason = Deadline)
    OBVIOUS
  <2>3. stop' => stop \/ reason # Running
    BY DEF RaisersKnowReason
  <2>4. CallsInOrder' /\ AskedIsHard'
    BY DEF CallsInOrder, AskedIsHard, Replaces
  <2>5. RaisersKnowReason' /\ StopHasReason' /\ ReportedCancelIsHard'
    BY <2>2, <2>3 DEF RaisersKnowReason, StopHasReason, ReportedCancelIsHard
  <2>6. ReturnedCancelIsVisible'
    BY DEF ReturnedCancelIsVisible, At
  <2>7. CutoffKeepsRequestAlive'
    BY <2>1 DEF CutoffKeepsRequestAlive
  <2>8. QED
    BY <2>4, <2>5, <2>6, <2>7
<1>3. QED
  BY <1>1, <1>2 DEF TimerStep, Expire

LEMMA ChildSteps ==
  ASSUME BudgetInv, TypeOK', NEW k \in Phases, ChildStep(k)
  PROVE  BudgetInv'
<1> USE BudgetAssumption DEF shared, clock, derived, request, cancels, BudgetInv, TypeOK, Phases
<1>1. CASE Poll(k) \/ RaiseFlag(k)
  <2>1. UNCHANGED <<limit, shared, timer, cancels>>
    BY <1>1 DEF Poll, RaiseFlag
  <2>2. child["search"]' = "raise" => child["search"] = "raise"
    BY <1>1 DEF Poll, RaiseFlag
  <2>3. flag["search"]' => flag["search"] \/ stop \/ child["search"] = "raise"
    BY <1>1 DEF Poll, RaiseFlag, Parent
  <2>4. QED
    BY <2>1, <2>2, <2>3, QuietStep
<1>2. CASE Elapse(k)
  <2>1. UNCHANGED <<limit, shared, timer, cancels>>
    BY <1>2 DEF Elapse
  <2>2. child["search"]' = "raise" => child["search"] = "raise"
    BY <1>2 DEF Elapse
  <2>3. flag["search"]' => flag["search"]
    BY <1>2 DEF Elapse
  <2>4. QED
    BY <2>1, <2>2, <2>3, QuietStep
<1>3. CASE RecordCutoff(k)
  <2>1. /\ UNCHANGED <<limit, stop, hard_stop, cancels, flag, timer>>
        /\ reason' = reason \/ (reason = Running /\ reason' = Deadline)
        /\ reason' # Running
    BY <1>3 DEF RecordCutoff, Reasons
  <2>2. QED
    BY <2>1, DeadlineStep
<1>4. QED
  BY <1>1, <1>2, <1>3 DEF ChildStep

LEMMA RequestSteps ==
  ASSUME BudgetInv, TypeOK', RequestStep
  PROVE  BudgetInv'
<1> USE BudgetAssumption DEF shared, clock, derived, request, cancels
<1>1. ASSUME NEW noTime \in BOOLEAN, OpenSearch(noTime) PROVE BudgetInv'
  <2> USE <1>1 DEF OpenSearch, Open, Parent, BudgetInv, TypeOK, Phases
  <2>1. /\ UNCHANGED <<limit, stop, hard_stop, cancels, timer>>
        /\ reason' = reason \/ (reason = Running /\ reason' = Deadline)
    OBVIOUS
  <2>2. child["search"]' \in {"none", "waiting"}
    OBVIOUS
  <2>3. flag["search"]' => stop \/ noTime
    OBVIOUS
  <2>4. noTime /\ ~stop => reason' # Running
    OBVIOUS
  <2>5. timer' \in {"recheck", "store"} => reason' # Running
    BY <2>1 DEF RaisersKnowReason
  <2>6. QED
    BY <2>1, <2>2, <2>3, <2>4, <2>5, DeadlineStep
<1>2. ASSUME NEW noTime \in BOOLEAN, OpenWarmStart(noTime) \/ OpenGrace PROVE BudgetInv'
  <2> USE <1>2 DEF OpenWarmStart, OpenGrace, Open, BudgetInv, TypeOK, Phases
  <2>1. UNCHANGED <<limit, shared, timer, cancels>>
    OBVIOUS
  <2>2. child["search"]' = child["search"] /\ flag["search"]' = flag["search"]
    OBVIOUS
  <2>3. QED
    BY <2>1, <2>2, QuietStep
<1>3. CASE \/ SkipWarmStart \/ EndWarmStart \/ EndSearch \/ Join
           \/ FinishReplay \/ InterruptReplay \/ ReadReason \/ ReadHardStop \/ EndGrace \/ Confirm
  <2>1. UNCHANGED <<limit, shared, timer, cancels, flag, child>>
    BY <1>3 DEF SkipWarmStart, EndWarmStart, EndSearch, EndPhase, Join, FinishReplay,
                InterruptReplay, ReadReason, ReadHardStop, EndGrace, Confirm
  <2>2. QED
    BY <2>1, QuietStep
<1>4. QED
  BY <1>1, <1>2, <1>3 DEF RequestStep

LEMMA BudgetStep == BudgetInv /\ [Next]_vars => BudgetInv'
<1> SUFFICES ASSUME BudgetInv, [Next]_vars PROVE BudgetInv'
  OBVIOUS
<1>1. TypeOK'
  BY BudgetTypeStep DEF BudgetInv
<1>2. CASE UNCHANGED vars
  BY <1>1, <1>2, QuietStep DEF vars, clock, derived, request
<1>3. CASE \/ \E t \in Callers, r \in Reasons : Call(t, r)
           \/ \E t \in Threads : CancelStep(t)
           \/ MonitorStep
  BY <1>1, <1>3, CancelSteps
<1>4. CASE TimerStep
  BY <1>1, <1>4, TimerSteps
<1>5. CASE RequestStep
  BY <1>1, <1>5, RequestSteps
<1>6. CASE \E k \in Phases : ChildStep(k)
  BY <1>1, <1>6, ChildSteps
<1>7. QED
  BY <1>2, <1>3, <1>4, <1>5, <1>6 DEF Next

-----------------------------------------------------------------------------
\* The inductive invariant holds, whoever races.
THEOREM BudgetInvariant == Spec => []BudgetInv
  BY BudgetInit, BudgetStep, PTL DEF Spec

\* A reader that finds a cancellation reason finds its hard stop in force.
THEOREM CancelsAreHard == Spec => []ReportedCancelIsHard
<1>1. BudgetInv => ReportedCancelIsHard
  BY DEF BudgetInv
<1>2. QED
  BY <1>1, BudgetInit, BudgetStep, PTL DEF Spec

\* A cancel_with that returned has stopped the request for good.
THEOREM CancelsAreVisible == Spec => []ReturnedCancelIsVisible
<1>1. BudgetInv => ReturnedCancelIsVisible
  BY DEF BudgetInv
<1>2. QED
  BY <1>1, BudgetInit, BudgetStep, PTL DEF Spec

\* No flag is raised without a reason.
THEOREM StopsHaveReasons == Spec => []StopHasReason
<1>1. BudgetInv => StopHasReason
  BY DEF BudgetInv
<1>2. QED
  BY <1>1, BudgetInit, BudgetStep, PTL DEF Spec

\* Only an expired deadline or a cancellation stops the request.
THEOREM CutoffsStayLocal == Spec => []CutoffKeepsRequestAlive
<1>1. BudgetInv => CutoffKeepsRequestAlive
  BY DEF BudgetInv
<1>2. QED
  BY <1>1, BudgetInit, BudgetStep, PTL DEF Spec

\* The reason escalates and the first cancellation is final, whoever races.
THEOREM ReasonsEscalate == Spec => ReasonEscalates
<1> DEFINE Escalation ==
      reason' # reason => reason = Running \/ (reason = Deadline /\ reason' \in HardReasons)
<1>1. ASSUME BudgetInv, Next, reason' # reason
      PROVE  reason = Running \/ (reason = Deadline /\ reason' \in HardReasons)
  <2> USE <1>1
  <2> USE DEF shared, clock, derived, request, cancels
  <2>1. ASSUME NEW t \in Threads, CancelStep(t)
        PROVE  reason = Running \/ (reason = Deadline /\ reason' \in HardReasons)
    <3>1. SwapReason(t) /\ reason = seen[t] /\ reason' = asked[t]
      BY <2>1 DEF CancelStep, LoadReason, SwapReason, RaiseStop, WakeTimer
    <3>2. Replaces(seen[t], asked[t]) /\ asked[t] # Running /\ asked[t] \in Reasons
      BY <3>1 DEF BudgetInv, CallsInOrder, SwapReason, At, TypeOK
    <3>3. QED
      BY <3>1, <3>2 DEF Replaces, Reasons
  <2>2. ASSUME NEW t \in Callers, NEW r \in Reasons, Call(t, r) PROVE FALSE
    BY <2>2 DEF Call
  <2>3. CASE MonitorStep
    BY <2>3 DEF MonitorStep, MonitorCheck, MonitorMeasure, MonitorWait
  <2>4. CASE TimerStep
    BY <2>4 DEF TimerStep, Expire, RecordDeadline, RecheckDeadline, StoreStop
  <2>5. ASSUME NEW k \in Phases, ChildStep(k) PROVE reason = Running
    BY <2>5 DEF ChildStep, Poll, Elapse, RecordCutoff, RaiseFlag
  <2>6. CASE RequestStep
    BY <2>6 DEF RequestStep, OpenWarmStart, OpenSearch, OpenGrace, Open, SkipWarmStart, EndWarmStart,
                EndSearch, EndPhase, Join, FinishReplay, InterruptReplay, ReadReason, ReadHardStop,
                EndGrace, Confirm
  <2>7. QED
    BY <2>1, <2>2, <2>3, <2>4, <2>5, <2>6 DEF Next
<1>2. BudgetInv /\ [Next]_vars => [Escalation]_vars
  BY <1>1
<1>3. QED
  BY <1>2, BudgetInit, BudgetStep, PTL DEF Spec, ReasonEscalates
=============================================================================
