------------------------------- MODULE Budget -------------------------------
(***************************************************************************)
(* The cancellation side of a solve budget: src/orchestrator/budget.rs and *)
(* verify_final_with_budget of src/orchestrator/verify.rs.                 *)
(*                                                                         *)
(* One request owns a stop flag, a hard-stop flag and a reason register.   *)
(* They are written, one atomic operation at a time, by the threads that   *)
(* cancel (sinks, monitors, callers), the memory monitor, the deadline     *)
(* timer and the children of derived stops.  The request thread passes     *)
(* through an optional warm start, the search and the final replay, each   *)
(* under a derived stop flag raised by a child thread of its own.          *)
(*                                                                         *)
(* Time is abstract: a timer that is armed may expire at any moment, so    *)
(* every order of the wall-clock limits is covered.                        *)
(***************************************************************************)
CONSTANTS
  Callers,           \* threads that may call cancel_with
  Monitor,           \* the memory monitor's thread
  HardReasons,       \* every reason but Running and Deadline
  MemoryLimit,       \* the monitor's
  Running, Deadline

Threads  == Callers \cup {Monitor}
Reasons  == HardReasons \cup {Running, Deadline}
Phases   == {"warm", "search", "grace"}
Limits   == {"none", "zero", "timed"}

ASSUME BudgetAssumption ==
  /\ Monitor \notin Callers
  /\ MemoryLimit \in HardReasons
  /\ Running \notin HardReasons /\ Deadline \notin HardReasons /\ Running # Deadline

VARIABLES
  limit,              \* the request's wall-clock limit
  stop, hard_stop,    \* BudgetInner.stop, BudgetInner.hard_stop
  reason,             \* BudgetInner.reason
  timer, stopped,     \* the deadline thread and TimerSignal.stopped
  flag, child, done,  \* SearchStop of each phase: flag, its thread, TimerSignal.stopped
  main, verdict,      \* the request thread and what its final replay gave
  pc, asked, seen     \* cancel_with in each thread: control, argument, reason read

shared  == <<stop, hard_stop, reason>>
clock   == <<timer, stopped>>
derived == <<flag, child, done>>
request == <<main, verdict>>
cancels == <<pc, asked, seen>>
vars    == <<limit, shared, clock, derived, request, cancels>>

TypeOK ==
  /\ limit \in Limits
  /\ stop \in BOOLEAN /\ hard_stop \in BOOLEAN /\ reason \in Reasons
  /\ timer \in {"waiting", "record", "recheck", "store", "gone"} /\ stopped \in BOOLEAN
  /\ flag \in [Phases -> BOOLEAN] /\ done \in [Phases -> BOOLEAN]
  /\ child \in [Phases -> {"none", "waiting", "record", "raise", "gone"}]
  /\ main \in {"warm", "warming", "search", "searching", "join", "replay", "reason",
               "hard", "grace", "graced", "confirm", "end"}
  /\ verdict \in {"none", "accepted", "interrupted"}
  /\ timer # "gone" => limit = "timed"
  /\ \A k \in Phases : child[k] = "record" => k = "search"
  /\ pc \in [Threads -> {"idle", "measure", "wait", "load", "swap", "stop", "wake", "returned"}]
  /\ asked \in [Threads -> Reasons] /\ seen \in [Threads -> Reasons]

\* A zero limit has expired before the solve starts and spawns no timer.
Init ==
  /\ limit \in Limits
  /\ stop = (limit = "zero") /\ hard_stop = FALSE
  /\ reason = (IF limit = "zero" THEN Deadline ELSE Running)
  /\ timer = (IF limit = "timed" THEN "waiting" ELSE "gone") /\ stopped = FALSE
  /\ flag = [k \in Phases |-> FALSE] /\ done = [k \in Phases |-> FALSE]
  /\ child = [k \in Phases |-> "none"]
  /\ main = "warm" /\ verdict = "none"
  /\ pc = [t \in Threads |-> "idle"]
  /\ asked = [t \in Threads |-> Running] /\ seen = [t \in Threads |-> Running]

-----------------------------------------------------------------------------
(* cancel_with, one atomic operation per step.                             *)

At(t, l)   == pc[t] = l
Goto(t, l) == pc' = [pc EXCEPT ![t] = l]

Replaces_RunningOnly(current, next) == current = Running
Replaces(current, next) == current = Running \/ (current = Deadline /\ next # Deadline)

\* cancel_with(Running) returns at once; the others raise the hard stop first.
Call_WithoutHardStop(t, r) ==
  /\ At(t, "idle") \/ At(t, "returned")
  /\ r # Running
  /\ asked' = [asked EXCEPT ![t] = r] /\ Goto(t, "load")
  /\ UNCHANGED <<limit, shared, clock, derived, request, seen>>
Call(t, r) ==
  /\ At(t, "idle") \/ At(t, "returned")
  /\ r # Running
  /\ hard_stop' = (hard_stop \/ r # Deadline)
  /\ asked' = [asked EXCEPT ![t] = r] /\ Goto(t, "load")
  /\ UNCHANGED <<limit, stop, reason, clock, derived, request, seen>>

LoadReason(t) ==
  /\ At(t, "load")
  /\ seen' = [seen EXCEPT ![t] = reason]
  /\ Goto(t, IF Replaces(reason, asked[t]) THEN "swap" ELSE "stop")
  /\ UNCHANGED <<limit, shared, clock, derived, request, asked>>

SwapReason_PlainStore(t) ==
  /\ At(t, "swap")
  /\ reason' = asked[t] /\ Goto(t, "stop")
  /\ UNCHANGED <<limit, stop, hard_stop, clock, derived, request, asked, seen>>
SwapReason(t) ==
  /\ At(t, "swap")
  /\ \/ reason = seen[t] /\ reason' = asked[t] /\ Goto(t, "stop")
     \/ reason # seen[t] /\ UNCHANGED reason /\ Goto(t, "load")
  /\ UNCHANGED <<limit, stop, hard_stop, clock, derived, request, asked, seen>>

\* The monitor notifies the timer without disarming it and is done.
RaiseStop(t) ==
  /\ At(t, "stop")
  /\ stop' = TRUE
  /\ Goto(t, IF t # Monitor /\ asked[t] # Deadline THEN "wake" ELSE "returned")
  /\ UNCHANGED <<limit, hard_stop, reason, clock, derived, request, asked, seen>>

\* An expired timer holds the mutex of its signal to its end.
WakeTimer(t) ==
  /\ At(t, "wake") /\ timer \in {"waiting", "gone"}
  /\ stopped' = TRUE
  /\ Goto(t, "returned")
  /\ UNCHANGED <<limit, shared, timer, derived, request, asked, seen>>

-----------------------------------------------------------------------------
(* The memory monitor polls the usage, and cancels in its own code.        *)

MonitorCheck ==
  /\ At(Monitor, "idle")
  /\ Goto(Monitor, IF hard_stop THEN "returned" ELSE "measure")
  /\ UNCHANGED <<limit, shared, clock, derived, request, asked, seen>>

MonitorMeasure ==
  /\ At(Monitor, "measure")
  /\ \/ hard_stop' = TRUE
        /\ asked' = [asked EXCEPT ![Monitor] = MemoryLimit] /\ Goto(Monitor, "load")
     \/ Goto(Monitor, "wait") /\ UNCHANGED <<hard_stop, asked>>
  /\ UNCHANGED <<limit, stop, reason, clock, derived, request, seen>>

MonitorWait ==
  /\ At(Monitor, "wait") /\ timer \in {"waiting", "gone"}
  /\ Goto(Monitor, IF stopped THEN "returned" ELSE "idle")
  /\ UNCHANGED <<limit, shared, clock, derived, request, asked, seen>>

-----------------------------------------------------------------------------
(* The deadline timer.                                                     *)

Expire ==
  /\ timer = "waiting"
  /\ timer' = (IF stopped THEN "gone" ELSE "record")
  /\ UNCHANGED <<limit, shared, stopped, derived, request, cancels>>

RecordDeadline ==
  /\ timer = "record"
  /\ \/ reason = Running /\ reason' = Deadline /\ timer' = "store"
     \/ reason # Running /\ UNCHANGED reason /\ timer' = "recheck"
  /\ UNCHANGED <<limit, stop, hard_stop, stopped, derived, request, cancels>>

\* The search stop may have recorded Deadline before; anything else is a
\* cancellation that stores the stop itself.
RecheckDeadline_OnlyOwn ==
  /\ timer = "recheck"
  /\ timer' = "gone"
  /\ UNCHANGED <<limit, shared, stopped, derived, request, cancels>>
RecheckDeadline ==
  /\ timer = "recheck"
  /\ timer' = (IF reason = Deadline THEN "store" ELSE "gone")
  /\ UNCHANGED <<limit, shared, stopped, derived, request, cancels>>

StoreStop ==
  /\ timer = "store"
  /\ stop' = TRUE /\ timer' = "gone"
  /\ UNCHANGED <<limit, hard_stop, reason, stopped, derived, request, cancels>>

-----------------------------------------------------------------------------
(* Derived stops.  Without a limit the search shares the request's flag.   *)

SharesStop(k) == k = "search" /\ limit = "none"
Raised(k) == IF SharesStop(k) THEN stop ELSE flag[k]

\* What the child of a phase watches: the grace outlives the deadline and ends
\* only for a hard cancellation or when its own time is up.
Parent(k) == IF k = "grace" THEN hard_stop ELSE stop

\* The poll of a child: it was dropped, or its parent stopped, or its time is
\* up, which only the child of the search records.
Poll(k) ==
  /\ child[k] = "waiting"
  /\ \/ done[k] /\ child' = [child EXCEPT ![k] = "gone"] /\ UNCHANGED flag
     \/ /\ ~done[k] /\ Parent(k)
        /\ child' = [child EXCEPT ![k] = "gone"] /\ flag' = [flag EXCEPT ![k] = TRUE]
  /\ UNCHANGED <<limit, shared, clock, done, request, cancels>>

Elapse(k) ==
  /\ child[k] = "waiting" /\ ~done[k]
  /\ child' = [child EXCEPT ![k] = IF k = "search" THEN "record" ELSE "raise"]
  /\ UNCHANGED <<limit, shared, clock, flag, done, request, cancels>>

RecordCutoff(k) ==
  /\ child[k] = "record"
  /\ reason' = (IF reason = Running THEN Deadline ELSE reason)
  /\ child' = [child EXCEPT ![k] = "raise"]
  /\ UNCHANGED <<limit, stop, hard_stop, clock, flag, done, request, cancels>>

RaiseFlag(k) ==
  /\ child[k] = "raise"
  /\ flag' = [flag EXCEPT ![k] = TRUE] /\ child' = [child EXCEPT ![k] = "gone"]
  /\ UNCHANGED <<limit, shared, clock, done, request, cancels>>

-----------------------------------------------------------------------------
(* The request thread.                                                     *)

To(l) == main' = l

\* A phase with no time left starts with its flag raised and no child.  The cutoff
\* of a search that starts that way is recorded unless the request has stopped.
Open(k, from, next, noTime) ==
  /\ main = from /\ To(next)
  /\ noTime => limit # "none" /\ k # "grace"
  /\ flag' = [flag EXCEPT ![k] = ~SharesStop(k) /\ (noTime \/ Parent(k))]
  /\ child' = [child EXCEPT ![k] = IF SharesStop(k) \/ noTime \/ Parent(k) THEN "none" ELSE "waiting"]
  /\ reason' = (IF k = "search" /\ noTime /\ ~stop /\ reason = Running THEN Deadline ELSE reason)
  /\ UNCHANGED <<limit, stop, hard_stop, clock, done, verdict, cancels>>

OpenWarmStart(noTime) == Open("warm", "warm", "warming", noTime)
SkipWarmStart == main = "warm" /\ To("search") /\ UNCHANGED <<limit, shared, clock, derived, verdict, cancels>>
OpenSearch(noTime) == Open("search", "search", "searching", noTime)
OpenGrace == Open("grace", "grace", "graced", FALSE)

\* The phase ends, by itself or for its flag; dropping its stop wakes the child.
EndPhase(k, at) ==
  /\ main = at /\ To("join")
  /\ done' = [done EXCEPT ![k] = TRUE]
  /\ UNCHANGED <<limit, shared, clock, flag, child, verdict, cancels>>

EndWarmStart == EndPhase("warm", "warming")
EndSearch == EndPhase("search", "searching")

\* Drop joins the child before the request goes on.
Join ==
  /\ main = "join"
  /\ \A k \in Phases : done[k] => child[k] \in {"none", "gone"}
  /\ To(IF done["grace"] THEN "end" ELSE IF done["search"] THEN "replay" ELSE "search")
  /\ UNCHANGED <<limit, shared, clock, derived, verdict, cancels>>

\* The first replay runs under the request's own flag.
FinishReplay ==
  /\ main = "replay" /\ To("end") /\ verdict' = "accepted"
  /\ UNCHANGED <<limit, shared, clock, derived, cancels>>

InterruptReplay ==
  /\ main = "replay" /\ stop /\ To("reason")
  /\ UNCHANGED <<limit, shared, clock, derived, verdict, cancels>>

\* soft_deadline_allows_grace: two loads.
ReadReason ==
  /\ main = "reason"
  /\ IF reason = Deadline THEN To("hard") /\ UNCHANGED verdict
                          ELSE To("end") /\ verdict' = "interrupted"
  /\ UNCHANGED <<limit, shared, clock, derived, cancels>>

ReadHardStop ==
  /\ main = "hard"
  /\ IF ~hard_stop THEN To("grace") /\ UNCHANGED verdict
                   ELSE To("end") /\ verdict' = "interrupted"
  /\ UNCHANGED <<limit, shared, clock, derived, cancels>>

\* The second replay is over; its result counts only when nothing cancelled it.
EndGrace ==
  /\ main = "graced"
  /\ IF hard_stop THEN verdict' = "interrupted" /\ To("join") /\ done' = [done EXCEPT !["grace"] = TRUE]
                  ELSE UNCHANGED <<verdict, done>> /\ To("confirm")
  /\ UNCHANGED <<limit, shared, clock, flag, child, cancels>>

Confirm ==
  /\ main = "confirm"
  /\ verdict' = (IF flag["grace"] THEN "interrupted" ELSE "accepted")
  /\ To("join") /\ done' = [done EXCEPT !["grace"] = TRUE]
  /\ UNCHANGED <<limit, shared, clock, flag, child, cancels>>

-----------------------------------------------------------------------------
CancelStep(t) == LoadReason(t) \/ SwapReason(t) \/ RaiseStop(t) \/ WakeTimer(t)
MonitorStep == MonitorCheck \/ MonitorMeasure \/ MonitorWait
TimerStep == Expire \/ RecordDeadline \/ RecheckDeadline \/ StoreStop
ChildStep(k) == Poll(k) \/ Elapse(k) \/ RecordCutoff(k) \/ RaiseFlag(k)
RequestStep ==
  \/ \E noTime \in BOOLEAN : OpenWarmStart(noTime) \/ OpenSearch(noTime)
  \/ SkipWarmStart \/ OpenGrace \/ EndWarmStart \/ EndSearch \/ Join
  \/ FinishReplay \/ InterruptReplay \/ ReadReason \/ ReadHardStop \/ EndGrace \/ Confirm

Next ==
  \/ \E t \in Callers, r \in Reasons : Call(t, r)
  \/ \E t \in Threads : CancelStep(t)
  \/ MonitorStep \/ TimerStep \/ RequestStep
  \/ \E k \in Phases : ChildStep(k)

Spec == Init /\ [][Next]_vars

\* A running operation is only required to end once its flag is raised.
FairSpec ==
  /\ Spec
  /\ \A t \in Threads : WF_vars(CancelStep(t))
  /\ WF_vars(TimerStep)
  /\ \A k \in Phases : WF_vars(ChildStep(k))
  /\ WF_vars(\E noTime \in BOOLEAN : OpenWarmStart(noTime) \/ OpenSearch(noTime))
  /\ WF_vars(OpenGrace) /\ WF_vars(Join) /\ WF_vars(ReadReason) /\ WF_vars(ReadHardStop) /\ WF_vars(Confirm)
  /\ WF_vars(Raised("warm") /\ EndWarmStart) /\ WF_vars(Raised("search") /\ EndSearch)
  /\ WF_vars(InterruptReplay) /\ WF_vars(Raised("grace") /\ EndGrace)

-----------------------------------------------------------------------------
(* Properties.                                                             *)

\* Whoever races, the reason reported to the caller only escalates: a deadline
\* may still be overridden by a cancellation, and the first cancellation is final.
ReasonEscalates ==
  [][reason' # reason => \/ reason = Running
                         \/ reason = Deadline /\ reason' \in HardReasons]_vars

\* soft_deadline_allows_grace reads the reason and the hard stop separately: no
\* cancellation is ever reported before its hard stop is in force.
ReportedCancelIsHard == reason \in HardReasons => hard_stop

\* When cancel_with has returned, the request is stopped, no later replay is
\* granted a grace, and the reason says a cancellation and not the deadline.
ReturnedCancelIsVisible ==
  \A t \in Threads : (At(t, "returned") /\ asked[t] \in HardReasons) =>
    stop /\ hard_stop /\ reason \in HardReasons

\* An engine that sees its flag raised finds out why: a stopped request or a
\* stopped search has a reason other than Running.
StopHasReason == (stop \/ flag["search"]) => reason # Running

\* The early cutoff of a search or of a warm start never stops the request: its
\* flag is raised by an expired deadline or by a cancellation only.
CutoffKeepsRequestAlive ==
  stop => \/ limit = "zero" \/ (limit = "timed" /\ timer = "gone")
          \/ \E t \in Threads : asked[t] # Running

\* What each control point of cancel_with knows of its own call.
CallsInOrder ==
  \A t \in Threads :
    /\ pc[t] \in {"idle", "measure", "wait"} => asked[t] = Running
    /\ pc[t] \in {"load", "swap", "stop", "wake"} => asked[t] # Running
    /\ pc[t] = "swap" => Replaces(seen[t], asked[t])
    /\ pc[t] = "stop" => reason # Running
    /\ pc[t] = "stop" /\ asked[t] \in HardReasons => reason \in HardReasons
    /\ pc[t] = "wake" => stop /\ asked[t] \in HardReasons /\ reason \in HardReasons

\* A cancellation under way has raised the hard stop already.
AskedIsHard == \A t \in Threads : asked[t] \in HardReasons => hard_stop

\* Every thread about to raise a flag has seen a reason recorded.
RaisersKnowReason ==
  /\ timer \in {"recheck", "store"} => reason # Running
  /\ child["search"] = "raise" => reason # Running

\* The inductive invariant: types, what each thread knows at its control point, and
\* the four safety properties above.
BudgetInv ==
  /\ TypeOK
  /\ CallsInOrder
  /\ AskedIsHard
  /\ RaisersKnowReason
  /\ ReportedCancelIsHard
  /\ ReturnedCancelIsVisible
  /\ StopHasReason
  /\ CutoffKeepsRequestAlive

\* With a limit, or once stopped, the request ends: the timer stops a replay that
\* the early cutoff left running, the grace runs out, and no join waits forever.
RequestEnds == (limit # "none" \/ stop) ~> (main = "end")
=============================================================================
