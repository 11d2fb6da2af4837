------------------------------ MODULE Executor ------------------------------
(***************************************************************************)
(* Scoped worker execution: src/orchestrator/executor.rs.                  *)
(*                                                                         *)
(* execute_workers runs one thread per worker, a monitor thread that copies*)
(* the external stop flag into the shared cancel flag, and the caller's    *)
(* thread ("main"), which consumes an mpsc channel until every worker has  *)
(* reported.  Progress travels through ONE coalescing slot (latest.event)  *)
(* plus a Latest message that is sent only by the publisher that turned    *)
(* latest.notified on; final reports travel as Finished messages.          *)
(*                                                                         *)
(* A progress event is abstracted to the sequence number it drew.          *)
(* silent = TRUE is execute_workers_silent: no progress, and the receive   *)
(* loop ends only when every sender is gone.                               *)
(***************************************************************************)
EXTENDS Integers, Sequences, FiniteSets

CONSTANTS
  Workers,     \* the worker indices of the inputs vector
  MaxEvents,   \* bound on the number of published progress events
  NoEvent      \* the None of Option<WorkerEvent>

ASSUME ExecutorAssumption ==
  /\ IsFiniteSet(Workers) /\ Workers # {}
  /\ MaxEvents \in Nat
  /\ NoEvent \notin Nat

(***************************************************************************)
(* Operators whose name ends in a capitalised defect after an underscore   *)
(* are deliberately wrong variants: the properties are tested against them.*)
(***************************************************************************)
VARIABLES
  silent,              \* which entry point was called; never changes
  external_stop,       \* the caller's AtomicBool
  cancel,              \* the Arc<AtomicBool> shared by everybody
  monitor,             \* "idle" before the spawn, then "polling", then "done"
  worker_pc,           \* control point of each worker thread
  drawn,               \* sequence number a publishing worker holds
  sequence,            \* the shared AtomicU64
  event,               \* latest.event
  notified,            \* latest.notified
  channel,             \* messages sent and not yet received
  main_pc,             \* control point of the caller's thread
  handling,            \* the event the handler has been given
  reports,             \* workers whose report main has stored
  stopped_by_handler,
  handler_error,
  outcome              \* what the call gives back, "none" until it returns

mainVars   == <<main_pc, handling, reports, stopped_by_handler, handler_error, outcome>>
workerVars == <<worker_pc, drawn, sequence>>
slotVars   == <<event, notified>>
vars == <<silent, external_stop, cancel, monitor, workerVars, slotVars, channel, mainVars>>

Seqno == 0 .. MaxEvents - 1

\* The worker field of a Latest message is the thread that sent it; the code's
\* message does not carry it, and nothing in the model branches on it.
Message == [kind : {"Latest", "Finished"}, worker : Workers]
Latest(w)   == [kind |-> "Latest",   worker |-> w]
Finished(w) == [kind |-> "Finished", worker |-> w]

\* "drawn": sequence number drawn, lock not yet taken.  "notify": the slot is
\* written, this worker owes the channel a Latest.  "sent": the report is sent,
\* the thread still owns its Sender.  "gone"/"panicked": its senders are dropped.
WorkerPC == {"unspawned", "running", "drawn", "notify", "sent", "gone", "panicked"}
MainPC   == {"start", "recv", "take", "handle", "exit", "join", "unwind", "returned"}
Outcomes == {"none", "summary", "error", "panic"}

TypeOK ==
  /\ silent \in BOOLEAN /\ external_stop \in BOOLEAN /\ cancel \in BOOLEAN
  /\ monitor \in {"idle", "polling", "done"}
  /\ worker_pc \in [Workers -> WorkerPC]
  /\ drawn \in [Workers -> Seqno \cup {NoEvent}]
  /\ sequence \in 0 .. MaxEvents
  /\ event \in Seqno \cup {NoEvent}
  /\ notified \in BOOLEAN
  /\ channel \in Seq(Message)
  /\ main_pc \in MainPC
  /\ handling \in Seqno \cup {NoEvent}
  /\ reports \in SUBSET Workers
  /\ stopped_by_handler \in BOOLEAN /\ handler_error \in BOOLEAN
  /\ outcome \in Outcomes

Init ==
  /\ silent \in BOOLEAN
  /\ external_stop \in BOOLEAN
  /\ cancel = FALSE
  /\ monitor = "idle"
  /\ worker_pc = [w \in Workers |-> "unspawned"]
  /\ drawn = [w \in Workers |-> NoEvent]
  /\ sequence = 0
  /\ event = NoEvent
  /\ notified = FALSE
  /\ channel = <<>>
  /\ main_pc = "start"
  /\ handling = NoEvent
  /\ reports = {}
  /\ stopped_by_handler = FALSE
  /\ handler_error = FALSE
  /\ outcome = "none"

-----------------------------------------------------------------------------
(* The environment: the owner of the external stop flag.                   *)

RaiseExternalStop ==
  /\ ~external_stop
  /\ external_stop' = TRUE
  /\ UNCHANGED <<silent, cancel, monitor, workerVars, slotVars, channel, mainVars>>

-----------------------------------------------------------------------------
(* The monitor thread: while !cancel { if external_stop { cancel; break } }*)

MonitorStep_ForgetsCancel ==
  /\ monitor = "polling"
  /\ cancel \/ external_stop
  /\ monitor' = "done"
  /\ UNCHANGED <<silent, external_stop, cancel, workerVars, slotVars, channel, mainVars>>

MonitorStep ==
  /\ monitor = "polling"
  /\ cancel \/ external_stop
  /\ monitor' = "done"
  /\ cancel' = TRUE
  /\ UNCHANGED <<silent, external_stop, workerVars, slotVars, channel, mainVars>>

-----------------------------------------------------------------------------
(* Worker threads.                                                         *)

Alive(w) == worker_pc[w] \in {"unspawned", "running", "drawn", "notify", "sent"}
Started(w) == worker_pc[w] = "running"

\* publish_latest, first step: draw the sequence number outside the lock.
DrawSequence(w) ==
  /\ ~silent
  /\ Started(w)
  /\ sequence < MaxEvents
  /\ drawn' = [drawn EXCEPT ![w] = sequence]
  /\ sequence' = sequence + 1
  /\ worker_pc' = [worker_pc EXCEPT ![w] = "drawn"]
  /\ UNCHANGED <<silent, external_stop, cancel, monitor, slotVars, channel, mainVars>>

StoreLatest_AlwaysNotifies(w) ==
  /\ worker_pc[w] = "drawn"
  /\ event' = drawn[w]
  /\ notified' = TRUE
  /\ worker_pc' = [worker_pc EXCEPT ![w] = "notify"]
  /\ drawn' = [drawn EXCEPT ![w] = NoEvent]
  /\ UNCHANGED <<silent, external_stop, cancel, monitor, sequence, channel, mainVars>>

\* publish_latest, under the lock: replace the pending event, and take on the
\* duty of notifying only if nobody has it.
StoreLatest(w) ==
  /\ worker_pc[w] = "drawn"
  /\ event' = drawn[w]
  /\ notified' = TRUE
  /\ worker_pc' = [worker_pc EXCEPT ![w] = IF notified THEN "running" ELSE "notify"]
  /\ drawn' = [drawn EXCEPT ![w] = NoEvent]
  /\ UNCHANGED <<silent, external_stop, cancel, monitor, sequence, channel, mainVars>>

\* publish_latest, after the unlock: send the Latest message.
SendLatest(w) ==
  /\ worker_pc[w] = "notify"
  /\ channel' = Append(channel, Latest(w))
  /\ worker_pc' = [worker_pc EXCEPT ![w] = "running"]
  /\ UNCHANGED <<silent, external_stop, cancel, monitor, drawn, sequence, slotVars, mainVars>>

\* WorkerContext::cancel: an engine that proved or failed stops the others.
EngineCancel(w) ==
  /\ Started(w)
  /\ ~cancel
  /\ cancel' = TRUE
  /\ UNCHANGED <<silent, external_stop, monitor, workerVars, slotVars, channel, mainVars>>

\* run returned: the unwind guard is disarmed and the report is sent.
SendFinished(w) ==
  /\ Started(w)
  /\ channel' = Append(channel, Finished(w))
  /\ worker_pc' = [worker_pc EXCEPT ![w] = "sent"]
  /\ UNCHANGED <<silent, external_stop, cancel, monitor, drawn, sequence, slotVars, mainVars>>

\* The closure ends and drops its Sender.
DropSender(w) ==
  /\ worker_pc[w] = "sent"
  /\ worker_pc' = [worker_pc EXCEPT ![w] = "gone"]
  /\ UNCHANGED <<silent, external_stop, cancel, monitor, drawn, sequence, slotVars, channel, mainVars>>

\* run panics: CancelOnUnwind is still armed, and the senders are dropped
\* without a report.
PanicWorker(w) ==
  /\ Started(w)
  /\ cancel' = TRUE
  /\ worker_pc' = [worker_pc EXCEPT ![w] = "panicked"]
  /\ UNCHANGED <<silent, external_stop, monitor, drawn, sequence, slotVars, channel, mainVars>>

-----------------------------------------------------------------------------
(* The caller's thread.                                                    *)

\* External stop is read once, then the monitor and the workers are spawned
\* and main drops its own Sender.
SpawnAll ==
  /\ main_pc = "start"
  /\ cancel' = (cancel \/ external_stop)
  /\ monitor' = "polling"
  /\ worker_pc' = [w \in Workers |-> "running"]
  /\ main_pc' = "recv"
  /\ UNCHANGED <<silent, external_stop, drawn, sequence, slotVars, channel, handling, reports,
                 stopped_by_handler, handler_error, outcome>>

LoopEnds_OneEarly(stored) == Cardinality(stored) + 1 >= Cardinality(Workers)

\* The loop condition: completed < worker_count, which the silent variant
\* lacks (it iterates the receiver until it is disconnected).
LoopEnds(stored) == ~silent /\ stored = Workers

ReceiveFinished ==
  /\ main_pc = "recv"
  /\ channel # <<>> /\ Head(channel).kind = "Finished"
  /\ reports' = reports \cup {Head(channel).worker}
  /\ channel' = Tail(channel)
  /\ main_pc' = IF LoopEnds(reports') THEN "exit" ELSE "recv"
  /\ UNCHANGED <<silent, external_stop, cancel, monitor, workerVars, slotVars, handling,
                 stopped_by_handler, handler_error, outcome>>

ReceiveLatest ==
  /\ main_pc = "recv"
  /\ channel # <<>> /\ Head(channel).kind = "Latest"
  /\ channel' = Tail(channel)
  /\ main_pc' = "take"
  /\ UNCHANGED <<silent, external_stop, cancel, monitor, workerVars, slotVars, handling, reports,
                 stopped_by_handler, handler_error, outcome>>

\* recv fails: the channel is empty and every sender is gone.
Disconnected ==
  /\ main_pc = "recv"
  /\ channel = <<>>
  /\ \A w \in Workers : ~Alive(w)
  /\ main_pc' = "exit"
  /\ UNCHANGED <<silent, external_stop, cancel, monitor, workerVars, slotVars, channel, handling,
                 reports, stopped_by_handler, handler_error, outcome>>

TakeLatest_KeepsFlag ==
  /\ main_pc = "take"
  /\ event' = NoEvent
  /\ notified' = notified
  /\ LET deliver == ~handler_error /\ ~stopped_by_handler /\ event # NoEvent
     IN  /\ handling' = IF deliver THEN event ELSE NoEvent
         /\ main_pc' = IF deliver THEN "handle" ELSE "recv"
  /\ UNCHANGED <<silent, external_stop, cancel, monitor, workerVars, channel, reports,
                 stopped_by_handler, handler_error, outcome>>

TakeLatest_IgnoresVerdict ==
  /\ main_pc = "take"
  /\ event' = NoEvent
  /\ notified' = FALSE
  /\ handling' = event
  /\ main_pc' = IF event # NoEvent THEN "handle" ELSE "recv"
  /\ UNCHANGED <<silent, external_stop, cancel, monitor, workerVars, channel, reports,
                 stopped_by_handler, handler_error, outcome>>

\* Under the lock: take the event and clear the flag.  An event taken after
\* the handler stopped or failed is discarded.
TakeLatest ==
  /\ main_pc = "take"
  /\ event' = NoEvent
  /\ notified' = FALSE
  /\ LET deliver == ~handler_error /\ ~stopped_by_handler /\ event # NoEvent
     IN  /\ handling' = IF deliver THEN event ELSE NoEvent
         /\ main_pc' = IF deliver THEN "handle" ELSE "recv"
  /\ UNCHANGED <<silent, external_stop, cancel, monitor, workerVars, channel, reports,
                 stopped_by_handler, handler_error, outcome>>

HandlerContinues ==
  /\ main_pc = "handle"
  /\ handling' = NoEvent
  /\ main_pc' = "recv"
  /\ UNCHANGED <<silent, external_stop, cancel, monitor, workerVars, slotVars, channel, reports,
                 stopped_by_handler, handler_error, outcome>>

HandlerStops ==
  /\ main_pc = "handle"
  /\ handling' = NoEvent
  /\ main_pc' = "recv"
  /\ stopped_by_handler' = TRUE
  /\ cancel' = TRUE
  /\ UNCHANGED <<silent, external_stop, monitor, workerVars, slotVars, channel, reports,
                 handler_error, outcome>>

HandlerFails ==
  /\ main_pc = "handle"
  /\ handling' = NoEvent
  /\ main_pc' = "recv"
  /\ handler_error' = TRUE
  /\ cancel' = TRUE
  /\ UNCHANGED <<silent, external_stop, monitor, workerVars, slotVars, channel, reports,
                 stopped_by_handler, outcome>>

\* The handler panics: scope_cancel is still armed, and the scope joins its
\* threads before it resumes the unwind.
HandlerPanics ==
  /\ main_pc = "handle"
  /\ handling' = NoEvent
  /\ main_pc' = "unwind"
  /\ cancel' = TRUE
  /\ UNCHANGED <<silent, external_stop, monitor, workerVars, slotVars, channel, reports,
                 stopped_by_handler, handler_error, outcome>>

CancelAfterLoop ==
  /\ main_pc = "exit"
  /\ cancel' = TRUE
  /\ main_pc' = "join"
  /\ UNCHANGED <<silent, external_stop, monitor, workerVars, slotVars, channel, handling, reports,
                 stopped_by_handler, handler_error, outcome>>

\* The scope joins every thread; a panic in any of them is resumed here, a
\* handler error wins over the summary.
JoinAndReturn ==
  /\ main_pc \in {"join", "unwind"}
  /\ monitor = "done"
  /\ \A w \in Workers : ~Alive(w)
  /\ outcome' = IF main_pc = "unwind" \/ \E w \in Workers : worker_pc[w] = "panicked"
                THEN "panic"
                ELSE IF handler_error THEN "error" ELSE "summary"
  /\ main_pc' = "returned"
  /\ UNCHANGED <<silent, external_stop, cancel, monitor, workerVars, slotVars, channel, handling,
                 reports, stopped_by_handler, handler_error>>

-----------------------------------------------------------------------------
WorkerStep(w) ==
  \/ DrawSequence(w) \/ StoreLatest(w) \/ SendLatest(w) \/ EngineCancel(w)
  \/ SendFinished(w) \/ DropSender(w) \/ PanicWorker(w)

MainStep ==
  \/ SpawnAll \/ ReceiveFinished \/ ReceiveLatest \/ Disconnected \/ TakeLatest
  \/ HandlerContinues \/ HandlerStops \/ HandlerFails \/ HandlerPanics
  \/ CancelAfterLoop \/ JoinAndReturn

Next ==
  \/ RaiseExternalStop
  \/ MonitorStep
  \/ \E w \in Workers : WorkerStep(w)
  \/ MainStep

(***************************************************************************)
(* Threads are scheduled.  An engine worker is only promised to return     *)
(* once it can see the cancel flag: SendFinished is fair under cancel only.*)
(***************************************************************************)
Fairness ==
  /\ WF_vars(MainStep)
  /\ WF_vars(MonitorStep)
  /\ \A w \in Workers :
       /\ WF_vars(StoreLatest(w) \/ SendLatest(w) \/ DropSender(w))
       /\ WF_vars(cancel /\ SendFinished(w))

Spec == Init /\ [][Next]_vars
FairSpec == Spec /\ Fairness

-----------------------------------------------------------------------------
(* Properties.                                                             *)

InFlight(i)  == i \in DOMAIN channel /\ channel[i].kind = "Latest"
Notifying(w) == worker_pc[w] = "notify"
Taking       == main_pc = "take"

\* "without creating an unbounded queue" (executor.rs:179): however often the
\* workers publish, the duty to tell main is held at exactly one place while
\* the flag is set (a message, a publisher about to send, or main itself), and
\* nowhere while it is clear.
OneAnnouncement ==
  /\ \A i, j \in DOMAIN channel : InFlight(i) /\ InFlight(j) => i = j
  /\ \A v, w \in Workers : Notifying(v) /\ Notifying(w) => v = w
  /\ \A i \in DOMAIN channel, w \in Workers : ~(InFlight(i) /\ Notifying(w))
  /\ Taking => /\ \A i \in DOMAIN channel : ~InFlight(i)
               /\ \A w \in Workers : ~Notifying(w)
  /\ notified <=> \/ \E i \in DOMAIN channel : InFlight(i)
                  \/ \E w \in Workers : Notifying(w)
                  \/ Taking

\* When the receive loop has ended normally no progress event is left behind in
\* the slot: the last thing a worker published has been taken by main.
NoProgressLeftBehind ==
  main_pc \in {"exit", "join"} \/ outcome \in {"summary", "error"} => event = NoEvent

\* A summary accounts for every worker: "final worker reports are never
\* dropped" (executor.rs:6), whatever stop, error or progress traffic occurred.
SummaryIsLossless == outcome = "summary" => reports = Workers

\* When the call is over nothing of it still runs, and every party was told to
\* stop, on the normal path and on the two unwinding ones.
NothingOutlivesTheScope ==
  outcome # "none" =>
    /\ cancel /\ monitor = "done"
    /\ \A w \in Workers : worker_pc[w] \in {"gone", "panicked"}

\* Once the handler has said stop (or failed) it is never called again, and the
\* verdict is not forgotten.
HandlerVerdictIsFinal ==
  [][stopped_by_handler \/ handler_error =>
       /\ handling' = NoEvent
       /\ stopped_by_handler' = stopped_by_handler
       /\ handler_error' = handler_error]_vars

\* A stop from anywhere (the caller's flag, the handler, an engine, a panic) and
\* the end of the last worker both end the call: the monitor, the flags and the
\* joins leave nobody waiting for ever.
StopRequested == external_stop \/ cancel \/ stopped_by_handler \/ handler_error
StopEndsTheCall ==
  /\ StopRequested /\ main_pc # "start" ~> main_pc = "returned"
  /\ (\A w \in Workers : worker_pc[w] \in {"sent", "gone"}) ~> main_pc = "returned"

\* A published event reaches main: the slot does not stay full while the
\* receive loop lives, even if no worker ever returns.
ProgressIsTaken == event # NoEvent ~> event = NoEvent \/ main_pc \in {"unwind", "returned"}

(***************************************************************************)
(* The inductive invariant.  FIFO order is what makes the receive loop     *)
(* lossless: a worker's Latest precedes its own Finished.                  *)
(***************************************************************************)
Ended(w) == worker_pc[w] \in {"sent", "gone"}

ReportsAreAccountedFor ==
  /\ \A w \in reports : Ended(w)
  /\ \A i \in DOMAIN channel : channel[i].kind = "Finished" => Ended(channel[i].worker)
  /\ \A w \in Workers : Ended(w) =>
       w \in reports \/ \E i \in DOMAIN channel : channel[i] = Finished(w)

LatestPrecedesFinished ==
  \A i \in DOMAIN channel : InFlight(i) =>
    /\ channel[i].worker \notin reports
    /\ \A j \in DOMAIN channel : channel[j] = Finished(channel[i].worker) => i < j

PendingIsAnnounced == event # NoEvent => notified

SpawnOrder ==
  /\ main_pc = "start" <=> \E w \in Workers : worker_pc[w] = "unspawned"
  /\ main_pc = "start" => \A w \in Workers : worker_pc[w] = "unspawned"
  /\ \A w \in Workers : worker_pc[w] = "drawn" <=> drawn[w] # NoEvent

AfterTheLoop ==
  /\ main_pc \in {"exit", "join"} =>
       /\ event = NoEvent
       /\ \A w \in Workers : worker_pc[w] = "panicked" \/ (Ended(w) /\ w \in reports)
  /\ main_pc \in {"join", "unwind", "returned"} => cancel
  /\ main_pc = "returned" <=> outcome # "none"

ExecutorInv ==
  /\ TypeOK
  /\ OneAnnouncement
  /\ ReportsAreAccountedFor
  /\ LatestPrecedesFinished
  /\ PendingIsAnnounced
  /\ SpawnOrder
  /\ AfterTheLoop
  /\ NoProgressLeftBehind
  /\ SummaryIsLossless
  /\ NothingOutlivesTheScope

\* Threads, channel, flag and joins together implement the executor's promise.
Scope == INSTANCE ExecutionScope WITH
           Events   <- Seqno,
           live     <- {w \in Workers : Alive(w)},
           reported <- reports,
           slot     <- event
ImplementsScope == Scope!Spec
=============================================================================
