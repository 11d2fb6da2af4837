---------------------------- MODULE SolveProtocol ----------------------------
(***************************************************************************)
(* One solve under a caller's stop flag: solve_with_monitored_external_stop *)
(* of src/orchestrator/solve.rs, solve_with_external_stop of session.rs,    *)
(* and the event sink and final publication of finalize.rs.                *)
(*                                                                         *)
(* The caller may raise its flag at any time, from any thread; a monitor    *)
(* polls it into the budget; the solving thread calls the caller's event    *)
(* sink synchronously and, at the end, decides whether the stop or the      *)
(* evidence already handed over wins.  The budget is its hard-stop flag     *)
(* (see Budget for how it is raised).                                       *)
(***************************************************************************)
EXTENDS Naturals, Sequences

CONSTANTS
  MaxTransfers  \* bound: events sent while searching

ASSUME ProtocolAssumption == MaxTransfers \in Nat

Kinds    == {"Transfer", "Candidate", "Bound", "Proof", "Finished"}
Evidence == {"Candidate", "Proof"}
Answers  == {"Continue", "Stop", "Error"}

VARIABLES
  session,        \* whether a session solves, or the solve function
  external_stop,  \* the caller's flag
  hard_stop,      \* the budget's
  monitor, done,  \* the polling thread and monitor_done
  main,           \* the solving thread
  transfers,      \* events sent so far by the search
  result,         \* what the solve returned: "none", "solved", "error"
  queue,          \* events of the result still to publish
  event,          \* the event being emitted
  answer,         \* what its emission gave
  published,      \* ExternalStopEventSink.final_evidence_published
  delivered,      \* what the caller's sink saw of the result: kind and answer
  outcome         \* what the caller gets: "none", "solved", "error", "stopped"

vars == <<session, external_stop, hard_stop, monitor, done, main, transfers, result, queue,
          event, answer, published, delivered, outcome>>

Message == [kind : Kinds, answer : Answers]

TypeOK ==
  /\ session \in BOOLEAN /\ external_stop \in BOOLEAN /\ hard_stop \in BOOLEAN
  /\ monitor \in {"check", "poll", "gone"} /\ done \in BOOLEAN
  /\ main \in {"start", "search", "publish", "before", "target", "after", "handle",
               "decide", "join", "returned"}
  /\ transfers \in 0 .. MaxTransfers
  /\ result \in {"none", "solved", "error"}
  /\ queue \in Seq(Kinds) /\ event \in Kinds /\ answer \in Answers
  /\ published \in BOOLEAN /\ delivered \in Seq(Message)
  /\ outcome \in {"none", "solved", "error", "stopped"}
  /\ outcome = "none" <=> main \notin {"join", "returned"}

Init ==
  /\ session \in BOOLEAN /\ external_stop \in BOOLEAN /\ hard_stop = FALSE
  /\ monitor = "check" /\ done = FALSE
  /\ main = "start" /\ transfers = 0 /\ result = "none"
  /\ queue = <<>> /\ event = "Transfer" /\ answer = "Continue"
  /\ published = FALSE /\ delivered = <<>> /\ outcome = "none"

-----------------------------------------------------------------------------
(* Outside the solving thread.                                             *)

RaiseStop ==
  /\ ~external_stop /\ external_stop' = TRUE
  /\ UNCHANGED <<session, hard_stop, monitor, done, main, transfers, result, queue, event, answer, published, delivered, outcome>>

\* The loop reads monitor_done, then the flag; once it has cancelled it ends.
MonitorCheck ==
  /\ monitor = "check" /\ main # "start"
  /\ monitor' = (IF done THEN "gone" ELSE "poll")
  /\ UNCHANGED <<session, external_stop, hard_stop, done, main, transfers, result, queue, event, answer, published, delivered, outcome>>

MonitorPoll ==
  /\ monitor = "poll"
  /\ monitor' = (IF external_stop THEN "gone" ELSE "check")
  /\ hard_stop' = (hard_stop \/ external_stop)
  /\ UNCHANGED <<session, external_stop, done, main, transfers, result, queue, event, answer, published, delivered, outcome>>

\* The memory monitor.
CancelForMemory ==
  /\ main \in {"search", "publish", "before", "target", "after", "handle"}
  /\ hard_stop' = TRUE
  /\ UNCHANGED <<session, external_stop, monitor, done, main, transfers, result, queue, event, answer, published, delivered, outcome>>

-----------------------------------------------------------------------------
(* The search, and the result it ends with.                                *)

Start ==
  /\ main = "start" /\ main' = "search"
  /\ hard_stop' = external_stop
  /\ UNCHANGED <<session, external_stop, monitor, done, transfers, result, queue, event, answer, published, delivered, outcome>>

\* A transfer candidate or progress, sent while searching.
EmitTransfer ==
  /\ main = "search" /\ transfers < MaxTransfers
  /\ main' = "before" /\ event' = "Transfer" /\ transfers' = transfers + 1
  /\ UNCHANGED <<session, external_stop, hard_stop, monitor, done, result, queue, answer, published, delivered, outcome>>

\* The events of a result, in the order of publish_result_events.
ResultEvents == {<<"Finished">>, <<"Bound", "Finished">>, <<"Candidate", "Finished">>,
                 <<"Candidate", "Bound", "Finished">>, <<"Proof", "Finished">>,
                 <<"Candidate", "Bound", "Proof", "Finished">>}

\* The search ends by itself, because of a stop (with what it has), or fails.
EndSearch ==
  /\ main = "search"
  /\ \/ main' = "publish" /\ result' = "solved" /\ queue' \in ResultEvents
     \/ main' = "decide" /\ result' = "error" /\ UNCHANGED queue
  /\ UNCHANGED <<session, external_stop, hard_stop, monitor, done, transfers, event, answer, published, delivered, outcome>>

\* publish_result_events, around each emission.
Publish ==
  /\ main = "publish"
  /\ IF hard_stop \/ queue = <<>>
     THEN main' = "decide" /\ UNCHANGED <<queue, event>>
     ELSE main' = "before" /\ event' = Head(queue) /\ queue' = Tail(queue)
  /\ UNCHANGED <<session, external_stop, hard_stop, monitor, done, transfers, result, answer, published, delivered, outcome>>

-----------------------------------------------------------------------------
(* ExternalStopEventSink.emit.                                             *)

Before_WithoutCheck ==
  /\ main = "before" /\ main' = "target"
  /\ UNCHANGED <<session, external_stop, hard_stop, monitor, done, transfers, result, queue, event, answer, published, delivered, outcome>>
Before ==
  /\ main = "before"
  /\ IF external_stop THEN main' = "handle" /\ hard_stop' = TRUE /\ answer' = "Stop"
                      ELSE main' = "target" /\ UNCHANGED <<hard_stop, answer>>
  /\ UNCHANGED <<session, external_stop, monitor, done, transfers, result, queue, event, published, delivered, outcome>>

\* The caller's own sink: it may take any time and answer anything.
Target_CountsCandidatesOnly ==
  /\ main = "target" /\ main' = "after"
  /\ answer' \in Answers
  /\ published' = (published \/ (answer' # "Error" /\ event = "Candidate"))
  /\ delivered' = (IF event = "Transfer" THEN delivered
                   ELSE Append(delivered, [kind |-> event, answer |-> answer']))
  /\ UNCHANGED <<session, external_stop, hard_stop, monitor, done, transfers, result, queue, event, outcome>>
Target ==
  /\ main = "target" /\ main' = "after"
  /\ answer' \in Answers
  /\ published' = (published \/ (answer' # "Error" /\ event \in Evidence))
  /\ delivered' = (IF event = "Transfer" THEN delivered
                   ELSE Append(delivered, [kind |-> event, answer |-> answer']))
  /\ UNCHANGED <<session, external_stop, hard_stop, monitor, done, transfers, result, queue, event, outcome>>

After ==
  /\ main = "after" /\ main' = "handle"
  /\ IF external_stop
     THEN hard_stop' = TRUE /\ answer' = (IF answer = "Error" THEN "Error" ELSE "Stop")
     ELSE UNCHANGED <<hard_stop, answer>>
  /\ UNCHANGED <<session, external_stop, monitor, done, transfers, result, queue, event, published, delivered, outcome>>

\* The emitter: a stop cancels the budget and ends the sequence; an error is the
\* result of the solve.
Handle_IgnoresConsumer ==
  /\ main = "handle"
  /\ IF answer = "Error" THEN result' = "error" /\ main' = "decide"
     ELSE UNCHANGED result /\ main' = (IF event = "Transfer" THEN "search" ELSE "publish")
  /\ UNCHANGED <<session, external_stop, hard_stop, monitor, done, transfers, queue, event, answer, published, delivered, outcome>>
Handle ==
  /\ main = "handle"
  /\ \/ /\ answer = "Continue" /\ UNCHANGED <<hard_stop, result>>
        /\ main' = (IF event = "Transfer" THEN "search" ELSE "publish")
     \/ /\ answer = "Stop" /\ hard_stop' = TRUE /\ UNCHANGED result
        /\ main' = (IF event = "Transfer" THEN "search" ELSE "decide")
     \/ /\ answer = "Error" /\ result' = "error" /\ main' = "decide"
        /\ hard_stop' = (hard_stop \/ event = "Transfer")
  /\ UNCHANGED <<session, external_stop, monitor, done, transfers, queue, event, answer, published, delivered, outcome>>

-----------------------------------------------------------------------------
(* The end of the solve.                                                   *)

\* Only evidence the caller has survives its stop.  A session keeps an error.
StopWins == external_stop /\ ~published /\ (session => result # "error")

Decide_LeavesMonitor ==
  /\ main = "decide" /\ main' = "join"
  /\ outcome' = (IF StopWins THEN "stopped" ELSE result)
  /\ hard_stop' = (hard_stop \/ StopWins)
  /\ UNCHANGED <<session, external_stop, monitor, done, transfers, result, queue, event, answer, published, delivered>>
Decide ==
  /\ main = "decide" /\ main' = "join"
  /\ outcome' = (IF StopWins THEN "stopped" ELSE result)
  /\ hard_stop' = (hard_stop \/ StopWins)
  /\ done' = TRUE
  /\ UNCHANGED <<session, external_stop, monitor, transfers, result, queue, event, answer, published, delivered>>

Join ==
  /\ main = "join" /\ monitor = "gone" /\ main' = "returned"
  /\ UNCHANGED <<session, external_stop, hard_stop, monitor, done, transfers, result, queue, event, answer, published, delivered, outcome>>

-----------------------------------------------------------------------------
MonitorStep == MonitorCheck \/ MonitorPoll
MainStep == Start \/ EmitTransfer \/ EndSearch \/ Publish \/ Before \/ Target \/ After \/ Handle \/ Decide \/ Join
Next == RaiseStop \/ MonitorStep \/ CancelForMemory \/ MainStep

Spec == Init /\ [][Next]_vars

\* The threads run, and the caller's sink returns.  A search is only required to
\* end when it is stopped.
Fairness ==
  /\ WF_vars(MonitorStep)
  /\ WF_vars(Start \/ Publish \/ Before \/ Target \/ After \/ Handle \/ Decide \/ Join)
  /\ WF_vars(hard_stop /\ EndSearch)

-----------------------------------------------------------------------------
(* Properties.                                                             *)

InHand == main = "target" /\ event \in Evidence

\* A stop before final evidence wins: once the flag is up, evidence that was not in
\* the hands of the caller's sink already is never handed over, and the solve is
\* stopped (or failed), whatever the search had found.
StopBeforeEvidenceWins ==
  (external_stop /\ ~published /\ ~InHand /\ outcome = "none") ~> (outcome \in {"stopped", "error"})

\* Evidence that reached the caller is not replaced by UNKNOWN later.
EvidenceIsKept ==
  (\E i \in DOMAIN delivered : delivered[i].kind \in Evidence /\ delivered[i].answer # "Error")
    => outcome # "stopped"

\* A stop or an error of the caller's sink ends the final sequence.
ConsumerStopIsTerminal ==
  \A i \in DOMAIN delivered : i < Len(delivered) => delivered[i].answer = "Continue"

\* Every solve that has its result, or is stopped, returns: the monitor is told to
\* end on every path and has been joined by then.
SolveReturns == (main = "decide" \/ external_stop) ~> (main = "returned" /\ monitor = "gone")
=============================================================================
