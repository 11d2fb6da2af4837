--------------------------- MODULE ExternalCalls ---------------------------
(***************************************************************************)
(* Interruptible calls of external functions: src/model/list/external.rs.  *)
(*                                                                         *)
(* The final replay evaluates a callback it cannot trust to return, so each*)
(* call runs on a detached thread of its own, and the caller polls its stop*)
(* flag while it waits for the answer.  A permit, counted for the whole    *)
(* process, travels with the thread: an abandoned evaluator keeps it until *)
(* it returns, if it ever does.                                            *)
(***************************************************************************)
EXTENDS Naturals, FiniteSets

CONSTANTS
  Calls,       \* the calls made during the process's life, by any thread
  MaxDetached  \* MAX_DETACHED_EXTERNAL_CALLS

ASSUME ExternalAssumption == IsFiniteSet(Calls) /\ MaxDetached \in Nat

VARIABLES
  active,      \* ACTIVE_EXTERNAL_CALLS
  caller,      \* where each call is, or how it ended
  call_stop,   \* the stop flag each call polls
  evaluator,   \* the detached thread of each call
  channel      \* its channel: "empty", "full" or "closed"

callVars == <<active, caller, call_stop, evaluator, channel>>

Ended == {"interrupted", "answered", "failed"}

CallsTypeOK ==
  /\ active \in Nat
  /\ caller \in [Calls -> {"idle", "lookup", "acquire", "spawn", "wait"} \cup Ended]
  /\ call_stop \in [Calls -> BOOLEAN]
  /\ evaluator \in [Calls -> {"none", "evaluating", "release", "close", "gone"}]
  /\ channel \in [Calls -> {"empty", "full", "closed"}]

CallsInit ==
  /\ active = 0
  /\ caller = [c \in Calls |-> "idle"]
  /\ call_stop = [c \in Calls |-> FALSE]
  /\ evaluator = [c \in Calls |-> "none"]
  /\ channel = [c \in Calls |-> "empty"]

Advance(c, from, to) == caller[c] = from /\ caller' = [caller EXCEPT ![c] = to]

-----------------------------------------------------------------------------
(* The calling thread.                                                     *)

Enter(c) ==
  /\ Advance(c, "idle", IF call_stop[c] THEN "interrupted" ELSE "lookup")
  /\ UNCHANGED <<active, call_stop, evaluator, channel>>

\* external_function: the name may not be registered.
LookUp(c) ==
  /\ Advance(c, "lookup", "acquire") \/ Advance(c, "lookup", "failed")
  /\ UNCHANGED <<active, call_stop, evaluator, channel>>

Acquire(c) ==
  /\ \/ active < MaxDetached /\ Advance(c, "acquire", "spawn") /\ active' = active + 1
     \/ active >= MaxDetached /\ Advance(c, "acquire", "interrupted") /\ UNCHANGED active
  /\ UNCHANGED <<call_stop, evaluator, channel>>

SpawnCall_LeaksPermit(c) ==
  /\ \/ Advance(c, "spawn", "wait") /\ evaluator' = [evaluator EXCEPT ![c] = "evaluating"]
     \/ Advance(c, "spawn", "interrupted") /\ UNCHANGED evaluator
  /\ UNCHANGED <<active, call_stop, channel>>
\* A thread that cannot be spawned drops its closure, and the permit with it.
SpawnCall(c) ==
  /\ \/ /\ Advance(c, "spawn", "wait")
        /\ evaluator' = [evaluator EXCEPT ![c] = "evaluating"] /\ UNCHANGED active
     \/ /\ Advance(c, "spawn", "interrupted")
        /\ active' = active - 1 /\ UNCHANGED evaluator
  /\ UNCHANGED <<call_stop, channel>>

Receive(c) ==
  /\ \/ channel[c] = "full" /\ Advance(c, "wait", "answered")
     \/ channel[c] = "closed" /\ Advance(c, "wait", "failed")
  /\ UNCHANGED <<active, call_stop, evaluator, channel>>

TimeOut_KeepsWaiting(c) ==
  /\ channel[c] = "empty" /\ Advance(c, "wait", "wait")
  /\ UNCHANGED <<active, call_stop, evaluator, channel>>
\* The poll interval passes without an answer.
TimeOut(c) ==
  /\ channel[c] = "empty" /\ call_stop[c] /\ Advance(c, "wait", "interrupted")
  /\ UNCHANGED <<active, call_stop, evaluator, channel>>

-----------------------------------------------------------------------------
(* The detached thread, and the request that stops its caller.             *)

\* The evaluator returns and its result is sent, or it panics; a caller that has
\* given up does not read the channel.
EvaluatorEnds(c) ==
  /\ evaluator[c] = "evaluating" /\ evaluator' = [evaluator EXCEPT ![c] = "release"]
  /\ channel' \in {channel, [channel EXCEPT ![c] = "full"]}
  /\ UNCHANGED <<active, caller, call_stop>>

ReleasePermit(c) ==
  /\ evaluator[c] = "release" /\ evaluator' = [evaluator EXCEPT ![c] = "close"]
  /\ active' = active - 1
  /\ UNCHANGED <<caller, call_stop, channel>>

\* The sender goes last: a panic shows as a closed channel only then.
CloseChannel(c) ==
  /\ evaluator[c] = "close" /\ evaluator' = [evaluator EXCEPT ![c] = "gone"]
  /\ channel' = [channel EXCEPT ![c] = IF channel[c] = "empty" THEN "closed" ELSE channel[c]]
  /\ UNCHANGED <<active, caller, call_stop>>

StopCall(c) ==
  /\ ~call_stop[c]
  /\ call_stop' = [call_stop EXCEPT ![c] = TRUE]
  /\ UNCHANGED <<active, caller, evaluator, channel>>

-----------------------------------------------------------------------------
CallerStep(c) == Enter(c) \/ LookUp(c) \/ Acquire(c) \/ SpawnCall(c) \/ Receive(c) \/ TimeOut(c)
ThreadStep(c) == ReleasePermit(c) \/ CloseChannel(c)

CallsNext == \E c \in Calls : CallerStep(c) \/ EvaluatorEnds(c) \/ ThreadStep(c) \/ StopCall(c)

CallsSpec == CallsInit /\ [][CallsNext]_callVars

\* Threads are scheduled; an evaluator need never return.
CallsFairness == \A c \in Calls : WF_callVars(CallerStep(c)) /\ WF_callVars(ThreadStep(c))

-----------------------------------------------------------------------------
(* Properties.                                                             *)

Holders == {c \in Calls : caller[c] = "spawn" \/ evaluator[c] \in {"evaluating", "release"}}

\* The counter of the process is the number of permits in someone's hands, however
\* each call ended: a refused, abandoned, panicked or never started evaluator
\* neither keeps a permit for good nor gives one back twice.
PermitsAreExact == CallsTypeOK /\ active = Cardinality(Holders) /\ active <= MaxDetached

\* "Without allowing a non-cooperative callback to hold final canonical replay
\* beyond its cancellation boundary" (external.rs:46): a stopped call ends whatever
\* its evaluator does, and a call whose evaluator ended does too.
StoppedCallsEnd ==
  \A c \in Calls :
    (caller[c] # "idle" /\ (call_stop[c] \/ evaluator[c] = "release")) ~> (caller[c] \in Ended)
=============================================================================
