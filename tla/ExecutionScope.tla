--------------------------- MODULE ExecutionScope ---------------------------
(***************************************************************************)
(* What the worker executor promises its callers, without threads, channel *)
(* or flags: a set of workers, one progress slot with latest-wins contents,*)
(* and a single return that waits for all of them.                         *)
(***************************************************************************)
CONSTANTS Workers, Events, NoEvent

VARIABLES
  live,       \* workers that have not ended
  reported,   \* workers whose final report the caller holds
  slot,       \* the one unconsumed progress event
  outcome     \* "none" until the call returns

scopeVars == <<live, reported, slot, outcome>>

Init ==
  /\ live = Workers
  /\ reported = {}
  /\ slot = NoEvent
  /\ outcome = "none"

Publish ==
  /\ live # {} /\ outcome = "none"
  /\ slot' \in Events
  /\ UNCHANGED <<live, reported, outcome>>

Consume ==
  /\ outcome = "none"
  /\ slot # NoEvent
  /\ slot' = NoEvent
  /\ UNCHANGED <<live, reported, outcome>>

End(w) ==
  /\ w \in live /\ outcome = "none"
  /\ live' = live \ {w}
  /\ UNCHANGED <<reported, slot, outcome>>

Report(w) ==
  /\ w \notin reported /\ outcome = "none"
  /\ reported' = reported \cup {w}
  /\ UNCHANGED <<live, slot, outcome>>

(* No worker outlives the call.  A summary holds every report, and neither a *)
(* summary nor a handler error abandons a progress event.                    *)
Return ==
  /\ outcome = "none"
  /\ live = {}
  /\ \/ outcome' = "summary" /\ reported = Workers /\ slot = NoEvent
     \/ outcome' = "error" /\ slot = NoEvent
     \/ outcome' = "panic"
  /\ UNCHANGED <<live, reported, slot>>

Next ==
  \/ Publish \/ Consume \/ Return
  \/ \E w \in Workers : End(w) \/ Report(w)

Spec == Init /\ [][Next]_scopeVars
=============================================================================
