--------------------------- MODULE ExhaustiveSearch ---------------------------
(***************************************************************************)
(* What an enumeration of all solutions promises, for any filtering that   *)
(* loses none (the contract of Propagator::propagate): a depth-first search*)
(* over domains and open levels hands over each solution once, and all of  *)
(* them when it ends by itself.                                            *)
(***************************************************************************)
EXTENDS Integers, Sequences

CONSTANTS Vars, Values

VARIABLES
  goal,       \* the assignments that satisfy all constraints
  dom,        \* the domain of each variable
  levels,     \* open levels: the domains before the decision, and the decision
  phase, stop,
  reported, repeated

searchVars == <<goal, dom, levels, phase, stop, reported, repeated>>

Domains     == [Vars -> SUBSET Values]
Within(a, d) == \A v \in Vars : a[v] \in d[v]
Box(d)      == {a \in goal : Within(a, d)}

AllFixed == \A v \in Vars : \E u \in Values : dom[v] = {u}
Assigned == [v \in Vars |-> CHOOSE u \in dom[v] : TRUE]

Init ==
  /\ dom \in Domains /\ goal \in SUBSET [Vars -> Values] /\ goal = Box(dom)
  /\ levels = <<>> /\ phase = "propagate" /\ stop = FALSE
  /\ reported = {} /\ repeated = FALSE

RaiseStop == stop' = TRUE /\ UNCHANGED <<goal, dom, levels, phase, reported, repeated>>

\* A propagator removes values that no solution in the domains has.
Filter ==
  /\ phase = "propagate" /\ ~stop
  /\ dom' \in Domains /\ Box(dom) \subseteq Box(dom')
  /\ \A v \in Vars : dom'[v] \subseteq dom[v]
  /\ UNCHANGED <<goal, levels, phase, stop, reported, repeated>>

\* It fails only where there is no solution, and may leave the domains half changed.
Fail ==
  /\ phase = "propagate" /\ ~stop /\ Box(dom) = {}
  /\ dom' \in Domains /\ phase' = "conflict"
  /\ UNCHANGED <<goal, levels, stop, reported, repeated>>

\* When none has anything left to do, a full assignment is a solution.
ReachFixpoint ==
  /\ phase = "propagate" /\ ~stop /\ (AllFixed => Assigned \in goal)
  /\ phase' = "ready"
  /\ UNCHANGED <<goal, dom, levels, stop, reported, repeated>>

\* A stop ends the propagation before its fixpoint, and then the search.
AbandonPropagation ==
  /\ phase = "propagate" /\ stop /\ phase' = "ready"
  /\ UNCHANGED <<goal, dom, levels, stop, reported, repeated>>

Halt ==
  /\ phase = "ready" /\ stop /\ phase' = "stopped"
  /\ UNCHANGED <<goal, dom, levels, stop, reported, repeated>>

Decide ==
  /\ phase = "ready" /\ ~stop
  /\ \E v \in Vars : \E u \in dom[v] :
       /\ levels' = Append(levels, [dom |-> dom, var |-> v, val |-> u])
       /\ dom' = [dom EXCEPT ![v] = {u}]
  /\ phase' = "propagate"
  /\ UNCHANGED <<goal, stop, reported, repeated>>

Report ==
  /\ phase = "ready" /\ ~stop /\ AllFixed
  /\ reported' = reported \cup {Assigned} /\ repeated' = (repeated \/ Assigned \in reported)
  /\ phase' \in {"backtrack", "stopped"}
  /\ UNCHANGED <<goal, dom, levels, stop>>

Exhaust ==
  /\ phase \in {"conflict", "backtrack"} /\ levels = <<>> /\ phase' = "exhausted"
  /\ UNCHANGED <<goal, dom, levels, stop, reported, repeated>>

\* The domains of the level before the decision, without the decided value.
Forbid(level) == [level.dom EXCEPT ![level.var] = @ \ {level.val}]

BacktrackAndForbid ==
  /\ phase \in {"conflict", "backtrack"} /\ levels # <<>>
  /\ LET top == levels[Len(levels)]
     IN  /\ dom' = Forbid(top)
         /\ phase' = IF dom'[top.var] = {} THEN "backtrack" ELSE "propagate"
  /\ levels' = SubSeq(levels, 1, Len(levels) - 1)
  /\ UNCHANGED <<goal, stop, reported, repeated>>

Next == \/ RaiseStop \/ Filter \/ Fail \/ ReachFixpoint \/ AbandonPropagation \/ Halt
        \/ Decide \/ Report \/ Exhaust \/ BacktrackAndForbid

Spec == Init /\ [][Next]_searchVars

\* Each solution is handed over once, and an exhausted search has handed over all.
EachSolutionOnce ==
  /\ reported \subseteq goal /\ ~repeated
  /\ phase = "exhausted" => reported = goal
===============================================================================
