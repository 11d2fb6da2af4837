-------------------------- MODULE EnumerationProofs --------------------------
(***************************************************************************)
(* The depth-first enumeration, for any variables, values and solutions,   *)
(* and any filtering that loses no solution.                               *)
(***************************************************************************)
EXTENDS ExhaustiveSearch, TLAPS

Levels == [dom : Domains, var : Vars, val : Values]

TypeOK ==
  /\ goal \in SUBSET [Vars -> Values]
  /\ dom \in Domains /\ levels \in Seq(Levels)
  /\ phase \in {"propagate", "ready", "conflict", "backtrack", "exhausted", "stopped"}
  /\ stop \in BOOLEAN /\ repeated \in BOOLEAN

\* The solutions that the search still has before it: those of the present domains,
\* and those of each open level that the decision excluded.
Here    == IF phase \in {"propagate", "ready"} THEN Box(dom) ELSE {}
Left(k) == Box(Forbid(levels[k]))

\* A solution is reported, here, or left at some level ...
NothingIsLost ==
  phase # "stopped" =>
    \A a \in goal : a \in reported \/ a \in Here \/ \E k \in 1 .. Len(levels) : a \in Left(k)

\* ... and in one of these only.
NothingIsTwice ==
  phase # "stopped" =>
    /\ reported \cap Here = {}
    /\ \A k \in 1 .. Len(levels) :
         /\ reported \cap Left(k) = {} /\ Here \cap Left(k) = {}
         /\ \A j \in 1 .. Len(levels) : j # k => Left(j) \cap Left(k) = {}

\* What the search knows of a full assignment when propagation was not cut short.
FixpointIsSolution == phase = "ready" /\ ~stop /\ AllFixed => Assigned \in goal

SearchInv ==
  /\ TypeOK /\ NothingIsLost /\ NothingIsTwice /\ FixpointIsSolution
  /\ reported \subseteq goal /\ ~repeated
  /\ phase = "exhausted" => levels = <<>>

\* The last open level is all that Backtrack and Decide change.
LEMMA Pop ==
  ASSUME NEW S, NEW s \in Seq(S), s # <<>>
  PROVE  LET t == SubSeq(s, 1, Len(s) - 1)
         IN  /\ t \in Seq(S) /\ Len(t) = Len(s) - 1 /\ Len(s) \in 1 .. Len(s)
             /\ s[Len(s)] \in S
             /\ \A k \in 1 .. Len(t) : t[k] = s[k] /\ k \in 1 .. Len(s) /\ k # Len(s)
             /\ \A k \in 1 .. Len(s) : k = Len(s) \/ k \in 1 .. Len(t)
<1>1. Len(s) \in Nat /\ Len(s) > 0
  OBVIOUS
<1>2. QED
  BY <1>1

\* And what Append adds.
LEMMA Push ==
  ASSUME NEW S, NEW s \in Seq(S), NEW e \in S
  PROVE  LET t == Append(s, e)
         IN  /\ t \in Seq(S) /\ Len(t) = Len(s) + 1 /\ t[Len(t)] = e
             /\ \A k \in 1 .. Len(s) : t[k] = s[k] /\ k \in 1 .. Len(t) /\ k # Len(t)
             /\ Len(t) \in 1 .. Len(t)
             /\ \A k \in 1 .. Len(t) : k = Len(t) \/ k \in 1 .. Len(s)
OBVIOUS

\* A full assignment is the only one within its domains.
LEMMA FullBox ==
  ASSUME TypeOK, AllFixed, Assigned \in goal
  PROVE  Box(dom) = {Assigned}
<1>1. \A v \in Vars : \A u \in dom[v] : u = Assigned[v]
  BY DEF AllFixed, Assigned
<1>2. \A v \in Vars : Assigned[v] \in dom[v]
  BY DEF AllFixed, Assigned
<1>3. \A a \in goal : a \in [Vars -> Values]
  BY DEF TypeOK
<1>4. ASSUME NEW a \in Box(dom) PROVE a = Assigned
  <2>1. a \in [Vars -> Values] /\ \A v \in Vars : a[v] = Assigned[v]
    BY <1>1, <1>3, <1>4 DEF Box, Within
  <2>2. Assigned \in [Vars -> Values]
    BY <1>3
  <2>3. QED
    BY <2>1, <2>2
<1>5. Assigned \in Box(dom)
  BY <1>2 DEF Box, Within
<1>6. QED
  BY <1>4, <1>5

\* A decision divides the solutions of the domains.
LEMMA DecisionDivides ==
  ASSUME TypeOK, NEW v \in Vars, NEW u \in dom[v]
  PROVE  LET level == [dom |-> dom, var |-> v, val |-> u]
             decided == [dom EXCEPT ![v] = {u}]
         IN  /\ Box(dom) = Box(decided) \cup Box(Forbid(level))
             /\ Box(decided) \cap Box(Forbid(level)) = {}
             /\ decided \in Domains /\ level \in Levels
<1> DEFINE level == [dom |-> dom, var |-> v, val |-> u]
           decided == [dom EXCEPT ![v] = {u}]
           forbidden == Forbid(level)
<1>1. /\ dom \in [Vars -> SUBSET Values] /\ u \in Values
      /\ forbidden = [dom EXCEPT ![v] = @ \ {u}]
  BY DEF TypeOK, Domains, Forbid
<1>2. /\ decided[v] = {u} /\ forbidden[v] = dom[v] \ {u}
      /\ \A w \in Vars : w # v => decided[w] = dom[w] /\ forbidden[w] = dom[w]
  BY <1>1
<1>3. decided \in Domains /\ level \in Levels
  BY <1>1 DEF Domains, Levels
<1> HIDE DEF level, decided, forbidden
<1>4. \A a \in goal : Within(a, decided) <=> Within(a, dom) /\ a[v] = u
  BY <1>2 DEF Within
<1>5. \A a \in goal : Within(a, forbidden) <=> Within(a, dom) /\ a[v] # u
  BY <1>2 DEF Within
<1>6. /\ Box(dom) = Box(decided) \cup Box(forbidden)
      /\ Box(decided) \cap Box(forbidden) = {}
  BY <1>4, <1>5 DEF Box
<1>7. QED
  BY <1>3, <1>6 DEF level, decided, forbidden

\* The invariant holds at the start.
LEMMA SearchStarts == Init => SearchInv
<1>1. SUFFICES ASSUME Init PROVE SearchInv
  OBVIOUS
<1>2. /\ levels = <<>> /\ phase = "propagate" /\ reported = {} /\ goal = Box(dom) /\ stop = FALSE
      /\ repeated = FALSE /\ dom \in Domains /\ goal \in SUBSET [Vars -> Values]
  BY <1>1 DEF Init
<1>3. <<>> \in Seq(Levels) /\ Len(<<>>) = 0
  OBVIOUS
<1>4. TypeOK
  BY <1>2, <1>3 DEF TypeOK
<1>5. NothingIsLost /\ NothingIsTwice /\ FixpointIsSolution
  BY <1>2, <1>3 DEF NothingIsLost, NothingIsTwice, FixpointIsSolution, Here
<1>6. QED
  BY <1>2, <1>4, <1>5 DEF SearchInv

\* Steps that keep the levels and what was reported, and do not lose what is here.
LEMMA QuietStep ==
  ASSUME SearchInv, UNCHANGED <<goal, levels, reported, repeated>>, TypeOK', FixpointIsSolution',
         phase' # "stopped" => phase # "stopped" /\ Here' = Here,
         phase' = "exhausted" => levels = <<>>
  PROVE  SearchInv'
<1>1. \A k : Left(k)' = Left(k)
  BY DEF Left, Box
<1>2. NothingIsLost'
  BY <1>1 DEF SearchInv, NothingIsLost
<1>3. NothingIsTwice'
  BY <1>1 DEF SearchInv, NothingIsTwice
<1>4. QED
  BY <1>2, <1>3 DEF SearchInv

\* A filtering step keeps the solutions of the domains, and a failing one had none.
LEMMA FilterKeeps ==
  ASSUME SearchInv, Filter \/ Fail
  PROVE  SearchInv'
<1>1. TypeOK /\ TypeOK'
  BY DEF SearchInv, TypeOK, Filter, Fail
<1>2. /\ UNCHANGED <<goal, levels, reported, repeated>> /\ FixpointIsSolution'
      /\ phase = "propagate" /\ phase' \in {"propagate", "conflict"}
  BY DEF Filter, Fail, FixpointIsSolution
<1>3. CASE Filter
  <2>1. \A a : Within(a, dom') => Within(a, dom)
    BY <1>3 DEF Filter, Within
  <2>2. Box(dom)' = Box(dom)
    BY <1>2, <1>3, <2>1 DEF Filter, Box
  <2>3. Here' = Here
    BY <1>2, <1>3, <2>2 DEF Filter, Here
  <2>4. QED
    BY <1>1, <1>2, <2>3, QuietStep
<1>4. CASE Fail
  <2>1. Here' = Here
    BY <1>2, <1>4 DEF Fail, Here
  <2>2. QED
    BY <1>1, <1>2, <2>1, QuietStep
<1>5. QED
  BY <1>3, <1>4

\* The steps that leave the domains alone.
LEMMA ControlKeeps ==
  ASSUME SearchInv, RaiseStop \/ ReachFixpoint \/ AbandonPropagation \/ Halt \/ Exhaust
  PROVE  SearchInv'
<1>1. UNCHANGED <<goal, dom, levels, reported, repeated>>
  BY DEF RaiseStop, ReachFixpoint, AbandonPropagation, Halt, Exhaust
<1>2. TypeOK'
  BY DEF SearchInv, TypeOK, RaiseStop, ReachFixpoint, AbandonPropagation, Halt, Exhaust
<1>3. Box(dom)' = Box(dom) /\ AllFixed' = AllFixed /\ Assigned' = Assigned
  BY <1>1 DEF Box, AllFixed, Assigned
<1>4. FixpointIsSolution'
  BY <1>1, <1>3 DEF SearchInv, FixpointIsSolution, TypeOK, RaiseStop, ReachFixpoint, AbandonPropagation, Halt, Exhaust
<1>5. phase' # "stopped" => phase # "stopped" /\ Here' = Here
  BY <1>3 DEF Here, RaiseStop, ReachFixpoint, AbandonPropagation, Halt, Exhaust
<1>6. phase' = "exhausted" => levels = <<>>
  BY DEF SearchInv, RaiseStop, ReachFixpoint, AbandonPropagation, Halt, Exhaust
<1>7. QED
  BY <1>1, <1>2, <1>4, <1>5, <1>6, QuietStep

\* Half of what was here is now left at the new level.
LEMMA DecideKeeps ==
  ASSUME SearchInv, Decide
  PROVE  SearchInv'
<1>v. PICK v \in Vars : \E u \in dom[v] :
        /\ levels' = Append(levels, [dom |-> dom, var |-> v, val |-> u])
        /\ dom' = [dom EXCEPT ![v] = {u}]
  BY DEF Decide
<1>1. PICK u \in dom[v] :
        /\ levels' = Append(levels, [dom |-> dom, var |-> v, val |-> u])
        /\ dom' = [dom EXCEPT ![v] = {u}]
  BY <1>v
<1>n. PICK n : n = Len(levels) + 1
  OBVIOUS
<1> DEFINE level == [dom |-> dom, var |-> v, val |-> u]
           decided == [dom EXCEPT ![v] = {u}]
<1>2. UNCHANGED <<goal, stop, reported, repeated>> /\ phase = "ready" /\ phase' = "propagate"
  BY DEF Decide
<1>3. TypeOK /\ NothingIsLost /\ NothingIsTwice /\ reported \subseteq goal /\ ~repeated
  BY DEF SearchInv
<1>4. /\ Box(dom) = Box(decided) \cup Box(Forbid(level))
      /\ Box(decided) \cap Box(Forbid(level)) = {}
      /\ decided \in Domains /\ level \in Levels
  BY <1>3, DecisionDivides
<1>5. dom' = decided /\ levels' = Append(levels, level)
  BY <1>1
<1> HIDE DEF level, decided
<1>6. /\ levels' \in Seq(Levels) /\ Len(levels') = n /\ levels'[n] = level
      /\ \A k \in 1 .. Len(levels) : levels'[k] = levels[k] /\ k \in 1 .. n /\ k # n
      /\ n \in 1 .. n
      /\ \A k \in 1 .. n : k = n \/ k \in 1 .. Len(levels)
  BY <1>3, <1>4, <1>5, <1>n, Push DEF TypeOK
<1>7. Here = Box(dom) /\ Here' = Box(decided)
  BY <1>2, <1>5 DEF Here, Box
<1>8. Left(n)' = Box(Forbid(level))
  BY <1>2, <1>6 DEF Left, Box
<1>9. \A k \in 1 .. Len(levels) : Left(k)' = Left(k)
  BY <1>2, <1>6 DEF Left, Box
<1>10. Here = Here' \cup Left(n)' /\ Here' \cap Left(n)' = {}
  BY <1>4, <1>7, <1>8
<1>11. NothingIsLost'
  BY <1>2, <1>3, <1>6, <1>9, <1>10 DEF NothingIsLost
<1>12. NothingIsTwice'
  BY <1>2, <1>3, <1>6, <1>9, <1>10 DEF NothingIsTwice
<1>13. TypeOK'
  BY <1>2, <1>3, <1>4, <1>5, <1>6 DEF TypeOK
<1>14. QED
  BY <1>2, <1>3, <1>11, <1>12, <1>13 DEF SearchInv, FixpointIsSolution

\* The one solution that was here is now reported; it was nowhere else.
LEMMA ReportKeeps ==
  ASSUME SearchInv, Report
  PROVE  SearchInv'
<1>1. /\ UNCHANGED <<goal, dom, levels, stop>> /\ phase = "ready" /\ phase' \in {"backtrack", "stopped"}
      /\ ~stop /\ AllFixed /\ reported' = reported \cup {Assigned}
      /\ repeated' = (repeated \/ Assigned \in reported)
  BY DEF Report
<1>2. TypeOK /\ NothingIsLost /\ NothingIsTwice /\ reported \subseteq goal /\ ~repeated /\ Assigned \in goal
  BY <1>1 DEF SearchInv, FixpointIsSolution
<1>3. Here = {Assigned} /\ Here' = {}
  BY <1>1, <1>2, FullBox DEF Here
<1>4. \A k : Left(k)' = Left(k)
  BY <1>1 DEF Left, Box
<1>5. Assigned \notin reported /\ \A k \in 1 .. Len(levels) : Assigned \notin Left(k)
  BY <1>1, <1>2, <1>3 DEF NothingIsTwice
<1>6. NothingIsLost'
  BY <1>1, <1>2, <1>3, <1>4 DEF NothingIsLost
<1>7. NothingIsTwice'
  BY <1>1, <1>2, <1>3, <1>4, <1>5 DEF NothingIsTwice
<1>8. TypeOK'
  BY <1>1, <1>2, <1>5 DEF TypeOK
<1>9. QED
  BY <1>1, <1>2, <1>5, <1>6, <1>7, <1>8 DEF SearchInv, FixpointIsSolution

\* What the last level had left is here now.
LEMMA BacktrackKeeps ==
  ASSUME SearchInv, BacktrackAndForbid
  PROVE  SearchInv'
<1>n. PICK n : n = Len(levels)
  OBVIOUS
<1>1. /\ UNCHANGED <<goal, stop, reported, repeated>> /\ phase \in {"conflict", "backtrack"} /\ levels # <<>>
      /\ dom' = Forbid(levels[n]) /\ levels' = SubSeq(levels, 1, n - 1)
      /\ phase' = IF dom'[levels[n].var] = {} THEN "backtrack" ELSE "propagate"
  BY <1>n DEF BacktrackAndForbid
<1>2. TypeOK /\ NothingIsLost /\ NothingIsTwice /\ reported \subseteq goal /\ ~repeated
  BY DEF SearchInv
<1>3. /\ levels' \in Seq(Levels) /\ Len(levels') = n - 1 /\ n \in 1 .. n /\ levels[n] \in Levels
      /\ \A k \in 1 .. Len(levels') : levels'[k] = levels[k] /\ k \in 1 .. n /\ k # n
      /\ \A k \in 1 .. n : k = n \/ k \in 1 .. Len(levels')
  BY <1>1, <1>2, <1>n, Pop DEF TypeOK
<1>4. dom' \in Domains
  BY <1>1, <1>3 DEF Levels, Domains, Forbid
<1>5. Here = {}
  BY <1>1 DEF Here
<1>6. Box(dom)' = Left(n)
  BY <1>1 DEF Left, Box
<1>7. Here' = Left(n)
  <2>1. CASE dom'[levels[n].var] = {}
    <3>1. Box(dom)' = {}
      BY <1>1, <1>3, <2>1 DEF Box, Within, Levels
    <3>2. QED
      BY <1>1, <1>6, <2>1, <3>1 DEF Here
  <2>2. CASE dom'[levels[n].var] # {}
    BY <1>1, <1>6, <2>2 DEF Here
  <2>3. QED
    BY <2>1, <2>2
<1>8. \A k \in 1 .. Len(levels') : Left(k)' = Left(k)
  BY <1>1, <1>3 DEF Left, Box
<1>9. NothingIsLost'
  BY <1>1, <1>2, <1>3, <1>5, <1>7, <1>8, <1>n DEF NothingIsLost
<1>10. NothingIsTwice'
  BY <1>1, <1>2, <1>3, <1>5, <1>7, <1>8, <1>n DEF NothingIsTwice
<1>11. TypeOK'
  BY <1>1, <1>2, <1>3, <1>4 DEF TypeOK
<1>12. QED
  BY <1>1, <1>2, <1>9, <1>10, <1>11 DEF SearchInv, FixpointIsSolution

\* Every step keeps the invariant.
LEMMA SearchStepKeeps == SearchInv /\ [Next]_searchVars => SearchInv'
<1>1. SUFFICES ASSUME SearchInv, [Next]_searchVars PROVE SearchInv'
  OBVIOUS
<1>2. CASE UNCHANGED searchVars
  BY <1>1, <1>2
  DEF searchVars, SearchInv, TypeOK, NothingIsLost, NothingIsTwice, FixpointIsSolution, Here, Left, Box, AllFixed, Assigned
<1>3. CASE Next
  BY <1>1, <1>3, FilterKeeps, ControlKeeps, DecideKeeps, ReportKeeps, BacktrackKeeps DEF Next
<1>4. QED
  BY <1>1, <1>2, <1>3

\* For any variables, values and constraints, in whatever order the search branches and
\* however little its propagators remove: each solution is handed over at most once,
\* nothing else is, and a search that ends by itself has handed over all of them.
THEOREM EnumerationIsOnceAndAll == Spec => []EachSolutionOnce
<1>1. SearchInv => EachSolutionOnce
  <2>1. SUFFICES ASSUME SearchInv PROVE EachSolutionOnce
    OBVIOUS
  <2>2. ASSUME phase = "exhausted" PROVE goal \subseteq reported
    <3>1. Here = {} /\ Len(levels) = 0
      BY <2>1, <2>2 DEF SearchInv, Here
    <3>2. QED
      BY <2>1, <2>2, <3>1 DEF SearchInv, NothingIsLost
  <2>3. QED
    BY <2>1, <2>2 DEF SearchInv, EachSolutionOnce
<1>2. QED
  BY SearchStarts, SearchStepKeeps, <1>1, PTL DEF Spec
===============================================================================
