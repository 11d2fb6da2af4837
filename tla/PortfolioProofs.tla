---------------------------- MODULE PortfolioProofs ----------------------------
(***************************************************************************)
(* The exact portfolio, for any finite set of workers in the three roles,  *)
(* any points and costs, either direction of the objective, any limits of  *)
(* the work queue.                                                         *)
(*                                                                         *)
(* The invariant has three layers.  PublicationInv: the holder of the lock *)
(* writes a better incumbent in three steps, so that the incumbent only    *)
(* improves and a bound it has reached stays reached.  EvidenceInv: the    *)
(* certified bound, the shared clauses and the range of the probes exclude *)
(* no point that would improve it.  WorkInv: active counts the workers     *)
(* that hold a cube, and what would improve the incumbent is in a job, in  *)
(* a cube held, or in one let go.  Each way to a proof needs one layer.    *)
(***************************************************************************)
EXTENDS Portfolio, FiniteSetTheorems, TLAPS

\* The bounds that the incumbent has reached: nothing that improves on it is lost by
\* pruning with them, and they stay reached when it improves.
Reached == {NoBound} \cup {b \in Values : best_present /\ Reaches(best_value, b)}

-----------------------------------------------------------------------------
(* The control points of each role.                                        *)

RolesKept ==
  \A w \in Workers :
    /\ Splitter(w) => pc[w] \in Holding \cup {"take", "prove", "loop", "done"}
    /\ w \in Regular /\ ~Splitter(w) => pc[w] \in {"search", "prove", "done"} \cup Reporting
    /\ w \in Probes => pc[w] \in {"check", "compare", "pick", "aim", "probe", "last", "verdict", "done"}
                                    \cup Reporting
    /\ w \in Lns => pc[w] \in {"lns", "done"} \cup Reporting

-----------------------------------------------------------------------------
(* The report of an improvement.                                           *)

\* What the holder of the lock has done of its report.
ReportsAreOrdered ==
  /\ slot \in Feasible \cup {NoPoint}
  /\ best_present => best_value \in Values
  /\ lock = NoWorker => (best_present <=> slot # NoPoint) /\ (best_present => best_value = cost[slot])
  /\ \A w \in Workers :
       /\ pc[w] \in Reporting => found[w] \in Feasible
       /\ pc[w] \in {"present", "slot"} <=> lock = w
       /\ pc[w] \in {"present", "slot"} => best_value = cost[found[w]]
       /\ pc[w] = "present" => (best_present <=> slot # NoPoint)
       /\ pc[w] = "slot" => best_present

\* The bounds that were read, found or published earlier.
BoundsAreReached ==
  \A w \in Workers :
    /\ w \in Regular => bound[w] \in Reached
    /\ w \in Probes /\ pc[w] \in {"compare", "verdict"} => bound[w] \in Reached
    /\ pc[w] = "probe" => bound[w] \in Values
    /\ pc[w] = "certify" => cost[found[w]] \in Reached

CertificateHolds == certified # NoBound => \A p \in Feasible : Reaches(certified, cost[p])

ClausesAreSound == \A w \in Workers : pruned[w] \cap Feasible = {}

\* No feasible point is outside the range of the probes.
RangeHolds ==
  /\ Low <= lower /\ upper <= High
  /\ \A p \in Feasible : lower <= cost[p] /\ cost[p] <= upper

-----------------------------------------------------------------------------
(* The work queue.                                                         *)

\* A worker holds no cube while it looks for one, and lets an exhausted one go.
CubesAreHeld ==
  \A w \in Regular :
    /\ ~Splitter(w) => cube[w] = Points
    /\ Splitter(w) /\ pc[w] \in {"take", "prove"} => cube[w] = {}
    /\ Splitter(w) /\ pc[w] = "loop" /\ complete[w] => cube[w] = {}

\* What a search that has answered "complete" has left.
NothingLeft ==
  \A w \in Regular :
    (pc[w] = "finish" /\ complete[w]) \/ (pc[w] = "prove" /\ ~Splitter(w)) => cube[w] \cap Improving = {}

\* The last of the workers finds the queue as it will stay.
QueueIsSettled ==
  \A w \in Regular : pc[w] = "prove" /\ Splitter(w) => jobs = <<>> /\ active = 0

PublicationInv == TypeOK /\ RolesKept /\ ReportsAreOrdered /\ BoundsAreReached
EvidenceInv    == CertificateHolds /\ ClausesAreSound /\ RangeHolds /\ SharedClausesKeepSolutions
WorkInv        == CubesAreHeld /\ NothingLeft /\ QueueIsSettled /\ ActiveCountsHolders
                  /\ SplitsBounded /\ QueueCoversImprovements

PortfolioInv == PublicationInv /\ EvidenceInv /\ WorkInv /\ ProofsAreHonest

-----------------------------------------------------------------------------
(* Facts about the operators.                                              *)

LEMMA QueueTypes ==
  ASSUME NEW S, NEW s \in Seq(S)
  PROVE  /\ Len(s) \in Nat
         /\ s # <<>> => Head(s) \in S /\ Tail(s) \in Seq(S) /\ Len(Tail(s)) = Len(s) - 1
         /\ \A e \in S : Append(s, e) \in Seq(S) /\ Len(Append(s, e)) = Len(s) + 1
OBVIOUS

LEMMA HoldersAreFinite == IsFiniteSet(Holders)
<1>1. Holders \subseteq Workers
  BY DEF Holders, Workers
<1>q. QED
  BY <1>1, FS_Subset, PortfolioAssumption

LEMMA HoldersAreCounted ==
  ASSUME NEW w \in Holders
  PROVE  Cardinality(Holders) \in Nat \ {0}
<1>1. Cardinality(Holders) \in Nat
  BY HoldersAreFinite, FS_CardinalityType
<1>2. Cardinality(Holders) # 0
  BY HoldersAreFinite, FS_EmptySet
<1>q. QED
  BY <1>1, <1>2

\* A worker's step leaves the local variables of the others alone.
LEMMA OthersStand ==
  ASSUME TypeOK, NEW w \in Workers, WorkerStep(w), NEW v \in Workers \ {w}
  PROVE  /\ pc'[v] = pc[v] /\ cube'[v] = cube[v] /\ complete'[v] = complete[v]
         /\ found'[v] = found[v] /\ bound'[v] = bound[v] /\ pruned'[v] = pruned[v]

<1> USE DEF TypeOK, At, Goto, problem, flags, incumbent, work, range, locals
<1>1. CASE Take(w)
  BY <1>1 DEF Take
<1>2. CASE ChooseLiteral(w)
  BY <1>2 DEF ChooseLiteral
<1>3. CASE StopSplitting(w)
  BY <1>3 DEF StopSplitting
<1>4. CASE TryPushSplit(w)
  BY <1>4 DEF TryPushSplit
<1>5. CASE StartSearch(w)
  BY <1>5 DEF StartSearch
<1>6. CASE TightenBound(w)
  BY <1>6 DEF TightenBound
<1>7. CASE SyncSharedClauses(w)
  BY <1>7 DEF SyncSharedClauses
<1>8. CASE ExportClause(w)
  BY <1>8 DEF ExportClause
<1>9. CASE FindSolution(w)
  BY <1>9 DEF FindSolution
<1>10. CASE ExhaustCube(w)
  BY <1>10 DEF ExhaustCube
<1>11. CASE StopSearch(w)
  BY <1>11 DEF StopSearch
<1>12. CASE Prove(w)
  BY <1>12 DEF Prove
<1>13. CASE FinishCube(w)
  BY <1>13 DEF FinishCube
<1>14. CASE NextCube(w)
  BY <1>14 DEF NextCube
<1>15. CASE ReportImprovement(w)
  BY <1>15 DEF ReportImprovement, ReportDone
<1>16. CASE PublishPresence(w)
  BY <1>16 DEF PublishPresence
<1>17. CASE StoreSolution(w)
  BY <1>17 DEF StoreSolution
<1>18. CASE CertifyImprovement(w)
  BY <1>18 DEF CertifyImprovement, ReportDone
<1>19. CASE BeginProbe(w)
  BY <1>19 DEF BeginProbe, LoadBest
<1>20. CASE FinishIfProbed(w)
  BY <1>20 DEF FinishIfProbed
<1>21. CASE LoadBestForProbe(w)
  BY <1>21 DEF LoadBestForProbe, LoadBest
<1>22. CASE NextProbe(w)
  BY <1>22 DEF NextProbe
<1>23. CASE RecordProbeUnsat(w)
  BY <1>23 DEF RecordProbeUnsat
<1>24. CASE StopProbe(w)
  BY <1>24 DEF StopProbe
<1>25. CASE LnsImprove(w)
  BY <1>25 DEF LnsImprove
<1>26. CASE LnsStop(w)
  BY <1>26 DEF LnsStop
<1>q. QED
  BY <1>1, <1>2, <1>3, <1>4, <1>5, <1>6, <1>7, <1>8, <1>9, <1>10, <1>11, <1>12, <1>13, <1>14, <1>15,
     <1>16, <1>17, <1>18, <1>19, <1>20, <1>21, <1>22, <1>23, <1>24, <1>25, <1>26 DEF WorkerStep

-----------------------------------------------------------------------------
(* Types.                                                                  *)

\* The target of a probe lies in the range of the objective.
LEMMA TargetInRange ==
  ASSUME TypeOK, RangeHolds, NEW w \in Workers,
         ProbeLow(bound[w]) <= ProbeHigh(bound[w])
  PROVE  ProbeLow(bound[w]) + (ProbeHigh(bound[w]) - ProbeLow(bound[w])) \div 2 \in Values
<1>1. bound[w] = NoBound \/ bound[w] \in Int
  BY PortfolioAssumption DEF TypeOK, Values
<1>2. ProbeLow(bound[w]) \in Int /\ Low <= ProbeLow(bound[w])
  BY <1>1, PortfolioAssumption DEF TypeOK, RangeHolds, ProbeLow
<1>3. ProbeHigh(bound[w]) \in Int /\ ProbeHigh(bound[w]) <= High
  BY <1>1, PortfolioAssumption DEF TypeOK, RangeHolds, ProbeHigh
<1>4. \A a, b \in Int : a <= b => a <= a + (b - a) \div 2 /\ a + (b - a) \div 2 <= b
  OBVIOUS
<1>q. QED
  BY <1>2, <1>3, <1>4, PortfolioAssumption DEF Values

LEMMA TypeStep ==
  ASSUME PublicationInv, EvidenceInv, WorkInv, [Next]_vars
  PROVE  TypeOK'
<1> USE PortfolioAssumption DEF PublicationInv, EvidenceInv, TypeOK, PC, Workers, Values, At,
        Goto, problem, flags, incumbent, work, range, locals
<1>1. CASE Interrupt
  BY <1>1 DEF Interrupt
<1>2. ASSUME NEW w \in Workers, Take(w) PROVE TypeOK'
  <2>1. \/ Head(jobs) \in SUBSET Points /\ Tail(jobs) \in Seq(SUBSET Points)
        \/ UNCHANGED <<cube, jobs>>
    BY <1>2, QueueTypes DEF Take
  <2>2. jobs' \in Seq(SUBSET Points)
    BY <1>2, <2>1 DEF Take
  <2>4. cube' \in [Workers -> SUBSET Points]
    BY <1>2, <2>1 DEF Take
  <2>3. active' \in Nat /\ pc' \in [Workers -> PC]
    BY <1>2 DEF Take
  <2>q. QED
    BY <1>2, <2>2, <2>3, <2>4 DEF Take
<1>3. ASSUME NEW w \in Workers, ChooseLiteral(w) PROVE TypeOK'
  BY <1>3 DEF ChooseLiteral
<1>4. ASSUME NEW w \in Workers, StopSplitting(w) PROVE TypeOK'
  BY <1>4 DEF StopSplitting
<1>5. ASSUME NEW w \in Workers, TryPushSplit(w) PROVE TypeOK'
  <2>1. cube[w] \ half[w] \in SUBSET Points /\ half[w] \in SUBSET Points
    OBVIOUS
  <2>2. CASE NeedsSplit
    <3>1. Append(jobs, cube[w] \ half[w]) \in Seq(SUBSET Points)
      BY <2>1, QueueTypes
    <3>2. jobs' \in Seq(SUBSET Points)
      BY <1>5, <2>2, <3>1 DEF TryPushSplit
    <3>3. split' \in Nat
      BY <1>5, <2>1, <2>2 DEF TryPushSplit
    <3>4. cube' \in [Workers -> SUBSET Points]
      BY <1>5, <2>1, <2>2 DEF TryPushSplit
    <3>5. half' \in [Workers -> SUBSET Points]
      BY <1>5, <2>1, <2>2 DEF TryPushSplit
    <3>6. pc' \in [Workers -> PC]
      BY <1>5, <2>1, <2>2 DEF TryPushSplit
    <3>q. QED
      BY <1>5, <3>2, <3>3, <3>4, <3>5, <3>6 DEF TryPushSplit
  <2>3. CASE ~NeedsSplit
    BY <1>5, <2>3 DEF TryPushSplit
  <2>q. QED
    BY <2>2, <2>3
<1>6. ASSUME NEW w \in Workers, StartSearch(w) PROVE TypeOK'
  BY <1>6 DEF StartSearch
<1>7. ASSUME NEW w \in Workers, TightenBound(w) PROVE TypeOK'
  BY <1>7 DEF TightenBound
<1>8. ASSUME NEW w \in Workers, SyncSharedClauses(w) PROVE TypeOK'
  BY <1>8 DEF SyncSharedClauses
<1>9. ASSUME NEW w \in Workers, ExportClause(w) PROVE TypeOK'
  BY <1>9 DEF ExportClause, Learnable
<1>10. ASSUME NEW w \in Workers, FindSolution(w) PROVE TypeOK'
  BY <1>10 DEF FindSolution, Open, Feasible
<1>11. ASSUME NEW w \in Workers, ExhaustCube(w) PROVE TypeOK'
  BY <1>11 DEF ExhaustCube
<1>12. ASSUME NEW w \in Workers, StopSearch(w) PROVE TypeOK'
  BY <1>12 DEF StopSearch
<1>13. ASSUME NEW w \in Workers, Prove(w) PROVE TypeOK'
  BY <1>13 DEF Prove
<1>14. ASSUME NEW w \in Workers, FinishCube(w) PROVE TypeOK'
  <2>1. w \in Holders
    BY <1>14 DEF FinishCube, Holders, RolesKept, Holding, Reporting, Splitter
  <2>2. active - 1 \in Nat
    BY <2>1, HoldersAreCounted DEF WorkInv, ActiveCountsHolders
  <2>q. QED
    BY <1>14, <2>2 DEF FinishCube
<1>15. ASSUME NEW w \in Workers, NextCube(w) PROVE TypeOK'
  BY <1>15 DEF NextCube
<1>16. ASSUME NEW w \in Workers, ReportImprovement(w) PROVE TypeOK'
  <2>1. found[w] \in Points /\ cost[found[w]] \in Values
    BY <1>16 DEF ReportImprovement, ReportsAreOrdered, Reporting, Feasible
  <2>q. QED
    BY <1>16, <2>1 DEF ReportImprovement, ReportDone
<1>17. ASSUME NEW w \in Workers, PublishPresence(w) PROVE TypeOK'
  BY <1>17 DEF PublishPresence
<1>18. ASSUME NEW w \in Workers, StoreSolution(w) PROVE TypeOK'
  BY <1>18 DEF StoreSolution, ReportsAreOrdered, Reporting, Feasible
<1>19. ASSUME NEW w \in Workers, CertifyImprovement(w) PROVE TypeOK'
  <2>1. found[w] \in Points /\ cost[found[w]] \in Values
    BY <1>19 DEF CertifyImprovement, ReportsAreOrdered, Reporting, Feasible
  <2>q. QED
    BY <1>19, <2>1 DEF CertifyImprovement, ReportDone
<1>20. ASSUME NEW w \in Workers, BeginProbe(w) PROVE TypeOK'
  BY <1>20 DEF BeginProbe, LoadBest, BestLoaded
<1>21. ASSUME NEW w \in Workers, FinishIfProbed(w) PROVE TypeOK'
  BY <1>21 DEF FinishIfProbed
<1>22. ASSUME NEW w \in Workers, LoadBestForProbe(w) PROVE TypeOK'
  BY <1>22 DEF LoadBestForProbe, LoadBest, BestLoaded
<1>23. ASSUME NEW w \in Workers, NextProbe(w) PROVE TypeOK'
  <2>1. ASSUME ProbeLow(bound[w]) <= ProbeHigh(bound[w])
        PROVE  ProbeLow(bound[w]) + (ProbeHigh(bound[w]) - ProbeLow(bound[w])) \div 2 \in Values
    BY <2>1, TargetInRange
  <2>q. QED
    BY <1>23, <2>1 DEF NextProbe
<1>24. ASSUME NEW w \in Workers, RecordProbeUnsat(w) PROVE TypeOK'
  <2>1. bound[w] \in Int
    BY <1>24 DEF RecordProbeUnsat, BoundsAreReached
  <2>q. QED
    BY <1>24, <2>1 DEF RecordProbeUnsat
<1>25. ASSUME NEW w \in Workers, StopProbe(w) PROVE TypeOK'
  BY <1>25 DEF StopProbe
<1>26. ASSUME NEW w \in Workers, LnsImprove(w) PROVE TypeOK'
  BY <1>26 DEF LnsImprove, Feasible
<1>27. ASSUME NEW w \in Workers, LnsStop(w) PROVE TypeOK'
  BY <1>27 DEF LnsStop
<1>28. CASE UNCHANGED vars
  BY <1>28 DEF vars
<1>q. QED
  BY <1>1, <1>2, <1>3, <1>4, <1>5, <1>6, <1>7, <1>8, <1>9, <1>10, <1>11, <1>12, <1>13, <1>14, <1>15,
     <1>16, <1>17, <1>18, <1>19, <1>20, <1>21, <1>22, <1>23, <1>24, <1>25, <1>26, <1>27, <1>28 DEF
     Next, WorkerStep, Returned
-----------------------------------------------------------------------------
(* The incumbent only improves.                                            *)

\* The problem stays, the presence of a bound is never withdrawn and its value never
\* gets worse: the comparison is made under the lock, with the stored solution.
BestKept ==
  /\ UNCHANGED problem
  /\ best_present => best_present' /\ Reaches(best_value', best_value)

LEMMA BestStep ==
  ASSUME PublicationInv, [Next]_vars
  PROVE  BestKept
<1> USE PortfolioAssumption DEF PublicationInv, TypeOK, BestKept, Reaches, Values, problem, flags,
        incumbent, work, range, locals
<1>1. CASE Interrupt
  BY <1>1 DEF Interrupt, ReportsAreOrdered
<1>2. ASSUME NEW w \in Workers, Take(w) PROVE BestKept
  BY <1>2 DEF Take, ReportsAreOrdered
<1>3. ASSUME NEW w \in Workers, ChooseLiteral(w) PROVE BestKept
  BY <1>3 DEF ChooseLiteral, ReportsAreOrdered
<1>4. ASSUME NEW w \in Workers, StopSplitting(w) PROVE BestKept
  BY <1>4 DEF StopSplitting, ReportsAreOrdered
<1>5. ASSUME NEW w \in Workers, TryPushSplit(w) PROVE BestKept
  BY <1>5 DEF TryPushSplit, ReportsAreOrdered
<1>6. ASSUME NEW w \in Workers, StartSearch(w) PROVE BestKept
  BY <1>6 DEF StartSearch, ReportsAreOrdered
<1>7. ASSUME NEW w \in Workers, TightenBound(w) PROVE BestKept
  BY <1>7 DEF TightenBound, ReportsAreOrdered
<1>8. ASSUME NEW w \in Workers, SyncSharedClauses(w) PROVE BestKept
  BY <1>8 DEF SyncSharedClauses, ReportsAreOrdered
<1>9. ASSUME NEW w \in Workers, ExportClause(w) PROVE BestKept
  BY <1>9 DEF ExportClause, ReportsAreOrdered
<1>10. ASSUME NEW w \in Workers, FindSolution(w) PROVE BestKept
  BY <1>10 DEF FindSolution, ReportsAreOrdered
<1>11. ASSUME NEW w \in Workers, ExhaustCube(w) PROVE BestKept
  BY <1>11 DEF ExhaustCube, ReportsAreOrdered
<1>12. ASSUME NEW w \in Workers, StopSearch(w) PROVE BestKept
  BY <1>12 DEF StopSearch, ReportsAreOrdered
<1>13. ASSUME NEW w \in Workers, Prove(w) PROVE BestKept
  BY <1>13 DEF Prove, ReportsAreOrdered
<1>14. ASSUME NEW w \in Workers, FinishCube(w) PROVE BestKept
  BY <1>14 DEF FinishCube, ReportsAreOrdered
<1>15. ASSUME NEW w \in Workers, NextCube(w) PROVE BestKept
  BY <1>15 DEF NextCube, ReportsAreOrdered
<1>16. ASSUME NEW w \in Workers, ReportImprovement(w) PROVE BestKept
  <2>1. found[w] \in Feasible /\ cost[found[w]] \in Values
    BY <1>16 DEF ReportImprovement, ReportsAreOrdered, Reporting, Feasible, At
  <2>2. best_present => best_value \in Values /\ slot # NoPoint /\ SlotValue = best_value
    BY <1>16 DEF ReportImprovement, ReportsAreOrdered, SlotValue
  <2>3. ASSUME best_present, Beats(cost[found[w]], SlotValue)
        PROVE  Reaches(cost[found[w]], best_value)
    BY <2>1, <2>2, <2>3 DEF Beats
  <2>q. QED
    BY <1>16, <2>1, <2>2, <2>3 DEF ReportImprovement, ReportsAreOrdered
<1>17. ASSUME NEW w \in Workers, PublishPresence(w) PROVE BestKept
  BY <1>17 DEF PublishPresence, ReportsAreOrdered
<1>18. ASSUME NEW w \in Workers, StoreSolution(w) PROVE BestKept
  BY <1>18 DEF StoreSolution, ReportsAreOrdered
<1>19. ASSUME NEW w \in Workers, CertifyImprovement(w) PROVE BestKept
  BY <1>19 DEF CertifyImprovement, ReportsAreOrdered
<1>20. ASSUME NEW w \in Workers, BeginProbe(w) PROVE BestKept
  BY <1>20 DEF BeginProbe, ReportsAreOrdered
<1>21. ASSUME NEW w \in Workers, FinishIfProbed(w) PROVE BestKept
  BY <1>21 DEF FinishIfProbed, ReportsAreOrdered
<1>22. ASSUME NEW w \in Workers, LoadBestForProbe(w) PROVE BestKept
  BY <1>22 DEF LoadBestForProbe, ReportsAreOrdered
<1>23. ASSUME NEW w \in Workers, NextProbe(w) PROVE BestKept
  BY <1>23 DEF NextProbe, ReportsAreOrdered
<1>24. ASSUME NEW w \in Workers, RecordProbeUnsat(w) PROVE BestKept
  BY <1>24 DEF RecordProbeUnsat, ReportsAreOrdered
<1>25. ASSUME NEW w \in Workers, StopProbe(w) PROVE BestKept
  BY <1>25 DEF StopProbe, ReportsAreOrdered
<1>26. ASSUME NEW w \in Workers, LnsImprove(w) PROVE BestKept
  BY <1>26 DEF LnsImprove, ReportsAreOrdered
<1>27. ASSUME NEW w \in Workers, LnsStop(w) PROVE BestKept
  BY <1>27 DEF LnsStop, ReportsAreOrdered
<1>28. CASE UNCHANGED vars
  BY <1>28 DEF vars, ReportsAreOrdered
<1>q. QED
  BY <1>1, <1>2, <1>3, <1>4, <1>5, <1>6, <1>7, <1>8, <1>9, <1>10, <1>11, <1>12, <1>13, <1>14, <1>15,
     <1>16, <1>17, <1>18, <1>19, <1>20, <1>21, <1>22, <1>23, <1>24, <1>25, <1>26, <1>27, <1>28 DEF
     Next, WorkerStep, Returned

LEMMA ReachedStays ==
  ASSUME TypeOK, ReportsAreOrdered, ReportsAreOrdered', BestKept
  PROVE  Reached \subseteq Reached'
BY PortfolioAssumption DEF TypeOK, ReportsAreOrdered, BestKept, Reached, Reaches, Values, problem

LEMMA ImprovingShrinks ==
  ASSUME TypeOK, ReportsAreOrdered, ReportsAreOrdered', BestKept
  PROVE  Improving' \subseteq Improving /\ Feasible' = Feasible
<1> USE PortfolioAssumption DEF BestKept, problem, Feasible
<1>1. Feasible' = Feasible
  OBVIOUS
<1>2. ASSUME NEW p \in Feasible, Beats(cost[p], BestLoaded)'
      PROVE  Beats(cost[p], BestLoaded)
  <2>1. cost[p] \in Values
    BY DEF TypeOK
  <2>q. QED
    BY <1>2, <2>1 DEF ReportsAreOrdered, Beats, Reaches, BestLoaded, Values
<1>q. QED
  BY <1>1, <1>2 DEF Improving

-----------------------------------------------------------------------------
(* The roles, the reports and the bounds.                                  *)

LEMMA RolesStep ==
  ASSUME TypeOK, RolesKept, [Next]_vars
  PROVE  RolesKept'
<1> USE PortfolioAssumption DEF TypeOK, RolesKept, Splitter, RunsCompleteWorker, Holding,
        Reporting, At, Goto, problem, flags, incumbent, work, range, locals
<1>1. CASE Interrupt
  BY <1>1 DEF Interrupt
<1>2. ASSUME NEW w \in Workers, Take(w) PROVE RolesKept'
  BY <1>2 DEF Take
<1>3. ASSUME NEW w \in Workers, ChooseLiteral(w) PROVE RolesKept'
  BY <1>3 DEF ChooseLiteral
<1>4. ASSUME NEW w \in Workers, StopSplitting(w) PROVE RolesKept'
  BY <1>4 DEF StopSplitting
<1>5. ASSUME NEW w \in Workers, TryPushSplit(w) PROVE RolesKept'
  BY <1>5 DEF TryPushSplit
<1>6. ASSUME NEW w \in Workers, StartSearch(w) PROVE RolesKept'
  BY <1>6 DEF StartSearch
<1>7. ASSUME NEW w \in Workers, TightenBound(w) PROVE RolesKept'
  BY <1>7 DEF TightenBound
<1>8. ASSUME NEW w \in Workers, SyncSharedClauses(w) PROVE RolesKept'
  BY <1>8 DEF SyncSharedClauses
<1>9. ASSUME NEW w \in Workers, ExportClause(w) PROVE RolesKept'
  BY <1>9 DEF ExportClause
<1>10. ASSUME NEW w \in Workers, FindSolution(w) PROVE RolesKept'
  BY <1>10 DEF FindSolution
<1>11. ASSUME NEW w \in Workers, ExhaustCube(w) PROVE RolesKept'
  BY <1>11 DEF ExhaustCube
<1>12. ASSUME NEW w \in Workers, StopSearch(w) PROVE RolesKept'
  BY <1>12 DEF StopSearch
<1>13. ASSUME NEW w \in Workers, Prove(w) PROVE RolesKept'
  BY <1>13 DEF Prove
<1>14. ASSUME NEW w \in Workers, FinishCube(w) PROVE RolesKept'
  BY <1>14 DEF FinishCube
<1>15. ASSUME NEW w \in Workers, NextCube(w) PROVE RolesKept'
  BY <1>15 DEF NextCube
<1>16. ASSUME NEW w \in Workers, ReportImprovement(w) PROVE RolesKept'
  BY <1>16 DEF ReportImprovement, ReportDone
<1>17. ASSUME NEW w \in Workers, PublishPresence(w) PROVE RolesKept'
  BY <1>17 DEF PublishPresence
<1>18. ASSUME NEW w \in Workers, StoreSolution(w) PROVE RolesKept'
  BY <1>18 DEF StoreSolution
<1>19. ASSUME NEW w \in Workers, CertifyImprovement(w) PROVE RolesKept'
  BY <1>19 DEF CertifyImprovement, ReportDone
<1>20. ASSUME NEW w \in Workers, BeginProbe(w) PROVE RolesKept'
  BY <1>20 DEF BeginProbe
<1>21. ASSUME NEW w \in Workers, FinishIfProbed(w) PROVE RolesKept'
  BY <1>21 DEF FinishIfProbed
<1>22. ASSUME NEW w \in Workers, LoadBestForProbe(w) PROVE RolesKept'
  BY <1>22 DEF LoadBestForProbe
<1>23. ASSUME NEW w \in Workers, NextProbe(w) PROVE RolesKept'
  BY <1>23 DEF NextProbe
<1>24. ASSUME NEW w \in Workers, RecordProbeUnsat(w) PROVE RolesKept'
  BY <1>24 DEF RecordProbeUnsat
<1>25. ASSUME NEW w \in Workers, StopProbe(w) PROVE RolesKept'
  BY <1>25 DEF StopProbe
<1>26. ASSUME NEW w \in Workers, LnsImprove(w) PROVE RolesKept'
  BY <1>26 DEF LnsImprove
<1>27. ASSUME NEW w \in Workers, LnsStop(w) PROVE RolesKept'
  BY <1>27 DEF LnsStop
<1>28. CASE UNCHANGED vars
  BY <1>28 DEF vars
<1>q. QED
  BY <1>1, <1>2, <1>3, <1>4, <1>5, <1>6, <1>7, <1>8, <1>9, <1>10, <1>11, <1>12, <1>13, <1>14, <1>15,
     <1>16, <1>17, <1>18, <1>19, <1>20, <1>21, <1>22, <1>23, <1>24, <1>25, <1>26, <1>27, <1>28 DEF
     Next, WorkerStep, Returned
LEMMA ReportsStep ==
  ASSUME PublicationInv, TypeOK', [Next]_vars
  PROVE  ReportsAreOrdered'
<1> USE PortfolioAssumption DEF PublicationInv, TypeOK, ReportsAreOrdered, Reporting, Feasible,
        At, Goto, problem, flags, incumbent, work, range, locals
<1>1. CASE Interrupt
  BY <1>1 DEF Interrupt
<1>2. ASSUME NEW w \in Workers, Take(w) PROVE ReportsAreOrdered'
  BY <1>2 DEF Take
<1>3. ASSUME NEW w \in Workers, ChooseLiteral(w) PROVE ReportsAreOrdered'
  BY <1>3 DEF ChooseLiteral
<1>4. ASSUME NEW w \in Workers, StopSplitting(w) PROVE ReportsAreOrdered'
  BY <1>4 DEF StopSplitting
<1>5. ASSUME NEW w \in Workers, TryPushSplit(w) PROVE ReportsAreOrdered'
  BY <1>5 DEF TryPushSplit
<1>6. ASSUME NEW w \in Workers, StartSearch(w) PROVE ReportsAreOrdered'
  BY <1>6 DEF StartSearch
<1>7. ASSUME NEW w \in Workers, TightenBound(w) PROVE ReportsAreOrdered'
  BY <1>7 DEF TightenBound
<1>8. ASSUME NEW w \in Workers, SyncSharedClauses(w) PROVE ReportsAreOrdered'
  BY <1>8 DEF SyncSharedClauses
<1>9. ASSUME NEW w \in Workers, ExportClause(w) PROVE ReportsAreOrdered'
  BY <1>9 DEF ExportClause
<1>10. ASSUME NEW w \in Workers, FindSolution(w) PROVE ReportsAreOrdered'
  <2> PICK p \in Feasible : found' = [found EXCEPT ![w] = p]
    BY <1>10 DEF FindSolution, Open
  <2>1. pc[w] \in {"search", "probe"} /\ pc' = [pc EXCEPT ![w] = "report"]
        /\ UNCHANGED <<problem, incumbent, bound>>
    BY <1>10 DEF FindSolution, Searching
  <2>q. QED
    BY <2>1
<1>11. ASSUME NEW w \in Workers, ExhaustCube(w) PROVE ReportsAreOrdered'
  BY <1>11 DEF ExhaustCube
<1>12. ASSUME NEW w \in Workers, StopSearch(w) PROVE ReportsAreOrdered'
  BY <1>12 DEF StopSearch
<1>13. ASSUME NEW w \in Workers, Prove(w) PROVE ReportsAreOrdered'
  BY <1>13 DEF Prove
<1>14. ASSUME NEW w \in Workers, FinishCube(w) PROVE ReportsAreOrdered'
  BY <1>14 DEF FinishCube
<1>15. ASSUME NEW w \in Workers, NextCube(w) PROVE ReportsAreOrdered'
  BY <1>15 DEF NextCube
<1>16. ASSUME NEW w \in Workers, ReportImprovement(w) PROVE ReportsAreOrdered'
  BY <1>16 DEF ReportImprovement, ReportDone, SlotValue, Beats
<1>17. ASSUME NEW w \in Workers, PublishPresence(w) PROVE ReportsAreOrdered'
  BY <1>17 DEF PublishPresence
<1>18. ASSUME NEW w \in Workers, StoreSolution(w) PROVE ReportsAreOrdered'
  BY <1>18 DEF StoreSolution
<1>19. ASSUME NEW w \in Workers, CertifyImprovement(w) PROVE ReportsAreOrdered'
  BY <1>19 DEF CertifyImprovement, ReportDone
<1>20. ASSUME NEW w \in Workers, BeginProbe(w) PROVE ReportsAreOrdered'
  BY <1>20 DEF BeginProbe
<1>21. ASSUME NEW w \in Workers, FinishIfProbed(w) PROVE ReportsAreOrdered'
  BY <1>21 DEF FinishIfProbed
<1>22. ASSUME NEW w \in Workers, LoadBestForProbe(w) PROVE ReportsAreOrdered'
  BY <1>22 DEF LoadBestForProbe
<1>23. ASSUME NEW w \in Workers, NextProbe(w) PROVE ReportsAreOrdered'
  BY <1>23 DEF NextProbe
<1>24. ASSUME NEW w \in Workers, RecordProbeUnsat(w) PROVE ReportsAreOrdered'
  BY <1>24 DEF RecordProbeUnsat
<1>25. ASSUME NEW w \in Workers, StopProbe(w) PROVE ReportsAreOrdered'
  BY <1>25 DEF StopProbe
<1>26. ASSUME NEW w \in Workers, LnsImprove(w) PROVE ReportsAreOrdered'
  BY <1>26 DEF LnsImprove
<1>27. ASSUME NEW w \in Workers, LnsStop(w) PROVE ReportsAreOrdered'
  BY <1>27 DEF LnsStop
<1>28. CASE UNCHANGED vars
  BY <1>28 DEF vars
<1>q. QED
  BY <1>1, <1>2, <1>3, <1>4, <1>5, <1>6, <1>7, <1>8, <1>9, <1>10, <1>11, <1>12, <1>13, <1>14, <1>15,
     <1>16, <1>17, <1>18, <1>19, <1>20, <1>21, <1>22, <1>23, <1>24, <1>25, <1>26, <1>27, <1>28 DEF
     Next, WorkerStep, Returned

LEMMA BoundsStep ==
  ASSUME PublicationInv, TypeOK', ReportsAreOrdered', RangeHolds, [Next]_vars
  PROVE  BoundsAreReached'
<1>r. /\ TypeOK /\ ReportsAreOrdered /\ RolesKept /\ BoundsAreReached
      /\ Reached \subseteq Reached' /\ UNCHANGED problem
  BY BestStep, ReachedStays DEF PublicationInv, BestKept
<1> USE <1>r, PortfolioAssumption DEF TypeOK, BoundsAreReached, Reporting, At, Goto, problem,
        flags, incumbent, work, range, locals
<1>1. CASE Interrupt
  BY <1>1 DEF Interrupt
<1>2. ASSUME NEW w \in Workers, Take(w) PROVE BoundsAreReached'
  BY <1>2 DEF Take
<1>3. ASSUME NEW w \in Workers, ChooseLiteral(w) PROVE BoundsAreReached'
  BY <1>3 DEF ChooseLiteral
<1>4. ASSUME NEW w \in Workers, StopSplitting(w) PROVE BoundsAreReached'
  BY <1>4 DEF StopSplitting
<1>5. ASSUME NEW w \in Workers, TryPushSplit(w) PROVE BoundsAreReached'
  BY <1>5 DEF TryPushSplit
<1>6. ASSUME NEW w \in Workers, StartSearch(w) PROVE BoundsAreReached'
  BY <1>6 DEF StartSearch, Reached
<1>7. ASSUME NEW w \in Workers, TightenBound(w) PROVE BoundsAreReached'
  <2>1. best_value \in Reached'
    BY <1>7 DEF TightenBound, ReportsAreOrdered, Reached, Reaches, Values
  <2>q. QED
    BY <1>7, <2>1 DEF TightenBound
<1>8. ASSUME NEW w \in Workers, SyncSharedClauses(w) PROVE BoundsAreReached'
  BY <1>8 DEF SyncSharedClauses
<1>9. ASSUME NEW w \in Workers, ExportClause(w) PROVE BoundsAreReached'
  BY <1>9 DEF ExportClause
<1>10. ASSUME NEW w \in Workers, FindSolution(w) PROVE BoundsAreReached'
  <2> PICK p \in Feasible : found' = [found EXCEPT ![w] = p]
    BY <1>10 DEF FindSolution, Open
  <2>1. pc[w] \in {"search", "probe"} /\ pc' = [pc EXCEPT ![w] = "report"]
        /\ UNCHANGED <<problem, incumbent, bound>>
    BY <1>10 DEF FindSolution, Searching
  <2>q. QED
    BY <2>1
<1>11. ASSUME NEW w \in Workers, ExhaustCube(w) PROVE BoundsAreReached'
  BY <1>11 DEF ExhaustCube
<1>12. ASSUME NEW w \in Workers, StopSearch(w) PROVE BoundsAreReached'
  BY <1>12 DEF StopSearch
<1>13. ASSUME NEW w \in Workers, Prove(w) PROVE BoundsAreReached'
  BY <1>13 DEF Prove
<1>14. ASSUME NEW w \in Workers, FinishCube(w) PROVE BoundsAreReached'
  BY <1>14 DEF FinishCube
<1>15. ASSUME NEW w \in Workers, NextCube(w) PROVE BoundsAreReached'
  BY <1>15 DEF NextCube
<1>16. ASSUME NEW w \in Workers, ReportImprovement(w) PROVE BoundsAreReached'
  <2>1. found[w] \in Feasible /\ cost[found[w]] \in Values
    BY <1>16 DEF ReportImprovement, ReportsAreOrdered, Reporting, Feasible
  <2>2. CASE Beats(cost[found[w]], SlotValue)
    BY <1>16, <2>2 DEF ReportImprovement
  <2>3. CASE ~Beats(cost[found[w]], SlotValue)
    <3>1. best_present' /\ best_value' = cost[slot] /\ cost[slot] \in Values /\ slot # NoPoint
      BY <1>16, <2>3 DEF ReportImprovement, ReportsAreOrdered, SlotValue, Beats, Feasible
    <3>2. Reaches(best_value', cost[found[w]])
      BY <2>1, <2>3, <3>1 DEF SlotValue, Beats, Reaches, Values
    <3>3. cost[found[w]] \in Reached'
      BY <2>1, <3>1, <3>2 DEF Reached, Reaches, Values
    <3>q. QED
      BY <1>16, <2>3, <3>3 DEF ReportImprovement, ReportDone
  <2>q. QED
    BY <2>2, <2>3
<1>17. ASSUME NEW w \in Workers, PublishPresence(w) PROVE BoundsAreReached'
  BY <1>17 DEF PublishPresence
<1>18. ASSUME NEW w \in Workers, StoreSolution(w) PROVE BoundsAreReached'
  <2>1. found[w] \in Feasible /\ cost[found[w]] \in Values
    BY <1>18 DEF StoreSolution, ReportsAreOrdered, Reporting, Feasible
  <2>2. best_present' /\ best_value' = cost[found[w]]
    BY <1>18 DEF StoreSolution, ReportsAreOrdered
  <2>3. cost[found[w]] \in Reached'
    BY <2>1, <2>2 DEF Reached, Reaches, Values
  <2>q. QED
    BY <1>18, <2>3 DEF StoreSolution
<1>19. ASSUME NEW w \in Workers, CertifyImprovement(w) PROVE BoundsAreReached'
  BY <1>19 DEF CertifyImprovement, ReportDone
<1>20. ASSUME NEW w \in Workers, BeginProbe(w) PROVE BoundsAreReached'
  <2>1. BestLoaded \in Reached'
    BY <1>20 DEF BeginProbe, BestLoaded, ReportsAreOrdered, Reached, Reaches, Values
  <2>q. QED
    BY <1>20, <2>1 DEF BeginProbe, LoadBest, RolesKept
<1>21. ASSUME NEW w \in Workers, FinishIfProbed(w) PROVE BoundsAreReached'
  BY <1>21 DEF FinishIfProbed
<1>22. ASSUME NEW w \in Workers, LoadBestForProbe(w) PROVE BoundsAreReached'
  <2>1. BestLoaded \in Reached'
    BY <1>22 DEF LoadBestForProbe, BestLoaded, ReportsAreOrdered, Reached, Reaches, Values
  <2>q. QED
    BY <1>22, <2>1 DEF LoadBestForProbe, LoadBest, RolesKept
<1>23. ASSUME NEW w \in Workers, NextProbe(w) PROVE BoundsAreReached'
  <2>1. ASSUME ProbeLow(bound[w]) <= ProbeHigh(bound[w])
        PROVE  ProbeLow(bound[w]) + (ProbeHigh(bound[w]) - ProbeLow(bound[w])) \div 2 \in Values
    BY <2>1, TargetInRange DEF PublicationInv
  <2>2. w \in Probes /\ w \notin Regular
    BY <1>23, PortfolioAssumption DEF NextProbe, RolesKept, Holding, Workers
  <2>3. CASE ProbeLow(bound[w]) <= ProbeHigh(bound[w])
    <3> DEFINE target == ProbeLow(bound[w]) + (ProbeHigh(bound[w]) - ProbeLow(bound[w])) \div 2
    <3>1. bound' = [bound EXCEPT ![w] = target] /\ pc' = [pc EXCEPT ![w] = "probe"]
          /\ UNCHANGED <<problem, found>>
      BY <1>23, <2>3 DEF NextProbe
    <3>2. target \in Values
      BY <2>1, <2>3
    <3> HIDE DEF target
    <3>q. QED
      BY <2>2, <3>1, <3>2
  <2>4. CASE ~(ProbeLow(bound[w]) <= ProbeHigh(bound[w]))
    BY <1>23, <2>4 DEF NextProbe
  <2>q. QED
    BY <2>3, <2>4
<1>24. ASSUME NEW w \in Workers, RecordProbeUnsat(w) PROVE BoundsAreReached'
  BY <1>24 DEF RecordProbeUnsat
<1>25. ASSUME NEW w \in Workers, StopProbe(w) PROVE BoundsAreReached'
  BY <1>25 DEF StopProbe
<1>26. ASSUME NEW w \in Workers, LnsImprove(w) PROVE BoundsAreReached'
  BY <1>26 DEF LnsImprove
<1>27. ASSUME NEW w \in Workers, LnsStop(w) PROVE BoundsAreReached'
  BY <1>27 DEF LnsStop
<1>28. CASE UNCHANGED vars
  BY <1>28 DEF vars
<1>q. QED
  BY <1>1, <1>2, <1>3, <1>4, <1>5, <1>6, <1>7, <1>8, <1>9, <1>10, <1>11, <1>12, <1>13, <1>14, <1>15,
     <1>16, <1>17, <1>18, <1>19, <1>20, <1>21, <1>22, <1>23, <1>24, <1>25, <1>26, <1>27, <1>28 DEF
     Next, WorkerStep, Returned
-----------------------------------------------------------------------------
(* The evidence: what the clauses remove and what the probes rule out.     *)

LEMMA ClausesStep ==
  ASSUME PublicationInv, EvidenceInv, UNCHANGED problem, [Next]_vars
  PROVE  ClausesAreSound' /\ SharedClausesKeepSolutions'
<1> USE PortfolioAssumption DEF PublicationInv, EvidenceInv, TypeOK, ClausesAreSound,
        SharedClausesKeepSolutions, Feasible, problem, flags, incumbent, work, range, locals
<1>1. CASE Interrupt
  BY <1>1 DEF Interrupt
<1>2. ASSUME NEW w \in Workers, Take(w) PROVE ClausesAreSound' /\ SharedClausesKeepSolutions'
  BY <1>2 DEF Take
<1>3. ASSUME NEW w \in Workers, ChooseLiteral(w) PROVE ClausesAreSound' /\ SharedClausesKeepSolutions'
  BY <1>3 DEF ChooseLiteral
<1>4. ASSUME NEW w \in Workers, StopSplitting(w) PROVE ClausesAreSound' /\ SharedClausesKeepSolutions'
  BY <1>4 DEF StopSplitting
<1>5. ASSUME NEW w \in Workers, TryPushSplit(w) PROVE ClausesAreSound' /\ SharedClausesKeepSolutions'
  BY <1>5 DEF TryPushSplit
<1>6. ASSUME NEW w \in Workers, StartSearch(w) PROVE ClausesAreSound' /\ SharedClausesKeepSolutions'
  BY <1>6 DEF StartSearch
<1>7. ASSUME NEW w \in Workers, TightenBound(w) PROVE ClausesAreSound' /\ SharedClausesKeepSolutions'
  BY <1>7 DEF TightenBound
<1>8. ASSUME NEW w \in Workers, SyncSharedClauses(w) PROVE ClausesAreSound' /\ SharedClausesKeepSolutions'
  BY <1>8 DEF SyncSharedClauses
<1>9. ASSUME NEW w \in Workers, ExportClause(w) PROVE ClausesAreSound' /\ SharedClausesKeepSolutions'
  <2>1. \A p \in Feasible : InScope(w, p) => p \notin Learnable(w)
    BY DEF Learnable, Open
  <2>2. pool' = pool \cup {p \in Learnable(w) : InScope(w, p)}
    BY <1>9 DEF ExportClause
  <2>3. UNCHANGED <<cost, pruned>>
    BY <1>9 DEF ExportClause
  <2>q. QED
    BY <2>1, <2>2, <2>3
<1>10. ASSUME NEW w \in Workers, FindSolution(w) PROVE ClausesAreSound' /\ SharedClausesKeepSolutions'
  BY <1>10 DEF FindSolution
<1>11. ASSUME NEW w \in Workers, ExhaustCube(w) PROVE ClausesAreSound' /\ SharedClausesKeepSolutions'
  BY <1>11 DEF ExhaustCube
<1>12. ASSUME NEW w \in Workers, StopSearch(w) PROVE ClausesAreSound' /\ SharedClausesKeepSolutions'
  BY <1>12 DEF StopSearch
<1>13. ASSUME NEW w \in Workers, Prove(w) PROVE ClausesAreSound' /\ SharedClausesKeepSolutions'
  BY <1>13 DEF Prove
<1>14. ASSUME NEW w \in Workers, FinishCube(w) PROVE ClausesAreSound' /\ SharedClausesKeepSolutions'
  BY <1>14 DEF FinishCube
<1>15. ASSUME NEW w \in Workers, NextCube(w) PROVE ClausesAreSound' /\ SharedClausesKeepSolutions'
  BY <1>15 DEF NextCube
<1>16. ASSUME NEW w \in Workers, ReportImprovement(w) PROVE ClausesAreSound' /\ SharedClausesKeepSolutions'
  BY <1>16 DEF ReportImprovement, ReportDone
<1>17. ASSUME NEW w \in Workers, PublishPresence(w) PROVE ClausesAreSound' /\ SharedClausesKeepSolutions'
  BY <1>17 DEF PublishPresence
<1>18. ASSUME NEW w \in Workers, StoreSolution(w) PROVE ClausesAreSound' /\ SharedClausesKeepSolutions'
  BY <1>18 DEF StoreSolution
<1>19. ASSUME NEW w \in Workers, CertifyImprovement(w) PROVE ClausesAreSound' /\ SharedClausesKeepSolutions'
  BY <1>19 DEF CertifyImprovement, ReportDone
<1>20. ASSUME NEW w \in Workers, BeginProbe(w) PROVE ClausesAreSound' /\ SharedClausesKeepSolutions'
  BY <1>20 DEF BeginProbe
<1>21. ASSUME NEW w \in Workers, FinishIfProbed(w) PROVE ClausesAreSound' /\ SharedClausesKeepSolutions'
  BY <1>21 DEF FinishIfProbed
<1>22. ASSUME NEW w \in Workers, LoadBestForProbe(w) PROVE ClausesAreSound' /\ SharedClausesKeepSolutions'
  BY <1>22 DEF LoadBestForProbe
<1>23. ASSUME NEW w \in Workers, NextProbe(w) PROVE ClausesAreSound' /\ SharedClausesKeepSolutions'
  BY <1>23 DEF NextProbe
<1>24. ASSUME NEW w \in Workers, RecordProbeUnsat(w) PROVE ClausesAreSound' /\ SharedClausesKeepSolutions'
  BY <1>24 DEF RecordProbeUnsat
<1>25. ASSUME NEW w \in Workers, StopProbe(w) PROVE ClausesAreSound' /\ SharedClausesKeepSolutions'
  BY <1>25 DEF StopProbe
<1>26. ASSUME NEW w \in Workers, LnsImprove(w) PROVE ClausesAreSound' /\ SharedClausesKeepSolutions'
  BY <1>26 DEF LnsImprove
<1>27. ASSUME NEW w \in Workers, LnsStop(w) PROVE ClausesAreSound' /\ SharedClausesKeepSolutions'
  BY <1>27 DEF LnsStop
<1>28. CASE UNCHANGED vars
  BY <1>28 DEF vars
<1>q. QED
  BY <1>1, <1>2, <1>3, <1>4, <1>5, <1>6, <1>7, <1>8, <1>9, <1>10, <1>11, <1>12, <1>13, <1>14, <1>15,
     <1>16, <1>17, <1>18, <1>19, <1>20, <1>21, <1>22, <1>23, <1>24, <1>25, <1>26, <1>27, <1>28 DEF
     Next, WorkerStep, Returned

\* An engine that finds nothing under a target finds it because nothing is there: the
\* clauses it imported removed no feasible point.
LEMMA ProbeFindsAll ==
  ASSUME PublicationInv, ClausesAreSound, NEW w \in Workers, At(w, "probe"), Open(w) = {},
         NEW p \in Feasible
  PROVE  ~Reaches(cost[p], bound[w])
BY PortfolioAssumption DEF PublicationInv, TypeOK, ClausesAreSound, Open, InScope, WithinBound,
   Feasible, At

LEMMA RangeStep ==
  ASSUME PublicationInv, EvidenceInv, UNCHANGED problem, [Next]_vars
  PROVE  RangeHolds'
<1> USE PortfolioAssumption DEF PublicationInv, EvidenceInv, TypeOK, RangeHolds, Feasible,
        problem, flags, incumbent, work, range, locals
<1>1. CASE Interrupt
  BY <1>1 DEF Interrupt
<1>2. ASSUME NEW w \in Workers, Take(w) PROVE RangeHolds'
  BY <1>2 DEF Take
<1>3. ASSUME NEW w \in Workers, ChooseLiteral(w) PROVE RangeHolds'
  BY <1>3 DEF ChooseLiteral
<1>4. ASSUME NEW w \in Workers, StopSplitting(w) PROVE RangeHolds'
  BY <1>4 DEF StopSplitting
<1>5. ASSUME NEW w \in Workers, TryPushSplit(w) PROVE RangeHolds'
  BY <1>5 DEF TryPushSplit
<1>6. ASSUME NEW w \in Workers, StartSearch(w) PROVE RangeHolds'
  BY <1>6 DEF StartSearch
<1>7. ASSUME NEW w \in Workers, TightenBound(w) PROVE RangeHolds'
  BY <1>7 DEF TightenBound
<1>8. ASSUME NEW w \in Workers, SyncSharedClauses(w) PROVE RangeHolds'
  BY <1>8 DEF SyncSharedClauses
<1>9. ASSUME NEW w \in Workers, ExportClause(w) PROVE RangeHolds'
  BY <1>9 DEF ExportClause
<1>10. ASSUME NEW w \in Workers, FindSolution(w) PROVE RangeHolds'
  BY <1>10 DEF FindSolution
<1>11. ASSUME NEW w \in Workers, ExhaustCube(w) PROVE RangeHolds'
  BY <1>11 DEF ExhaustCube
<1>12. ASSUME NEW w \in Workers, StopSearch(w) PROVE RangeHolds'
  BY <1>12 DEF StopSearch
<1>13. ASSUME NEW w \in Workers, Prove(w) PROVE RangeHolds'
  BY <1>13 DEF Prove
<1>14. ASSUME NEW w \in Workers, FinishCube(w) PROVE RangeHolds'
  BY <1>14 DEF FinishCube
<1>15. ASSUME NEW w \in Workers, NextCube(w) PROVE RangeHolds'
  BY <1>15 DEF NextCube
<1>16. ASSUME NEW w \in Workers, ReportImprovement(w) PROVE RangeHolds'
  BY <1>16 DEF ReportImprovement
<1>17. ASSUME NEW w \in Workers, PublishPresence(w) PROVE RangeHolds'
  BY <1>17 DEF PublishPresence
<1>18. ASSUME NEW w \in Workers, StoreSolution(w) PROVE RangeHolds'
  BY <1>18 DEF StoreSolution
<1>19. ASSUME NEW w \in Workers, CertifyImprovement(w) PROVE RangeHolds'
  BY <1>19 DEF CertifyImprovement
<1>20. ASSUME NEW w \in Workers, BeginProbe(w) PROVE RangeHolds'
  BY <1>20 DEF BeginProbe
<1>21. ASSUME NEW w \in Workers, FinishIfProbed(w) PROVE RangeHolds'
  BY <1>21 DEF FinishIfProbed
<1>22. ASSUME NEW w \in Workers, LoadBestForProbe(w) PROVE RangeHolds'
  BY <1>22 DEF LoadBestForProbe
<1>23. ASSUME NEW w \in Workers, NextProbe(w) PROVE RangeHolds'
  BY <1>23 DEF NextProbe
<1>24. ASSUME NEW w \in Workers, RecordProbeUnsat(w) PROVE RangeHolds'
  <2>1. bound[w] \in Values /\ lower \in Int /\ upper \in Int
    BY <1>24 DEF RecordProbeUnsat, BoundsAreReached, At
  <2>2. \A p \in Feasible : cost[p] \in Values /\ ~Reaches(cost[p], bound[w])
    BY <1>24, ProbeFindsAll DEF RecordProbeUnsat
  <2>3. CASE Minimizing
    <3>1. lower' = (IF bound[w] + 1 > lower THEN bound[w] + 1 ELSE lower) /\ UNCHANGED <<cost, upper>>
      BY <1>24, <2>3 DEF RecordProbeUnsat
    <3>q. QED
      BY <2>1, <2>2, <2>3, <3>1 DEF Reaches, Values
  <2>4. CASE ~Minimizing
    <3>1. upper' = (IF bound[w] - 1 < upper THEN bound[w] - 1 ELSE upper) /\ UNCHANGED <<cost, lower>>
      BY <1>24, <2>4 DEF RecordProbeUnsat
    <3>q. QED
      BY <2>1, <2>2, <2>4, <3>1 DEF Reaches, Values
  <2>q. QED
    BY <2>3, <2>4
<1>25. ASSUME NEW w \in Workers, StopProbe(w) PROVE RangeHolds'
  BY <1>25 DEF StopProbe
<1>26. ASSUME NEW w \in Workers, LnsImprove(w) PROVE RangeHolds'
  BY <1>26 DEF LnsImprove
<1>27. ASSUME NEW w \in Workers, LnsStop(w) PROVE RangeHolds'
  BY <1>27 DEF LnsStop
<1>28. CASE UNCHANGED vars
  BY <1>28 DEF vars
<1>q. QED
  BY <1>1, <1>2, <1>3, <1>4, <1>5, <1>6, <1>7, <1>8, <1>9, <1>10, <1>11, <1>12, <1>13, <1>14, <1>15,
     <1>16, <1>17, <1>18, <1>19, <1>20, <1>21, <1>22, <1>23, <1>24, <1>25, <1>26, <1>27, <1>28 DEF
     Next, WorkerStep, Returned
-----------------------------------------------------------------------------
(* The work queue.                                                         *)

\* What would improve on the incumbent passes every bound it has reached.
LEMMA ImprovingPassesReached ==
  ASSUME TypeOK, ReportsAreOrdered, NEW b \in Reached, NEW p \in Improving
  PROVE  Beats(cost[p], b)
<1>1. cost[p] \in Values /\ Beats(cost[p], BestLoaded)
  BY DEF TypeOK, Improving, Feasible
<1>q. QED
  BY <1>1, PortfolioAssumption DEF ReportsAreOrdered, Reached, Beats, Reaches, BestLoaded, Values

LEMMA CubesStep ==
  ASSUME PublicationInv, CubesAreHeld, UNCHANGED problem, [Next]_vars
  PROVE  CubesAreHeld'
<1>s. Regular \subseteq Workers
  BY DEF Workers
<1> USE <1>s, PortfolioAssumption DEF PublicationInv, TypeOK, RolesKept, CubesAreHeld, Splitter,
        RunsCompleteWorker, Holding, Reporting, At, Goto, problem, flags, incumbent, work, range,
        locals
<1>1. CASE Interrupt
  BY <1>1 DEF Interrupt
<1>2. ASSUME NEW w \in Workers, Take(w) PROVE CubesAreHeld'
  BY <1>2 DEF Take
<1>3. ASSUME NEW w \in Workers, ChooseLiteral(w) PROVE CubesAreHeld'
  BY <1>3 DEF ChooseLiteral
<1>4. ASSUME NEW w \in Workers, StopSplitting(w) PROVE CubesAreHeld'
  BY <1>4 DEF StopSplitting
<1>5. ASSUME NEW w \in Workers, TryPushSplit(w) PROVE CubesAreHeld'
  BY <1>5 DEF TryPushSplit
<1>6. ASSUME NEW w \in Workers, StartSearch(w) PROVE CubesAreHeld'
  BY <1>6 DEF StartSearch
<1>7. ASSUME NEW w \in Workers, TightenBound(w) PROVE CubesAreHeld'
  BY <1>7 DEF TightenBound
<1>8. ASSUME NEW w \in Workers, SyncSharedClauses(w) PROVE CubesAreHeld'
  BY <1>8 DEF SyncSharedClauses
<1>9. ASSUME NEW w \in Workers, ExportClause(w) PROVE CubesAreHeld'
  BY <1>9 DEF ExportClause
<1>10. ASSUME NEW w \in Workers, FindSolution(w) PROVE CubesAreHeld'
  BY <1>10 DEF FindSolution
<1>11. ASSUME NEW w \in Workers, ExhaustCube(w) PROVE CubesAreHeld'
  BY <1>11 DEF ExhaustCube
<1>12. ASSUME NEW w \in Workers, StopSearch(w) PROVE CubesAreHeld'
  BY <1>12 DEF StopSearch
<1>13. ASSUME NEW w \in Workers, Prove(w) PROVE CubesAreHeld'
  BY <1>13 DEF Prove
<1>14. ASSUME NEW w \in Workers, FinishCube(w) PROVE CubesAreHeld'
  BY <1>14 DEF FinishCube
<1>15. ASSUME NEW w \in Workers, NextCube(w) PROVE CubesAreHeld'
  BY <1>15 DEF NextCube
<1>16. ASSUME NEW w \in Workers, ReportImprovement(w) PROVE CubesAreHeld'
  BY <1>16 DEF ReportImprovement, ReportDone
<1>17. ASSUME NEW w \in Workers, PublishPresence(w) PROVE CubesAreHeld'
  BY <1>17 DEF PublishPresence
<1>18. ASSUME NEW w \in Workers, StoreSolution(w) PROVE CubesAreHeld'
  BY <1>18 DEF StoreSolution
<1>19. ASSUME NEW w \in Workers, CertifyImprovement(w) PROVE CubesAreHeld'
  BY <1>19 DEF CertifyImprovement, ReportDone
<1>20. ASSUME NEW w \in Workers, BeginProbe(w) PROVE CubesAreHeld'
  BY <1>20 DEF BeginProbe
<1>21. ASSUME NEW w \in Workers, FinishIfProbed(w) PROVE CubesAreHeld'
  BY <1>21 DEF FinishIfProbed
<1>22. ASSUME NEW w \in Workers, LoadBestForProbe(w) PROVE CubesAreHeld'
  BY <1>22 DEF LoadBestForProbe
<1>23. ASSUME NEW w \in Workers, NextProbe(w) PROVE CubesAreHeld'
  BY <1>23 DEF NextProbe
<1>24. ASSUME NEW w \in Workers, RecordProbeUnsat(w) PROVE CubesAreHeld'
  BY <1>24 DEF RecordProbeUnsat
<1>25. ASSUME NEW w \in Workers, StopProbe(w) PROVE CubesAreHeld'
  BY <1>25 DEF StopProbe
<1>26. ASSUME NEW w \in Workers, LnsImprove(w) PROVE CubesAreHeld'
  BY <1>26 DEF LnsImprove
<1>27. ASSUME NEW w \in Workers, LnsStop(w) PROVE CubesAreHeld'
  BY <1>27 DEF LnsStop
<1>28. CASE UNCHANGED vars
  BY <1>28 DEF vars
<1>q. QED
  BY <1>1, <1>2, <1>3, <1>4, <1>5, <1>6, <1>7, <1>8, <1>9, <1>10, <1>11, <1>12, <1>13, <1>14, <1>15,
     <1>16, <1>17, <1>18, <1>19, <1>20, <1>21, <1>22, <1>23, <1>24, <1>25, <1>26, <1>27, <1>28 DEF
     Next, WorkerStep, Returned

\* A search that has exhausted its cube leaves nothing that would improve: it pruned with
\* reached bounds and with clauses that remove no solution.
LEMMA SearchFindsAll ==
  ASSUME PublicationInv, ClausesAreSound, NEW w \in Regular, At(w, "search"), Open(w) = {}
  PROVE  cube[w] \cap Improving = {}
<1>1. ASSUME NEW p \in Improving
      PROVE  p \in Feasible /\ Beats(cost[p], bound[w])
  BY ImprovingPassesReached DEF PublicationInv, BoundsAreReached, Improving, Workers
<1>q. QED
  BY <1>1 DEF Open, InScope, WithinBound, ClausesAreSound, At, Feasible, Workers

LEMMA NothingLeftStep ==
  ASSUME PublicationInv, ClausesAreSound, CubesAreHeld, NothingLeft, UNCHANGED problem,
         Improving' \subseteq Improving, [Next]_vars
  PROVE  NothingLeft'
<1>s. Regular \subseteq Workers
  BY DEF Workers
<1> USE <1>s, PortfolioAssumption DEF PublicationInv, TypeOK, RolesKept, NothingLeft, Splitter,
        RunsCompleteWorker, At, Goto, problem, flags, incumbent, work, range, locals
<1>1. CASE Interrupt
  BY <1>1 DEF Interrupt
<1>2. ASSUME NEW w \in Workers, Take(w) PROVE NothingLeft'
  BY <1>2 DEF Take
<1>3. ASSUME NEW w \in Workers, ChooseLiteral(w) PROVE NothingLeft'
  BY <1>3 DEF ChooseLiteral
<1>4. ASSUME NEW w \in Workers, StopSplitting(w) PROVE NothingLeft'
  BY <1>4 DEF StopSplitting
<1>5. ASSUME NEW w \in Workers, TryPushSplit(w) PROVE NothingLeft'
  BY <1>5 DEF TryPushSplit
<1>6. ASSUME NEW w \in Workers, StartSearch(w) PROVE NothingLeft'
  BY <1>6 DEF StartSearch
<1>7. ASSUME NEW w \in Workers, TightenBound(w) PROVE NothingLeft'
  BY <1>7 DEF TightenBound
<1>8. ASSUME NEW w \in Workers, SyncSharedClauses(w) PROVE NothingLeft'
  BY <1>8 DEF SyncSharedClauses
<1>9. ASSUME NEW w \in Workers, ExportClause(w) PROVE NothingLeft'
  BY <1>9 DEF ExportClause
<1>10. ASSUME NEW w \in Workers, FindSolution(w) PROVE NothingLeft'
  BY <1>10 DEF FindSolution
<1>11. ASSUME NEW w \in Workers, ExhaustCube(w) PROVE NothingLeft'
  <2>1. w \in Regular
    BY <1>11 DEF ExhaustCube, Workers, Holding, Reporting
  <2>2. cube[w] \cap Improving = {}
    BY <1>11, <2>1, SearchFindsAll DEF ExhaustCube
  <2>q. QED
    BY <1>11, <2>2 DEF ExhaustCube
<1>12. ASSUME NEW w \in Workers, StopSearch(w) PROVE NothingLeft'
  BY <1>12 DEF StopSearch
<1>13. ASSUME NEW w \in Workers, Prove(w) PROVE NothingLeft'
  BY <1>13 DEF Prove
<1>14. ASSUME NEW w \in Workers, FinishCube(w) PROVE NothingLeft'
  BY <1>14 DEF FinishCube
<1>15. ASSUME NEW w \in Workers, NextCube(w) PROVE NothingLeft'
  BY <1>15 DEF NextCube
<1>16. ASSUME NEW w \in Workers, ReportImprovement(w) PROVE NothingLeft'
  BY <1>16 DEF ReportImprovement, ReportDone
<1>17. ASSUME NEW w \in Workers, PublishPresence(w) PROVE NothingLeft'
  BY <1>17 DEF PublishPresence
<1>18. ASSUME NEW w \in Workers, StoreSolution(w) PROVE NothingLeft'
  BY <1>18 DEF StoreSolution
<1>19. ASSUME NEW w \in Workers, CertifyImprovement(w) PROVE NothingLeft'
  BY <1>19 DEF CertifyImprovement, ReportDone
<1>20. ASSUME NEW w \in Workers, BeginProbe(w) PROVE NothingLeft'
  BY <1>20 DEF BeginProbe
<1>21. ASSUME NEW w \in Workers, FinishIfProbed(w) PROVE NothingLeft'
  BY <1>21 DEF FinishIfProbed
<1>22. ASSUME NEW w \in Workers, LoadBestForProbe(w) PROVE NothingLeft'
  BY <1>22 DEF LoadBestForProbe
<1>23. ASSUME NEW w \in Workers, NextProbe(w) PROVE NothingLeft'
  BY <1>23 DEF NextProbe
<1>24. ASSUME NEW w \in Workers, RecordProbeUnsat(w) PROVE NothingLeft'
  BY <1>24 DEF RecordProbeUnsat
<1>25. ASSUME NEW w \in Workers, StopProbe(w) PROVE NothingLeft'
  BY <1>25 DEF StopProbe
<1>26. ASSUME NEW w \in Workers, LnsImprove(w) PROVE NothingLeft'
  BY <1>26 DEF LnsImprove
<1>27. ASSUME NEW w \in Workers, LnsStop(w) PROVE NothingLeft'
  BY <1>27 DEF LnsStop
<1>28. CASE UNCHANGED vars
  BY <1>28 DEF vars
<1>q. QED
  BY <1>1, <1>2, <1>3, <1>4, <1>5, <1>6, <1>7, <1>8, <1>9, <1>10, <1>11, <1>12, <1>13, <1>14, <1>15,
     <1>16, <1>17, <1>18, <1>19, <1>20, <1>21, <1>22, <1>23, <1>24, <1>25, <1>26, <1>27, <1>28 DEF
     Next, WorkerStep, Returned

LEMMA HolderKeepsActive ==
  ASSUME ActiveCountsHolders, NEW w \in Holders
  PROVE  active # 0
BY HoldersAreCounted DEF ActiveCountsHolders

LEMMA SettledStep ==
  ASSUME PublicationInv, ActiveCountsHolders, QueueIsSettled, UNCHANGED problem, [Next]_vars
  PROVE  QueueIsSettled'
<1>s. Regular \subseteq Workers
  BY DEF Workers
<1> USE <1>s, PortfolioAssumption DEF PublicationInv, TypeOK, RolesKept, QueueIsSettled, Splitter,
        RunsCompleteWorker, At, Goto, problem, flags, incumbent, work, range, locals
<1>1. CASE Interrupt
  BY <1>1 DEF Interrupt
<1>2. ASSUME NEW w \in Workers, Take(w) PROVE QueueIsSettled'
  BY <1>2 DEF Take
<1>3. ASSUME NEW w \in Workers, ChooseLiteral(w) PROVE QueueIsSettled'
  BY <1>3 DEF ChooseLiteral
<1>4. ASSUME NEW w \in Workers, StopSplitting(w) PROVE QueueIsSettled'
  BY <1>4 DEF StopSplitting
<1>5. ASSUME NEW w \in Workers, TryPushSplit(w) PROVE QueueIsSettled'
  <2>1. w \in Holders
    BY <1>5 DEF TryPushSplit, Holders, Holding, Reporting, Workers
  <2>q. QED
    BY <1>5, <2>1, HolderKeepsActive DEF TryPushSplit
<1>6. ASSUME NEW w \in Workers, StartSearch(w) PROVE QueueIsSettled'
  BY <1>6 DEF StartSearch
<1>7. ASSUME NEW w \in Workers, TightenBound(w) PROVE QueueIsSettled'
  BY <1>7 DEF TightenBound
<1>8. ASSUME NEW w \in Workers, SyncSharedClauses(w) PROVE QueueIsSettled'
  BY <1>8 DEF SyncSharedClauses
<1>9. ASSUME NEW w \in Workers, ExportClause(w) PROVE QueueIsSettled'
  BY <1>9 DEF ExportClause
<1>10. ASSUME NEW w \in Workers, FindSolution(w) PROVE QueueIsSettled'
  BY <1>10 DEF FindSolution
<1>11. ASSUME NEW w \in Workers, ExhaustCube(w) PROVE QueueIsSettled'
  BY <1>11 DEF ExhaustCube
<1>12. ASSUME NEW w \in Workers, StopSearch(w) PROVE QueueIsSettled'
  BY <1>12 DEF StopSearch
<1>13. ASSUME NEW w \in Workers, Prove(w) PROVE QueueIsSettled'
  BY <1>13 DEF Prove
<1>14. ASSUME NEW w \in Workers, FinishCube(w) PROVE QueueIsSettled'
  <2>1. w \in Holders
    BY <1>14 DEF FinishCube, Holders, Holding, Reporting, Workers
  <2>q. QED
    BY <1>14, <2>1, HolderKeepsActive DEF FinishCube
<1>15. ASSUME NEW w \in Workers, NextCube(w) PROVE QueueIsSettled'
  BY <1>15 DEF NextCube
<1>16. ASSUME NEW w \in Workers, ReportImprovement(w) PROVE QueueIsSettled'
  BY <1>16 DEF ReportImprovement, ReportDone
<1>17. ASSUME NEW w \in Workers, PublishPresence(w) PROVE QueueIsSettled'
  BY <1>17 DEF PublishPresence
<1>18. ASSUME NEW w \in Workers, StoreSolution(w) PROVE QueueIsSettled'
  BY <1>18 DEF StoreSolution
<1>19. ASSUME NEW w \in Workers, CertifyImprovement(w) PROVE QueueIsSettled'
  BY <1>19 DEF CertifyImprovement, ReportDone
<1>20. ASSUME NEW w \in Workers, BeginProbe(w) PROVE QueueIsSettled'
  BY <1>20 DEF BeginProbe
<1>21. ASSUME NEW w \in Workers, FinishIfProbed(w) PROVE QueueIsSettled'
  BY <1>21 DEF FinishIfProbed
<1>22. ASSUME NEW w \in Workers, LoadBestForProbe(w) PROVE QueueIsSettled'
  BY <1>22 DEF LoadBestForProbe
<1>23. ASSUME NEW w \in Workers, NextProbe(w) PROVE QueueIsSettled'
  BY <1>23 DEF NextProbe
<1>24. ASSUME NEW w \in Workers, RecordProbeUnsat(w) PROVE QueueIsSettled'
  BY <1>24 DEF RecordProbeUnsat
<1>25. ASSUME NEW w \in Workers, StopProbe(w) PROVE QueueIsSettled'
  BY <1>25 DEF StopProbe
<1>26. ASSUME NEW w \in Workers, LnsImprove(w) PROVE QueueIsSettled'
  BY <1>26 DEF LnsImprove
<1>27. ASSUME NEW w \in Workers, LnsStop(w) PROVE QueueIsSettled'
  BY <1>27 DEF LnsStop
<1>28. CASE UNCHANGED vars
  BY <1>28 DEF vars
<1>q. QED
  BY <1>1, <1>2, <1>3, <1>4, <1>5, <1>6, <1>7, <1>8, <1>9, <1>10, <1>11, <1>12, <1>13, <1>14, <1>15,
     <1>16, <1>17, <1>18, <1>19, <1>20, <1>21, <1>22, <1>23, <1>24, <1>25, <1>26, <1>27, <1>28 DEF
     Next, WorkerStep, Returned

LEMMA ActiveStep ==
  ASSUME PublicationInv, ActiveCountsHolders, UNCHANGED problem, [Next]_vars
  PROVE  ActiveCountsHolders'
<1>s. Regular \subseteq Workers
  BY DEF Workers
<1> USE <1>s, PortfolioAssumption DEF PublicationInv, TypeOK, RolesKept, Splitter,
        RunsCompleteWorker, Holding, Reporting, At, Goto, problem, flags, incumbent, work, range,
        locals
<1>1. CASE Interrupt
  <2>1. Holders' = Holders /\ active' = active
    BY <1>1 DEF Interrupt, Holders
  <2>q. QED
    BY <2>1 DEF ActiveCountsHolders
<1>2. ASSUME NEW w \in Workers, Take(w) PROVE ActiveCountsHolders'
  <2>1. CASE cancel \/ jobs = <<>>
    <3>1. Holders' = Holders /\ active' = active
      BY <1>2, <2>1 DEF Take, Holders
    <3>q. QED
      BY <3>1 DEF ActiveCountsHolders
  <2>2. CASE ~cancel /\ jobs # <<>>
    <3>1. w \in Regular /\ Splitter(w) /\ w \notin Holders
      BY <1>2, <2>2 DEF Take, Holders, Workers
    <3>2. Holders' = Holders \cup {w} /\ active' = active + 1
      BY <1>2, <2>2, <3>1 DEF Take, Holders
    <3>q. QED
      BY <3>1, <3>2, HoldersAreFinite, FS_AddElement DEF ActiveCountsHolders
  <2>q. QED
    BY <2>1, <2>2
<1>3. ASSUME NEW w \in Workers, ChooseLiteral(w) PROVE ActiveCountsHolders'
  <2>1. Holders' = Holders /\ active' = active
    BY <1>3 DEF ChooseLiteral, Holders
  <2>q. QED
    BY <2>1 DEF ActiveCountsHolders
<1>4. ASSUME NEW w \in Workers, StopSplitting(w) PROVE ActiveCountsHolders'
  <2>1. Holders' = Holders /\ active' = active
    BY <1>4 DEF StopSplitting, Holders
  <2>q. QED
    BY <2>1 DEF ActiveCountsHolders
<1>5. ASSUME NEW w \in Workers, TryPushSplit(w) PROVE ActiveCountsHolders'
  <2>1. Holders' = Holders /\ active' = active
    BY <1>5 DEF TryPushSplit, Holders
  <2>q. QED
    BY <2>1 DEF ActiveCountsHolders
<1>6. ASSUME NEW w \in Workers, StartSearch(w) PROVE ActiveCountsHolders'
  <2>1. Holders' = Holders /\ active' = active
    BY <1>6 DEF StartSearch, Holders
  <2>q. QED
    BY <2>1 DEF ActiveCountsHolders
<1>7. ASSUME NEW w \in Workers, TightenBound(w) PROVE ActiveCountsHolders'
  <2>1. Holders' = Holders /\ active' = active
    BY <1>7 DEF TightenBound, Holders
  <2>q. QED
    BY <2>1 DEF ActiveCountsHolders
<1>8. ASSUME NEW w \in Workers, SyncSharedClauses(w) PROVE ActiveCountsHolders'
  <2>1. Holders' = Holders /\ active' = active
    BY <1>8 DEF SyncSharedClauses, Holders
  <2>q. QED
    BY <2>1 DEF ActiveCountsHolders
<1>9. ASSUME NEW w \in Workers, ExportClause(w) PROVE ActiveCountsHolders'
  <2>1. Holders' = Holders /\ active' = active
    BY <1>9 DEF ExportClause, Holders
  <2>q. QED
    BY <2>1 DEF ActiveCountsHolders
<1>10. ASSUME NEW w \in Workers, FindSolution(w) PROVE ActiveCountsHolders'
  <2>1. pc[w] \in {"search", "probe"} /\ pc' = [pc EXCEPT ![w] = "report"]
        /\ UNCHANGED <<problem, active>>
    BY <1>10 DEF FindSolution, Searching
  <2>2. Holders' = Holders
    BY <2>1 DEF Holders
  <2>q. QED
    BY <2>1, <2>2 DEF ActiveCountsHolders
<1>11. ASSUME NEW w \in Workers, ExhaustCube(w) PROVE ActiveCountsHolders'
  <2>1. Holders' = Holders /\ active' = active
    BY <1>11 DEF ExhaustCube, Holders
  <2>q. QED
    BY <2>1 DEF ActiveCountsHolders
<1>12. ASSUME NEW w \in Workers, StopSearch(w) PROVE ActiveCountsHolders'
  <2>1. Holders' = Holders /\ active' = active
    BY <1>12 DEF StopSearch, Holders
  <2>q. QED
    BY <2>1 DEF ActiveCountsHolders
<1>13. ASSUME NEW w \in Workers, Prove(w) PROVE ActiveCountsHolders'
  <2>1. Holders' = Holders /\ active' = active
    BY <1>13 DEF Prove, Holders
  <2>q. QED
    BY <2>1 DEF ActiveCountsHolders
<1>14. ASSUME NEW w \in Workers, FinishCube(w) PROVE ActiveCountsHolders'
  <2>1. w \in Holders
    BY <1>14 DEF FinishCube, Holders, Workers
  <2>2. Holders' = Holders \ {w} /\ active' = active - 1
    BY <1>14, <2>1 DEF FinishCube, Holders
  <2>q. QED
    BY <2>1, <2>2, HoldersAreFinite, FS_RemoveElement DEF ActiveCountsHolders
<1>15. ASSUME NEW w \in Workers, NextCube(w) PROVE ActiveCountsHolders'
  <2>1. Holders' = Holders /\ active' = active
    BY <1>15 DEF NextCube, Holders
  <2>q. QED
    BY <2>1 DEF ActiveCountsHolders
<1>16. ASSUME NEW w \in Workers, ReportImprovement(w) PROVE ActiveCountsHolders'
  <2>1. Holders' = Holders /\ active' = active
    BY <1>16 DEF ReportImprovement, ReportDone, Holders
  <2>q. QED
    BY <2>1 DEF ActiveCountsHolders
<1>17. ASSUME NEW w \in Workers, PublishPresence(w) PROVE ActiveCountsHolders'
  <2>1. Holders' = Holders /\ active' = active
    BY <1>17 DEF PublishPresence, Holders
  <2>q. QED
    BY <2>1 DEF ActiveCountsHolders
<1>18. ASSUME NEW w \in Workers, StoreSolution(w) PROVE ActiveCountsHolders'
  <2>1. Holders' = Holders /\ active' = active
    BY <1>18 DEF StoreSolution, Holders
  <2>q. QED
    BY <2>1 DEF ActiveCountsHolders
<1>19. ASSUME NEW w \in Workers, CertifyImprovement(w) PROVE ActiveCountsHolders'
  <2>1. Holders' = Holders /\ active' = active
    BY <1>19 DEF CertifyImprovement, ReportDone, Holders
  <2>q. QED
    BY <2>1 DEF ActiveCountsHolders
<1>20. ASSUME NEW w \in Workers, BeginProbe(w) PROVE ActiveCountsHolders'
  <2>1. Holders' = Holders /\ active' = active
    BY <1>20 DEF BeginProbe, Holders
  <2>q. QED
    BY <2>1 DEF ActiveCountsHolders
<1>21. ASSUME NEW w \in Workers, FinishIfProbed(w) PROVE ActiveCountsHolders'
  <2>1. Holders' = Holders /\ active' = active
    BY <1>21 DEF FinishIfProbed, Holders
  <2>q. QED
    BY <2>1 DEF ActiveCountsHolders
<1>22. ASSUME NEW w \in Workers, LoadBestForProbe(w) PROVE ActiveCountsHolders'
  <2>1. Holders' = Holders /\ active' = active
    BY <1>22 DEF LoadBestForProbe, Holders
  <2>q. QED
    BY <2>1 DEF ActiveCountsHolders
<1>23. ASSUME NEW w \in Workers, NextProbe(w) PROVE ActiveCountsHolders'
  <2>1. Holders' = Holders /\ active' = active
    BY <1>23 DEF NextProbe, Holders
  <2>q. QED
    BY <2>1 DEF ActiveCountsHolders
<1>24. ASSUME NEW w \in Workers, RecordProbeUnsat(w) PROVE ActiveCountsHolders'
  <2>1. Holders' = Holders /\ active' = active
    BY <1>24 DEF RecordProbeUnsat, Holders
  <2>q. QED
    BY <2>1 DEF ActiveCountsHolders
<1>25. ASSUME NEW w \in Workers, StopProbe(w) PROVE ActiveCountsHolders'
  <2>1. Holders' = Holders /\ active' = active
    BY <1>25 DEF StopProbe, Holders
  <2>q. QED
    BY <2>1 DEF ActiveCountsHolders
<1>26. ASSUME NEW w \in Workers, LnsImprove(w) PROVE ActiveCountsHolders'
  <2>1. Holders' = Holders /\ active' = active
    BY <1>26 DEF LnsImprove, Holders
  <2>q. QED
    BY <2>1 DEF ActiveCountsHolders
<1>27. ASSUME NEW w \in Workers, LnsStop(w) PROVE ActiveCountsHolders'
  <2>1. Holders' = Holders /\ active' = active
    BY <1>27 DEF LnsStop, Holders
  <2>q. QED
    BY <2>1 DEF ActiveCountsHolders
<1>28. CASE UNCHANGED vars
  <2>1. Holders' = Holders /\ active' = active
    BY <1>28 DEF vars, Holders
  <2>q. QED
    BY <2>1 DEF ActiveCountsHolders
<1>q. QED
  BY <1>1, <1>2, <1>3, <1>4, <1>5, <1>6, <1>7, <1>8, <1>9, <1>10, <1>11, <1>12, <1>13, <1>14, <1>15,
     <1>16, <1>17, <1>18, <1>19, <1>20, <1>21, <1>22, <1>23, <1>24, <1>25, <1>26, <1>27, <1>28 DEF
     Next, WorkerStep, Returned
LEMMA SplitsStep ==
  ASSUME TypeOK, SplitsBounded, [Next]_vars
  PROVE  SplitsBounded'
<1>s. Regular \subseteq Workers
  BY DEF Workers
<1> USE <1>s, PortfolioAssumption, QueueTypes DEF TypeOK, SplitsBounded, problem, flags,
        incumbent, work, range, locals
<1>1. CASE Interrupt
  BY <1>1 DEF Interrupt
<1>2. ASSUME NEW w \in Workers, Take(w) PROVE SplitsBounded'
  <2>1. Len(jobs') <= Len(jobs) /\ split' = split
    BY <1>2 DEF Take
  <2>2. Len(jobs') \in Nat /\ Len(jobs) \in Nat
    BY <1>2 DEF Take
  <2>q. QED
    BY <2>1, <2>2
<1>3. ASSUME NEW w \in Workers, ChooseLiteral(w) PROVE SplitsBounded'
  BY <1>3 DEF ChooseLiteral
<1>4. ASSUME NEW w \in Workers, StopSplitting(w) PROVE SplitsBounded'
  BY <1>4 DEF StopSplitting
<1>5. ASSUME NEW w \in Workers, TryPushSplit(w) PROVE SplitsBounded'
  <2>1. CASE NeedsSplit
    <3>1. cube[w] \ half[w] \in SUBSET Points
      OBVIOUS
    <3>2. Len(jobs') = Len(jobs) + 1 /\ split' = split + 1
      BY <1>5, <2>1, <3>1 DEF TryPushSplit
    <3>q. QED
      BY <2>1, <3>2 DEF NeedsSplit
  <2>2. CASE ~NeedsSplit
    BY <1>5, <2>2 DEF TryPushSplit
  <2>q. QED
    BY <2>1, <2>2
<1>6. ASSUME NEW w \in Workers, StartSearch(w) PROVE SplitsBounded'
  BY <1>6 DEF StartSearch
<1>7. ASSUME NEW w \in Workers, TightenBound(w) PROVE SplitsBounded'
  BY <1>7 DEF TightenBound
<1>8. ASSUME NEW w \in Workers, SyncSharedClauses(w) PROVE SplitsBounded'
  BY <1>8 DEF SyncSharedClauses
<1>9. ASSUME NEW w \in Workers, ExportClause(w) PROVE SplitsBounded'
  BY <1>9 DEF ExportClause
<1>10. ASSUME NEW w \in Workers, FindSolution(w) PROVE SplitsBounded'
  BY <1>10 DEF FindSolution
<1>11. ASSUME NEW w \in Workers, ExhaustCube(w) PROVE SplitsBounded'
  BY <1>11 DEF ExhaustCube
<1>12. ASSUME NEW w \in Workers, StopSearch(w) PROVE SplitsBounded'
  BY <1>12 DEF StopSearch
<1>13. ASSUME NEW w \in Workers, Prove(w) PROVE SplitsBounded'
  BY <1>13 DEF Prove
<1>14. ASSUME NEW w \in Workers, FinishCube(w) PROVE SplitsBounded'
  BY <1>14 DEF FinishCube
<1>15. ASSUME NEW w \in Workers, NextCube(w) PROVE SplitsBounded'
  BY <1>15 DEF NextCube
<1>16. ASSUME NEW w \in Workers, ReportImprovement(w) PROVE SplitsBounded'
  BY <1>16 DEF ReportImprovement
<1>17. ASSUME NEW w \in Workers, PublishPresence(w) PROVE SplitsBounded'
  BY <1>17 DEF PublishPresence
<1>18. ASSUME NEW w \in Workers, StoreSolution(w) PROVE SplitsBounded'
  BY <1>18 DEF StoreSolution
<1>19. ASSUME NEW w \in Workers, CertifyImprovement(w) PROVE SplitsBounded'
  BY <1>19 DEF CertifyImprovement
<1>20. ASSUME NEW w \in Workers, BeginProbe(w) PROVE SplitsBounded'
  BY <1>20 DEF BeginProbe
<1>21. ASSUME NEW w \in Workers, FinishIfProbed(w) PROVE SplitsBounded'
  BY <1>21 DEF FinishIfProbed
<1>22. ASSUME NEW w \in Workers, LoadBestForProbe(w) PROVE SplitsBounded'
  BY <1>22 DEF LoadBestForProbe
<1>23. ASSUME NEW w \in Workers, NextProbe(w) PROVE SplitsBounded'
  BY <1>23 DEF NextProbe
<1>24. ASSUME NEW w \in Workers, RecordProbeUnsat(w) PROVE SplitsBounded'
  BY <1>24 DEF RecordProbeUnsat
<1>25. ASSUME NEW w \in Workers, StopProbe(w) PROVE SplitsBounded'
  BY <1>25 DEF StopProbe
<1>26. ASSUME NEW w \in Workers, LnsImprove(w) PROVE SplitsBounded'
  BY <1>26 DEF LnsImprove
<1>27. ASSUME NEW w \in Workers, LnsStop(w) PROVE SplitsBounded'
  BY <1>27 DEF LnsStop
<1>28. CASE UNCHANGED vars
  BY <1>28 DEF vars
<1>q. QED
  BY <1>1, <1>2, <1>3, <1>4, <1>5, <1>6, <1>7, <1>8, <1>9, <1>10, <1>11, <1>12, <1>13, <1>14, <1>15,
     <1>16, <1>17, <1>18, <1>19, <1>20, <1>21, <1>22, <1>23, <1>24, <1>25, <1>26, <1>27, <1>28 DEF
     Next, WorkerStep, Returned

\* The points that are still in a queued job, or in the cube of a splitting worker.
Covered == {p \in Points : \/ \E i \in DOMAIN jobs : p \in jobs[i]
                           \/ \E w \in Regular : Splitter(w) /\ p \in cube[w]}

LEMMA CoverIsQueue == QueueCoversImprovements <=> Improving \subseteq Covered
BY DEF QueueCoversImprovements, Covered, Improving, Feasible

LEMMA QueueStep ==
  ASSUME PublicationInv, CubesAreHeld, NothingLeft, UNCHANGED problem, [Next]_vars
  PROVE  Improving \cap Covered \subseteq Covered'
<1>s. Regular \subseteq Workers
  BY DEF Workers
<1> USE <1>s, PortfolioAssumption DEF PublicationInv, TypeOK, Splitter, RunsCompleteWorker, At,
        Goto, problem, flags, incumbent, work, range, locals
<1>1. CASE Interrupt
  <2>1. UNCHANGED <<jobs, cube>>
    BY <1>1 DEF Interrupt
  <2>q. QED
    BY <2>1 DEF Covered
<1>2. ASSUME NEW w \in Workers, Take(w) PROVE Improving \cap Covered \subseteq Covered'
  <2>1. CASE cancel \/ jobs = <<>>
    <3>1. UNCHANGED <<jobs, cube>>
      BY <1>2, <2>1 DEF Take
    <3>q. QED
      BY <3>1 DEF Covered
  <2>2. CASE ~cancel /\ jobs # <<>>
    <3>1. w \in Regular /\ Splitter(w) /\ cube[w] = {}
      BY <1>2 DEF Take, RolesKept, CubesAreHeld, Holding, Reporting, Workers
    <3>2. jobs' = Tail(jobs) /\ cube' = [cube EXCEPT ![w] = jobs[1]]
      BY <1>2, <2>2 DEF Take
    <3>3. ASSUME NEW p \in Points, NEW i \in DOMAIN jobs, p \in jobs[i]
          PROVE  p \in Covered'
      <4>1. CASE i = 1
        BY <3>1, <3>2, <3>3, <4>1 DEF Covered
      <4>2. CASE i # 1
        <5>1. i - 1 \in DOMAIN jobs' /\ jobs'[i - 1] = jobs[i]
          BY <2>2, <3>2, <4>2
        <5>q. QED
          BY <3>3, <5>1 DEF Covered
      <4>q. QED
        BY <4>1, <4>2
    <3>4. ASSUME NEW p \in Points, NEW v \in Regular, Splitter(v), p \in cube[v]
          PROVE  p \in Covered'
      BY <3>1, <3>2, <3>4 DEF Covered
    <3>q. QED
      BY <3>3, <3>4 DEF Covered
  <2>q. QED
    BY <2>1, <2>2
<1>3. ASSUME NEW w \in Workers, ChooseLiteral(w) PROVE Improving \cap Covered \subseteq Covered'
  <2>1. UNCHANGED <<jobs, cube>>
    BY <1>3 DEF ChooseLiteral
  <2>q. QED
    BY <2>1 DEF Covered
<1>4. ASSUME NEW w \in Workers, StopSplitting(w) PROVE Improving \cap Covered \subseteq Covered'
  <2>1. UNCHANGED <<jobs, cube>>
    BY <1>4 DEF StopSplitting
  <2>q. QED
    BY <2>1 DEF Covered
<1>5. ASSUME NEW w \in Workers, TryPushSplit(w) PROVE Improving \cap Covered \subseteq Covered'
  <2>1. CASE NeedsSplit
    <3>1. w \in Regular /\ Splitter(w)
      BY <1>5 DEF TryPushSplit, RolesKept, Holding, Reporting, Workers
    <3> DEFINE rest == cube[w] \ half[w]
    <3>2. jobs' = Append(jobs, rest) /\ cube' = [cube EXCEPT ![w] = half[w]]
      BY <1>5, <2>1 DEF TryPushSplit
    <3>3. rest \in SUBSET Points
      OBVIOUS
    <3>4. Len(jobs) + 1 \in DOMAIN jobs' /\ jobs'[Len(jobs) + 1] = rest
      BY <3>2, <3>3
    <3>5. \A i \in DOMAIN jobs : i \in DOMAIN jobs' /\ jobs'[i] = jobs[i]
      BY <3>2, <3>3
    <3>6. ASSUME NEW p \in Points, NEW i \in DOMAIN jobs, p \in jobs[i]
          PROVE  p \in Covered'
      BY <3>5, <3>6 DEF Covered
    <3>7. ASSUME NEW p \in Points, NEW v \in Regular, Splitter(v), p \in cube[v]
          PROVE  p \in Covered'
      <4>1. CASE v = w /\ p \in rest
        BY <3>4, <4>1 DEF Covered
      <4>2. CASE v # w \/ p \notin rest
        BY <3>2, <3>7, <4>2 DEF Covered
      <4>q. QED
        BY <4>1, <4>2
    <3>q. QED
      BY <3>6, <3>7 DEF Covered
  <2>2. CASE ~NeedsSplit
    <3>1. UNCHANGED <<jobs, cube>>
      BY <1>5, <2>2 DEF TryPushSplit
    <3>q. QED
      BY <3>1 DEF Covered
  <2>q. QED
    BY <2>1, <2>2
<1>6. ASSUME NEW w \in Workers, StartSearch(w) PROVE Improving \cap Covered \subseteq Covered'
  <2>1. UNCHANGED <<jobs, cube>>
    BY <1>6 DEF StartSearch
  <2>q. QED
    BY <2>1 DEF Covered
<1>7. ASSUME NEW w \in Workers, TightenBound(w) PROVE Improving \cap Covered \subseteq Covered'
  <2>1. UNCHANGED <<jobs, cube>>
    BY <1>7 DEF TightenBound
  <2>q. QED
    BY <2>1 DEF Covered
<1>8. ASSUME NEW w \in Workers, SyncSharedClauses(w) PROVE Improving \cap Covered \subseteq Covered'
  <2>1. UNCHANGED <<jobs, cube>>
    BY <1>8 DEF SyncSharedClauses
  <2>q. QED
    BY <2>1 DEF Covered
<1>9. ASSUME NEW w \in Workers, ExportClause(w) PROVE Improving \cap Covered \subseteq Covered'
  <2>1. UNCHANGED <<jobs, cube>>
    BY <1>9 DEF ExportClause
  <2>q. QED
    BY <2>1 DEF Covered
<1>10. ASSUME NEW w \in Workers, FindSolution(w) PROVE Improving \cap Covered \subseteq Covered'
  <2>1. UNCHANGED <<jobs, cube>>
    BY <1>10 DEF FindSolution
  <2>q. QED
    BY <2>1 DEF Covered
<1>11. ASSUME NEW w \in Workers, ExhaustCube(w) PROVE Improving \cap Covered \subseteq Covered'
  <2>1. UNCHANGED <<jobs, cube>>
    BY <1>11 DEF ExhaustCube
  <2>q. QED
    BY <2>1 DEF Covered
<1>12. ASSUME NEW w \in Workers, StopSearch(w) PROVE Improving \cap Covered \subseteq Covered'
  <2>1. UNCHANGED <<jobs, cube>>
    BY <1>12 DEF StopSearch
  <2>q. QED
    BY <2>1 DEF Covered
<1>13. ASSUME NEW w \in Workers, Prove(w) PROVE Improving \cap Covered \subseteq Covered'
  <2>1. UNCHANGED <<jobs, cube>>
    BY <1>13 DEF Prove
  <2>q. QED
    BY <2>1 DEF Covered
<1>14. ASSUME NEW w \in Workers, FinishCube(w) PROVE Improving \cap Covered \subseteq Covered'
  <2>1. w \in Regular /\ (complete[w] => cube[w] \cap Improving = {})
    BY <1>14 DEF FinishCube, RolesKept, NothingLeft, Holding, Reporting, Workers, At
  <2>2. UNCHANGED jobs /\ cube' = IF complete[w] THEN [cube EXCEPT ![w] = {}] ELSE cube
    BY <1>14 DEF FinishCube
  <2>q. QED
    BY <2>1, <2>2 DEF Covered
<1>15. ASSUME NEW w \in Workers, NextCube(w) PROVE Improving \cap Covered \subseteq Covered'
  <2>1. UNCHANGED <<jobs, cube>>
    BY <1>15 DEF NextCube
  <2>q. QED
    BY <2>1 DEF Covered
<1>16. ASSUME NEW w \in Workers, ReportImprovement(w) PROVE Improving \cap Covered \subseteq Covered'
  <2>1. UNCHANGED <<jobs, cube>>
    BY <1>16 DEF ReportImprovement, ReportDone
  <2>q. QED
    BY <2>1 DEF Covered
<1>17. ASSUME NEW w \in Workers, PublishPresence(w) PROVE Improving \cap Covered \subseteq Covered'
  <2>1. UNCHANGED <<jobs, cube>>
    BY <1>17 DEF PublishPresence
  <2>q. QED
    BY <2>1 DEF Covered
<1>18. ASSUME NEW w \in Workers, StoreSolution(w) PROVE Improving \cap Covered \subseteq Covered'
  <2>1. UNCHANGED <<jobs, cube>>
    BY <1>18 DEF StoreSolution
  <2>q. QED
    BY <2>1 DEF Covered
<1>19. ASSUME NEW w \in Workers, CertifyImprovement(w) PROVE Improving \cap Covered \subseteq Covered'
  <2>1. UNCHANGED <<jobs, cube>>
    BY <1>19 DEF CertifyImprovement, ReportDone
  <2>q. QED
    BY <2>1 DEF Covered
<1>20. ASSUME NEW w \in Workers, BeginProbe(w) PROVE Improving \cap Covered \subseteq Covered'
  <2>1. UNCHANGED <<jobs, cube>>
    BY <1>20 DEF BeginProbe
  <2>q. QED
    BY <2>1 DEF Covered
<1>21. ASSUME NEW w \in Workers, FinishIfProbed(w) PROVE Improving \cap Covered \subseteq Covered'
  <2>1. UNCHANGED <<jobs, cube>>
    BY <1>21 DEF FinishIfProbed
  <2>q. QED
    BY <2>1 DEF Covered
<1>22. ASSUME NEW w \in Workers, LoadBestForProbe(w) PROVE Improving \cap Covered \subseteq Covered'
  <2>1. UNCHANGED <<jobs, cube>>
    BY <1>22 DEF LoadBestForProbe
  <2>q. QED
    BY <2>1 DEF Covered
<1>23. ASSUME NEW w \in Workers, NextProbe(w) PROVE Improving \cap Covered \subseteq Covered'
  <2>1. UNCHANGED <<jobs, cube>>
    BY <1>23 DEF NextProbe
  <2>q. QED
    BY <2>1 DEF Covered
<1>24. ASSUME NEW w \in Workers, RecordProbeUnsat(w) PROVE Improving \cap Covered \subseteq Covered'
  <2>1. UNCHANGED <<jobs, cube>>
    BY <1>24 DEF RecordProbeUnsat
  <2>q. QED
    BY <2>1 DEF Covered
<1>25. ASSUME NEW w \in Workers, StopProbe(w) PROVE Improving \cap Covered \subseteq Covered'
  <2>1. UNCHANGED <<jobs, cube>>
    BY <1>25 DEF StopProbe
  <2>q. QED
    BY <2>1 DEF Covered
<1>26. ASSUME NEW w \in Workers, LnsImprove(w) PROVE Improving \cap Covered \subseteq Covered'
  <2>1. UNCHANGED <<jobs, cube>>
    BY <1>26 DEF LnsImprove
  <2>q. QED
    BY <2>1 DEF Covered
<1>27. ASSUME NEW w \in Workers, LnsStop(w) PROVE Improving \cap Covered \subseteq Covered'
  <2>1. UNCHANGED <<jobs, cube>>
    BY <1>27 DEF LnsStop
  <2>q. QED
    BY <2>1 DEF Covered
<1>28. CASE UNCHANGED vars
  <2>1. UNCHANGED <<jobs, cube>>
    BY <1>28 DEF vars
  <2>q. QED
    BY <2>1 DEF Covered
<1>q. QED
  BY <1>1, <1>2, <1>3, <1>4, <1>5, <1>6, <1>7, <1>8, <1>9, <1>10, <1>11, <1>12, <1>13, <1>14, <1>15,
     <1>16, <1>17, <1>18, <1>19, <1>20, <1>21, <1>22, <1>23, <1>24, <1>25, <1>26, <1>27, <1>28 DEF
     Next, WorkerStep, Returned
-----------------------------------------------------------------------------
(* The four ways to a proof.                                               *)

\* The points in the cubes that interrupted workers let go.
LetGo == {p \in Points : \E w \in Abandoned : p \in cube[w]}

LEMMA HonestMeansLetGo == ProofsAreHonest <=> (proved => Improving \subseteq LetGo)
BY DEF ProofsAreHonest, LetGo, Improving, Feasible

\* An incumbent that reaches the certified bound.
LEMMA CertificateProves ==
  ASSUME PublicationInv, CertificateHolds, NEW c \in Reached \cap Values, Certifies(c)
  PROVE  Improving = {}
<1> SUFFICES ASSUME NEW p \in Improving PROVE FALSE
  OBVIOUS
<1>1. Beats(cost[p], c) /\ cost[p] \in Values
  BY ImprovingPassesReached DEF PublicationInv, TypeOK, Improving, Feasible
<1>2. certified \in Values /\ Reaches(c, certified) /\ Reaches(certified, cost[p])
  BY DEF CertificateHolds, Certifies, PublicationInv, TypeOK, Improving
<1>q. QED
  BY <1>1, <1>2, PortfolioAssumption DEF Beats, Reaches, Values

\* Probes that have ruled out all that is better than a bound the incumbent has reached.
LEMMA ProbesProve ==
  ASSUME PublicationInv, RangeHolds, NEW b \in Reached, Probed(b)
  PROVE  Improving = {}
<1> SUFFICES ASSUME NEW p \in Improving PROVE FALSE
  OBVIOUS
<1>1. Beats(cost[p], b) /\ cost[p] \in Values
  BY ImprovingPassesReached DEF PublicationInv, TypeOK, Improving, Feasible
<1>2. lower \in Int /\ upper \in Int /\ lower <= cost[p] /\ cost[p] <= upper
  BY DEF PublicationInv, TypeOK, RangeHolds, Improving
<1>q. QED
  BY <1>1, <1>2, PortfolioAssumption DEF Probed, Beats, Reached, Values

\* A search of the whole problem that has ended.
LEMMA WholeSearchProves ==
  ASSUME CubesAreHeld, NothingLeft, NEW w \in Regular, ~Splitter(w), pc[w] = "prove"
  PROVE  Improving = {}
BY DEF CubesAreHeld, NothingLeft, Improving, Feasible

\* The last worker of the queue: the jobs are gone, nobody holds a cube, so what the
\* queue covers is in the cubes that were let go.
LEMMA LastCubeProves ==
  ASSUME PublicationInv, WorkInv, NEW w \in Regular, Splitter(w), pc[w] = "prove"
  PROVE  Improving \subseteq LetGo
<1>1. jobs = <<>> /\ Holders = {}
  <2>1. active = 0 /\ jobs = <<>>
    BY DEF WorkInv, QueueIsSettled
  <2>q. QED
    BY <2>1, HoldersAreFinite, FS_EmptySet DEF WorkInv, ActiveCountsHolders
<1>2. ASSUME NEW p \in Improving PROVE p \in LetGo
  <2>1. PICK v \in Regular : Splitter(v) /\ p \in cube[v]
    BY <1>1 DEF WorkInv, QueueCoversImprovements
  <2>2. pc[v] \in {"loop", "done"}
    BY <1>1, <2>1 DEF Holders, PublicationInv, RolesKept, WorkInv, CubesAreHeld, Workers
  <2>q. QED
    BY <2>1, <2>2 DEF LetGo, Abandoned, Improving, Feasible
<1>q. QED
  BY <1>2

\* A cube that was let go is never taken up again: its worker stays interrupted.

LEMMA LetGoStays ==
  ASSUME PublicationInv, CubesAreHeld, UNCHANGED problem, [Next]_vars
  PROVE  LetGo \subseteq LetGo'
<1>s. Regular \subseteq Workers
  BY DEF Workers
<1> USE <1>s, PortfolioAssumption DEF PublicationInv, TypeOK, CubesAreHeld, LetGo, Abandoned,
        Splitter, RunsCompleteWorker, At, Goto, problem, flags, incumbent, work, range, locals
<1>1. CASE Interrupt
  BY <1>1 DEF Interrupt
<1>2. ASSUME NEW w \in Workers, Take(w) PROVE LetGo \subseteq LetGo'
  BY <1>2 DEF Take
<1>3. ASSUME NEW w \in Workers, ChooseLiteral(w) PROVE LetGo \subseteq LetGo'
  BY <1>3 DEF ChooseLiteral
<1>4. ASSUME NEW w \in Workers, StopSplitting(w) PROVE LetGo \subseteq LetGo'
  BY <1>4 DEF StopSplitting
<1>5. ASSUME NEW w \in Workers, TryPushSplit(w) PROVE LetGo \subseteq LetGo'
  BY <1>5 DEF TryPushSplit
<1>6. ASSUME NEW w \in Workers, StartSearch(w) PROVE LetGo \subseteq LetGo'
  BY <1>6 DEF StartSearch
<1>7. ASSUME NEW w \in Workers, TightenBound(w) PROVE LetGo \subseteq LetGo'
  BY <1>7 DEF TightenBound
<1>8. ASSUME NEW w \in Workers, SyncSharedClauses(w) PROVE LetGo \subseteq LetGo'
  BY <1>8 DEF SyncSharedClauses
<1>9. ASSUME NEW w \in Workers, ExportClause(w) PROVE LetGo \subseteq LetGo'
  BY <1>9 DEF ExportClause
<1>10. ASSUME NEW w \in Workers, FindSolution(w) PROVE LetGo \subseteq LetGo'
  <2>1. pc[w] \in {"search", "probe"} /\ pc' = [pc EXCEPT ![w] = "report"]
        /\ UNCHANGED <<problem, cube>>
    BY <1>10 DEF FindSolution, Searching
  <2>2. Abandoned \subseteq Abandoned'
    BY <2>1
  <2>3. UNCHANGED cube
    BY <2>1
  <2> HIDE <1>10, <2>1 DEF Abandoned
  <2>q. QED
    BY <2>2, <2>3
<1>11. ASSUME NEW w \in Workers, ExhaustCube(w) PROVE LetGo \subseteq LetGo'
  BY <1>11 DEF ExhaustCube
<1>12. ASSUME NEW w \in Workers, StopSearch(w) PROVE LetGo \subseteq LetGo'
  BY <1>12 DEF StopSearch
<1>13. ASSUME NEW w \in Workers, Prove(w) PROVE LetGo \subseteq LetGo'
  BY <1>13 DEF Prove
<1>14. ASSUME NEW w \in Workers, FinishCube(w) PROVE LetGo \subseteq LetGo'
  BY <1>14 DEF FinishCube
<1>15. ASSUME NEW w \in Workers, NextCube(w) PROVE LetGo \subseteq LetGo'
  BY <1>15 DEF NextCube
<1>16. ASSUME NEW w \in Workers, ReportImprovement(w) PROVE LetGo \subseteq LetGo'
  BY <1>16 DEF ReportImprovement, ReportDone
<1>17. ASSUME NEW w \in Workers, PublishPresence(w) PROVE LetGo \subseteq LetGo'
  BY <1>17 DEF PublishPresence
<1>18. ASSUME NEW w \in Workers, StoreSolution(w) PROVE LetGo \subseteq LetGo'
  BY <1>18 DEF StoreSolution
<1>19. ASSUME NEW w \in Workers, CertifyImprovement(w) PROVE LetGo \subseteq LetGo'
  BY <1>19 DEF CertifyImprovement, ReportDone
<1>20. ASSUME NEW w \in Workers, BeginProbe(w) PROVE LetGo \subseteq LetGo'
  BY <1>20 DEF BeginProbe
<1>21. ASSUME NEW w \in Workers, FinishIfProbed(w) PROVE LetGo \subseteq LetGo'
  BY <1>21 DEF FinishIfProbed
<1>22. ASSUME NEW w \in Workers, LoadBestForProbe(w) PROVE LetGo \subseteq LetGo'
  BY <1>22 DEF LoadBestForProbe
<1>23. ASSUME NEW w \in Workers, NextProbe(w) PROVE LetGo \subseteq LetGo'
  BY <1>23 DEF NextProbe
<1>24. ASSUME NEW w \in Workers, RecordProbeUnsat(w) PROVE LetGo \subseteq LetGo'
  BY <1>24 DEF RecordProbeUnsat
<1>25. ASSUME NEW w \in Workers, StopProbe(w) PROVE LetGo \subseteq LetGo'
  BY <1>25 DEF StopProbe
<1>26. ASSUME NEW w \in Workers, LnsImprove(w) PROVE LetGo \subseteq LetGo'
  BY <1>26 DEF LnsImprove
<1>27. ASSUME NEW w \in Workers, LnsStop(w) PROVE LetGo \subseteq LetGo'
  BY <1>27 DEF LnsStop
<1>28. CASE UNCHANGED vars
  BY <1>28 DEF vars
<1>q. QED
  BY <1>1, <1>2, <1>3, <1>4, <1>5, <1>6, <1>7, <1>8, <1>9, <1>10, <1>11, <1>12, <1>13, <1>14, <1>15,
     <1>16, <1>17, <1>18, <1>19, <1>20, <1>21, <1>22, <1>23, <1>24, <1>25, <1>26, <1>27, <1>28 DEF
     Next, WorkerStep, Returned

LEMMA HonestStep ==
  ASSUME PortfolioInv, PublicationInv', BestKept, [Next]_vars
  PROVE  ProofsAreHonest'
<1>i. Improving' \subseteq Improving /\ LetGo \subseteq LetGo'
  BY ImprovingShrinks, LetGoStays DEF PortfolioInv, PublicationInv, WorkInv, BestKept
<1>j. ProofsAreHonest' <=> (proved' => Improving' \subseteq LetGo')
  BY DEF ProofsAreHonest, LetGo, Improving, Feasible
<1>h. /\ proved' = proved => ProofsAreHonest'
      /\ Improving \subseteq LetGo => ProofsAreHonest'
  BY <1>i, <1>j, HonestMeansLetGo DEF PortfolioInv
<1>1. CASE Interrupt
  BY <1>1, <1>h DEF Interrupt, flags
<1>2. ASSUME NEW w \in Workers, Take(w) PROVE ProofsAreHonest'
  BY <1>2, <1>h DEF Take, flags
<1>3. ASSUME NEW w \in Workers, ChooseLiteral(w) PROVE ProofsAreHonest'
  BY <1>3, <1>h DEF ChooseLiteral, flags
<1>4. ASSUME NEW w \in Workers, StopSplitting(w) PROVE ProofsAreHonest'
  BY <1>4, <1>h DEF StopSplitting, flags
<1>5. ASSUME NEW w \in Workers, TryPushSplit(w) PROVE ProofsAreHonest'
  BY <1>5, <1>h DEF TryPushSplit, flags
<1>6. ASSUME NEW w \in Workers, StartSearch(w) PROVE ProofsAreHonest'
  BY <1>6, <1>h DEF StartSearch, flags
<1>7. ASSUME NEW w \in Workers, TightenBound(w) PROVE ProofsAreHonest'
  BY <1>7, <1>h DEF TightenBound, flags
<1>8. ASSUME NEW w \in Workers, SyncSharedClauses(w) PROVE ProofsAreHonest'
  BY <1>8, <1>h DEF SyncSharedClauses, flags
<1>9. ASSUME NEW w \in Workers, ExportClause(w) PROVE ProofsAreHonest'
  BY <1>9, <1>h DEF ExportClause, flags
<1>10. ASSUME NEW w \in Workers, FindSolution(w) PROVE ProofsAreHonest'
  BY <1>10, <1>h DEF FindSolution, flags
<1>11. ASSUME NEW w \in Workers, ExhaustCube(w) PROVE ProofsAreHonest'
  BY <1>11, <1>h DEF ExhaustCube, flags
<1>12. ASSUME NEW w \in Workers, StopSearch(w) PROVE ProofsAreHonest'
  BY <1>12, <1>h DEF StopSearch, flags
<1>13. ASSUME NEW w \in Workers, Prove(w) PROVE ProofsAreHonest'
  <2>1. CASE Splitter(w)
    <3>1. w \in Regular /\ pc[w] = "prove"
      BY <1>13, <2>1 DEF Prove, Splitter, At
    <3>q. QED
      BY <1>h, <2>1, <3>1, LastCubeProves DEF PortfolioInv
  <2>2. CASE ~Splitter(w)
    <3>1. w \in Regular /\ pc[w] = "prove"
      BY <1>13, <2>2 DEF Prove, PortfolioInv, PublicationInv, RolesKept, Reporting, Workers, At
    <3>q. QED
      BY <1>h, <2>2, <3>1, WholeSearchProves DEF PortfolioInv, WorkInv
  <2>q. QED
    BY <2>1, <2>2
<1>14. ASSUME NEW w \in Workers, FinishCube(w) PROVE ProofsAreHonest'
  BY <1>14, <1>h DEF FinishCube, flags
<1>15. ASSUME NEW w \in Workers, NextCube(w) PROVE ProofsAreHonest'
  BY <1>15, <1>h DEF NextCube, flags
<1>16. ASSUME NEW w \in Workers, ReportImprovement(w) PROVE ProofsAreHonest'
  BY <1>16, <1>h DEF ReportImprovement, flags
<1>17. ASSUME NEW w \in Workers, PublishPresence(w) PROVE ProofsAreHonest'
  BY <1>17, <1>h DEF PublishPresence, flags
<1>18. ASSUME NEW w \in Workers, StoreSolution(w) PROVE ProofsAreHonest'
  BY <1>18, <1>h DEF StoreSolution, flags
<1>19. ASSUME NEW w \in Workers, CertifyImprovement(w) PROVE ProofsAreHonest'
  <2>1. found[w] \in Feasible /\ cost[found[w]] \in Reached
    BY <1>19 DEF CertifyImprovement, PortfolioInv, PublicationInv, ReportsAreOrdered,
       BoundsAreReached, Reporting, At
  <2>2. cost[found[w]] \in Reached \cap Values
    BY <2>1 DEF PortfolioInv, PublicationInv, TypeOK, Feasible
  <2>3. CASE Certifies(cost[found[w]])
    BY <1>h, <2>2, <2>3, CertificateProves DEF PortfolioInv, EvidenceInv
  <2>4. CASE ~Certifies(cost[found[w]])
    BY <1>19, <1>h, <2>4 DEF CertifyImprovement, flags
  <2>q. QED
    BY <2>3, <2>4
<1>20. ASSUME NEW w \in Workers, BeginProbe(w) PROVE ProofsAreHonest'
  BY <1>20, <1>h DEF BeginProbe, flags
<1>21. ASSUME NEW w \in Workers, FinishIfProbed(w) PROVE ProofsAreHonest'
  <2>1. bound[w] \in Reached
    BY <1>21 DEF FinishIfProbed, PortfolioInv, PublicationInv, RolesKept, BoundsAreReached,
       Holding, Reporting, Workers, At
  <2>2. CASE Probed(bound[w])
    BY <1>h, <2>1, <2>2, ProbesProve DEF PortfolioInv, EvidenceInv
  <2>3. CASE ~Probed(bound[w])
    BY <1>21, <1>h, <2>3 DEF FinishIfProbed, flags
  <2>q. QED
    BY <2>2, <2>3
<1>22. ASSUME NEW w \in Workers, LoadBestForProbe(w) PROVE ProofsAreHonest'
  BY <1>22, <1>h DEF LoadBestForProbe, flags
<1>23. ASSUME NEW w \in Workers, NextProbe(w) PROVE ProofsAreHonest'
  BY <1>23, <1>h DEF NextProbe, flags
<1>24. ASSUME NEW w \in Workers, RecordProbeUnsat(w) PROVE ProofsAreHonest'
  BY <1>24, <1>h DEF RecordProbeUnsat, flags
<1>25. ASSUME NEW w \in Workers, StopProbe(w) PROVE ProofsAreHonest'
  BY <1>25, <1>h DEF StopProbe, flags
<1>26. ASSUME NEW w \in Workers, LnsImprove(w) PROVE ProofsAreHonest'
  BY <1>26, <1>h DEF LnsImprove, flags
<1>27. ASSUME NEW w \in Workers, LnsStop(w) PROVE ProofsAreHonest'
  BY <1>27, <1>h DEF LnsStop, flags
<1>28. CASE UNCHANGED vars
  BY <1>28, <1>h DEF vars, flags
<1>q. QED
  BY <1>1, <1>2, <1>3, <1>4, <1>5, <1>6, <1>7, <1>8, <1>9, <1>10, <1>11, <1>12, <1>13, <1>14, <1>15,
     <1>16, <1>17, <1>18, <1>19, <1>20, <1>21, <1>22, <1>23, <1>24, <1>25, <1>26, <1>27, <1>28 DEF
     Next, WorkerStep, Returned
-----------------------------------------------------------------------------
(* The invariant.                                                          *)

LEMMA PortfolioInit == Init => PortfolioInv
<1> SUFFICES ASSUME Init PROVE PortfolioInv
  OBVIOUS
<1> USE PortfolioAssumption
<1>1. Low \in Int /\ High \in Int /\ Feasible \subseteq Points /\ \A p \in Feasible : cost[p] \in Values
  BY DEF Init, Feasible
<1>2. TypeOK
  <2>1. <<Points>> \in Seq(SUBSET Points)
    OBVIOUS
  <2>2. best_value \in Values \cup {0} /\ slot \in Points \cup {NoPoint} /\ lock \in Workers \cup {NoWorker}
    BY <1>1 DEF Init
  <2>3. cube \in [Workers -> SUBSET Points] /\ half \in [Workers -> SUBSET Points]
        /\ pruned \in [Workers -> SUBSET Points]
    BY DEF Init
  <2>4. pc \in [Workers -> PC] /\ bound \in [Workers -> Values \cup {0, NoBound}]
        /\ found \in [Workers -> Points \cup {NoPoint}] /\ complete \in [Workers -> BOOLEAN]
    BY DEF Init, PC
  <2>5. cost \in [Points -> Values \cup {Infeasible}] /\ certified \in Values \cup {NoBound}
        /\ explicit \in BOOLEAN
    BY DEF Init
  <2>q. QED
    BY <1>1, <2>1, <2>2, <2>3, <2>4, <2>5 DEF Init, TypeOK
<1>3. RolesKept
  BY DEF Init, RolesKept, Splitter, RunsCompleteWorker, Holding, Reporting, Workers
<1>4. ReportsAreOrdered
  BY <1>1 DEF Init, ReportsAreOrdered, Reporting
<1>5. BoundsAreReached
  BY DEF Init, BoundsAreReached, Reached, Workers
<1>6. CertificateHolds /\ ClausesAreSound /\ SharedClausesKeepSolutions
  BY DEF Init, CertificateHolds, ClausesAreSound, SharedClausesKeepSolutions
<1>7. RangeHolds
  BY <1>1 DEF Init, RangeHolds, Values
<1>8. CubesAreHeld
  BY DEF Init, CubesAreHeld, Splitter, Workers
<1>9. NothingLeft /\ QueueIsSettled
  BY DEF Init, NothingLeft, QueueIsSettled, Workers
<1>10. ActiveCountsHolders
  <2>1. Holders = {}
    BY DEF Init, Holders, Holding, Reporting, Workers
  <2>q. QED
    BY <2>1, FS_EmptySet DEF Init, ActiveCountsHolders
<1>11. SplitsBounded
  BY DEF Init, SplitsBounded
<1>12. QueueCoversImprovements
  BY <1>1 DEF Init, QueueCoversImprovements, Improving
<1>13. ProofsAreHonest
  BY DEF Init, ProofsAreHonest
<1>q. QED
  BY <1>2, <1>3, <1>4, <1>5, <1>6, <1>7, <1>8, <1>9, <1>10, <1>11, <1>12, <1>13
  DEF PortfolioInv, PublicationInv, EvidenceInv, WorkInv

LEMMA PortfolioStep == PortfolioInv /\ [Next]_vars => PortfolioInv'
<1> SUFFICES ASSUME PortfolioInv, [Next]_vars PROVE PortfolioInv'
  OBVIOUS
<1> USE DEF PortfolioInv
<1>1. BestKept /\ UNCHANGED problem
  BY BestStep DEF BestKept
<1>2. TypeOK'
  BY TypeStep
<1>3. RolesKept' /\ ReportsAreOrdered'
  BY <1>2, RolesStep, ReportsStep DEF PublicationInv
<1>4. BoundsAreReached'
  BY <1>2, <1>3, BoundsStep DEF EvidenceInv
<1>5. PublicationInv'
  BY <1>2, <1>3, <1>4 DEF PublicationInv
<1>6. Improving' \subseteq Improving /\ Feasible' = Feasible
  BY <1>1, <1>3, ImprovingShrinks DEF PublicationInv
<1>7. EvidenceInv'
  <2>1. CertificateHolds'
    BY <1>1, <1>6 DEF EvidenceInv, CertificateHolds, Reaches, problem
  <2>q. QED
    BY <1>1, <2>1, ClausesStep, RangeStep DEF EvidenceInv
<1>8. WorkInv'
  <2>1. CubesAreHeld' /\ NothingLeft' /\ QueueIsSettled' /\ ActiveCountsHolders'
    BY <1>1, <1>6, CubesStep, NothingLeftStep, SettledStep, ActiveStep DEF EvidenceInv, WorkInv
  <2>2. SplitsBounded'
    BY SplitsStep DEF PublicationInv, WorkInv
  <2>3. Improving' \subseteq Covered'
    BY <1>1, <1>6, QueueStep, CoverIsQueue DEF WorkInv
  <2>4. QueueCoversImprovements'
    BY <2>3 DEF QueueCoversImprovements, Covered
  <2>q. QED
    BY <2>1, <2>2, <2>4 DEF WorkInv
<1>9. ProofsAreHonest'
  BY <1>1, <1>5, HonestStep
<1>q. QED
  BY <1>5, <1>7, <1>8, <1>9

THEOREM PortfolioSafe == Spec => []PortfolioInv
BY PortfolioInit, PortfolioStep, PTL DEF Spec

-----------------------------------------------------------------------------
(* The theorems.                                                           *)

\* For any number of workers: the work queue stays well formed and within its limits, its
\* active count is that of the workers that hold a cube, and a point that would still
\* improve on the incumbent is in a queued job, in the cube of a worker or in one that an
\* interrupted worker let go (take, try_push_split and finish of cp/portfolio.rs).
THEOREM WorkQueueIsSafe == Spec => []WorkQueueInv
<1>1. PortfolioInv => WorkQueueInv
  BY DEF PortfolioInv, PublicationInv, WorkInv, WorkQueueInv
<1>q. QED
  BY <1>1, PortfolioSafe, PTL

\* The bound workers read without the lock is the value of the stored solution whenever
\* no report is in progress (report_improvement).
THEOREM BoundIsTheSolutions == Spec => []BoundMatchesSolution
<1>1. PortfolioInv => BoundMatchesSolution
  BY DEF PortfolioInv, PublicationInv, ReportsAreOrdered, BoundMatchesSolution, BestLoaded,
     SlotValue
<1>q. QED
  BY <1>1, PortfolioSafe, PTL

\* No clause that a worker shares removes a solution for another, whatever cube, cutoff
\* or probe target it was learned under (the negated scope of resolve_conflict).
THEOREM SharedClausesAreSound == Spec => []SharedClausesKeepSolutions
<1>1. PortfolioInv => SharedClausesKeepSolutions
  BY DEF PortfolioInv, EvidenceInv
<1>q. QED
  BY <1>1, PortfolioSafe, PTL

\* "proved" is only ever raised when nothing beats the incumbent outside the cubes that
\* interrupted workers let go: by a worker of the whole problem, the last of the
\* splitting workers, a probe, or a report that reaches a certified bound.
THEOREM ProofsAreAlwaysHonest == Spec => []ProofsAreHonest
<1>1. PortfolioInv => ProofsAreHonest
  BY DEF PortfolioInv
<1>q. QED
  BY <1>1, PortfolioSafe, PTL

\* The range the probes rule out holds nothing better than the incumbent, and what is
\* claimed from it is honest (next_probe, record_probe_unsat, finish_if_probed).
THEOREM ProbesAreHonest == Spec => []ProbedProofsAreHonest
<1>1. PortfolioInv => ProbedProofsAreHonest
  BY DEF PortfolioInv, EvidenceInv, RangeHolds, ProbedProofsAreHonest, RuledOutRangeIsSterile,
     Improving
<1>q. QED
  BY <1>1, PortfolioSafe, PTL

-----------------------------------------------------------------------------
(* When a proof is one of optimality.  The run that refutes                *)
(* ProvedOutcomeIsOptimal splits the problem and lets the caller stop it;  *)
(* without either of the two, the outcome is optimal.                      *)

\* A cube is only let go by a worker that was cancelled.
LetGoUnderCancel ==
  ~cancel => Abandoned = {} /\ \A w \in Regular : Splitter(w) /\ pc[w] = "finish" => complete[w]

\* Without the caller's stop, only a proof cancels the others.
OnlyProofsCancel == ~MayStop => (cancel => proved) /\ (proved => Improving = {})

LEMMA LetGoStep ==
  ASSUME PublicationInv, CubesAreHeld, LetGoUnderCancel, UNCHANGED problem, [Next]_vars
  PROVE  LetGoUnderCancel'
<1>s. Regular \subseteq Workers
  BY DEF Workers
<1> USE <1>s, PortfolioAssumption DEF PublicationInv, TypeOK, RolesKept, CubesAreHeld,
        LetGoUnderCancel, Abandoned, Holding, Reporting, Splitter, RunsCompleteWorker, At, Goto,
        problem, flags, incumbent, work, range, locals
<1>1. CASE Interrupt
  BY <1>1 DEF Interrupt
<1>2. ASSUME NEW w \in Workers, Take(w) PROVE LetGoUnderCancel'
  BY <1>2 DEF Take
<1>3. ASSUME NEW w \in Workers, ChooseLiteral(w) PROVE LetGoUnderCancel'
  BY <1>3 DEF ChooseLiteral
<1>4. ASSUME NEW w \in Workers, StopSplitting(w) PROVE LetGoUnderCancel'
  BY <1>4 DEF StopSplitting
<1>5. ASSUME NEW w \in Workers, TryPushSplit(w) PROVE LetGoUnderCancel'
  BY <1>5 DEF TryPushSplit
<1>6. ASSUME NEW w \in Workers, StartSearch(w) PROVE LetGoUnderCancel'
  BY <1>6 DEF StartSearch
<1>7. ASSUME NEW w \in Workers, TightenBound(w) PROVE LetGoUnderCancel'
  BY <1>7 DEF TightenBound
<1>8. ASSUME NEW w \in Workers, SyncSharedClauses(w) PROVE LetGoUnderCancel'
  BY <1>8 DEF SyncSharedClauses
<1>9. ASSUME NEW w \in Workers, ExportClause(w) PROVE LetGoUnderCancel'
  BY <1>9 DEF ExportClause
<1>10. ASSUME NEW w \in Workers, FindSolution(w) PROVE LetGoUnderCancel'
  <2>1. pc[w] \in {"search", "probe"} /\ pc' = [pc EXCEPT ![w] = "report"]
        /\ UNCHANGED <<problem, cancel, cube, complete>>
    BY <1>10 DEF FindSolution, Searching
  <2>q. QED
    BY <2>1
<1>11. ASSUME NEW w \in Workers, ExhaustCube(w) PROVE LetGoUnderCancel'
  BY <1>11 DEF ExhaustCube
<1>12. ASSUME NEW w \in Workers, StopSearch(w) PROVE LetGoUnderCancel'
  BY <1>12 DEF StopSearch
<1>13. ASSUME NEW w \in Workers, Prove(w) PROVE LetGoUnderCancel'
  BY <1>13 DEF Prove
<1>14. ASSUME NEW w \in Workers, FinishCube(w) PROVE LetGoUnderCancel'
  BY <1>14 DEF FinishCube
<1>15. ASSUME NEW w \in Workers, NextCube(w) PROVE LetGoUnderCancel'
  BY <1>15 DEF NextCube
<1>16. ASSUME NEW w \in Workers, ReportImprovement(w) PROVE LetGoUnderCancel'
  BY <1>16 DEF ReportImprovement, ReportDone
<1>17. ASSUME NEW w \in Workers, PublishPresence(w) PROVE LetGoUnderCancel'
  BY <1>17 DEF PublishPresence
<1>18. ASSUME NEW w \in Workers, StoreSolution(w) PROVE LetGoUnderCancel'
  BY <1>18 DEF StoreSolution
<1>19. ASSUME NEW w \in Workers, CertifyImprovement(w) PROVE LetGoUnderCancel'
  BY <1>19 DEF CertifyImprovement, ReportDone
<1>20. ASSUME NEW w \in Workers, BeginProbe(w) PROVE LetGoUnderCancel'
  BY <1>20 DEF BeginProbe
<1>21. ASSUME NEW w \in Workers, FinishIfProbed(w) PROVE LetGoUnderCancel'
  BY <1>21 DEF FinishIfProbed
<1>22. ASSUME NEW w \in Workers, LoadBestForProbe(w) PROVE LetGoUnderCancel'
  BY <1>22 DEF LoadBestForProbe
<1>23. ASSUME NEW w \in Workers, NextProbe(w) PROVE LetGoUnderCancel'
  BY <1>23 DEF NextProbe
<1>24. ASSUME NEW w \in Workers, RecordProbeUnsat(w) PROVE LetGoUnderCancel'
  BY <1>24 DEF RecordProbeUnsat
<1>25. ASSUME NEW w \in Workers, StopProbe(w) PROVE LetGoUnderCancel'
  BY <1>25 DEF StopProbe
<1>26. ASSUME NEW w \in Workers, LnsImprove(w) PROVE LetGoUnderCancel'
  BY <1>26 DEF LnsImprove
<1>27. ASSUME NEW w \in Workers, LnsStop(w) PROVE LetGoUnderCancel'
  BY <1>27 DEF LnsStop
<1>28. CASE UNCHANGED vars
  BY <1>28 DEF vars
<1>q. QED
  BY <1>1, <1>2, <1>3, <1>4, <1>5, <1>6, <1>7, <1>8, <1>9, <1>10, <1>11, <1>12, <1>13, <1>14, <1>15,
     <1>16, <1>17, <1>18, <1>19, <1>20, <1>21, <1>22, <1>23, <1>24, <1>25, <1>26, <1>27, <1>28 DEF
     Next, WorkerStep, Returned

LEMMA OnlyProofsStep ==
  ASSUME PortfolioInv, PortfolioInv', LetGoUnderCancel, OnlyProofsCancel, BestKept, [Next]_vars
  PROVE  OnlyProofsCancel'
<1>i. Improving' \subseteq Improving
  BY ImprovingShrinks DEF PortfolioInv, PublicationInv
<1>h. /\ UNCHANGED flags => OnlyProofsCancel'
      /\ proved' /\ (~cancel => Improving = {}) => OnlyProofsCancel'
  BY <1>i DEF OnlyProofsCancel, flags
<1>1. CASE Interrupt
  BY <1>1 DEF Interrupt, OnlyProofsCancel
<1>2. ASSUME NEW w \in Workers, Take(w) PROVE OnlyProofsCancel'
  BY <1>2, <1>h DEF Take, flags
<1>3. ASSUME NEW w \in Workers, ChooseLiteral(w) PROVE OnlyProofsCancel'
  BY <1>3, <1>h DEF ChooseLiteral, flags
<1>4. ASSUME NEW w \in Workers, StopSplitting(w) PROVE OnlyProofsCancel'
  BY <1>4, <1>h DEF StopSplitting, flags
<1>5. ASSUME NEW w \in Workers, TryPushSplit(w) PROVE OnlyProofsCancel'
  BY <1>5, <1>h DEF TryPushSplit, flags
<1>6. ASSUME NEW w \in Workers, StartSearch(w) PROVE OnlyProofsCancel'
  BY <1>6, <1>h DEF StartSearch, flags
<1>7. ASSUME NEW w \in Workers, TightenBound(w) PROVE OnlyProofsCancel'
  BY <1>7, <1>h DEF TightenBound, flags
<1>8. ASSUME NEW w \in Workers, SyncSharedClauses(w) PROVE OnlyProofsCancel'
  BY <1>8, <1>h DEF SyncSharedClauses, flags
<1>9. ASSUME NEW w \in Workers, ExportClause(w) PROVE OnlyProofsCancel'
  BY <1>9, <1>h DEF ExportClause, flags
<1>10. ASSUME NEW w \in Workers, FindSolution(w) PROVE OnlyProofsCancel'
  BY <1>10, <1>h DEF FindSolution, flags
<1>11. ASSUME NEW w \in Workers, ExhaustCube(w) PROVE OnlyProofsCancel'
  BY <1>11, <1>h DEF ExhaustCube, flags
<1>12. ASSUME NEW w \in Workers, StopSearch(w) PROVE OnlyProofsCancel'
  BY <1>12, <1>h DEF StopSearch, flags
<1>13. ASSUME NEW w \in Workers, Prove(w) PROVE OnlyProofsCancel'
  <2>1. CASE Splitter(w)
    <3>1. w \in Regular /\ pc[w] = "prove"
      BY <1>13, <2>1 DEF Prove, Splitter, At
    <3>2. ~cancel => Improving = {}
      BY <2>1, <3>1, LastCubeProves DEF PortfolioInv, LetGoUnderCancel, LetGo
    <3>q. QED
      BY <1>13, <1>h, <3>2 DEF Prove
  <2>2. CASE ~Splitter(w)
    <3>1. w \in Regular /\ pc[w] = "prove"
      BY <1>13, <2>2 DEF Prove, PortfolioInv, PublicationInv, RolesKept, Reporting, Workers, At
    <3>q. QED
      BY <1>13, <1>h, <2>2, <3>1, WholeSearchProves DEF PortfolioInv, WorkInv, Prove
  <2>q. QED
    BY <2>1, <2>2
<1>14. ASSUME NEW w \in Workers, FinishCube(w) PROVE OnlyProofsCancel'
  BY <1>14, <1>h DEF FinishCube, flags
<1>15. ASSUME NEW w \in Workers, NextCube(w) PROVE OnlyProofsCancel'
  BY <1>15, <1>h DEF NextCube, flags
<1>16. ASSUME NEW w \in Workers, ReportImprovement(w) PROVE OnlyProofsCancel'
  BY <1>16, <1>h DEF ReportImprovement, flags
<1>17. ASSUME NEW w \in Workers, PublishPresence(w) PROVE OnlyProofsCancel'
  BY <1>17, <1>h DEF PublishPresence, flags
<1>18. ASSUME NEW w \in Workers, StoreSolution(w) PROVE OnlyProofsCancel'
  BY <1>18, <1>h DEF StoreSolution, flags
<1>19. ASSUME NEW w \in Workers, CertifyImprovement(w) PROVE OnlyProofsCancel'
  <2>1. found[w] \in Feasible /\ cost[found[w]] \in Reached
    BY <1>19 DEF CertifyImprovement, PortfolioInv, PublicationInv, ReportsAreOrdered,
       BoundsAreReached, Reporting, At
  <2>2. cost[found[w]] \in Reached \cap Values
    BY <2>1 DEF PortfolioInv, PublicationInv, TypeOK, Feasible
  <2>3. CASE Certifies(cost[found[w]])
    BY <1>19, <1>h, <2>2, <2>3, CertificateProves DEF PortfolioInv, EvidenceInv, CertifyImprovement
  <2>4. CASE ~Certifies(cost[found[w]])
    BY <1>19, <1>h, <2>4 DEF CertifyImprovement, flags
  <2>q. QED
    BY <2>3, <2>4
<1>20. ASSUME NEW w \in Workers, BeginProbe(w) PROVE OnlyProofsCancel'
  BY <1>20, <1>h DEF BeginProbe, flags
<1>21. ASSUME NEW w \in Workers, FinishIfProbed(w) PROVE OnlyProofsCancel'
  <2>1. bound[w] \in Reached
    BY <1>21 DEF FinishIfProbed, PortfolioInv, PublicationInv, RolesKept, BoundsAreReached,
       Holding, Reporting, Workers, At
  <2>2. CASE Probed(bound[w]) /\ AuxiliaryMayProve
    BY <1>21, <1>h, <2>1, <2>2, ProbesProve DEF PortfolioInv, EvidenceInv, FinishIfProbed
  <2>3. CASE ~(Probed(bound[w]) /\ AuxiliaryMayProve)
    BY <1>21, <1>h, <2>3 DEF FinishIfProbed, flags
  <2>q. QED
    BY <2>2, <2>3
<1>22. ASSUME NEW w \in Workers, LoadBestForProbe(w) PROVE OnlyProofsCancel'
  BY <1>22, <1>h DEF LoadBestForProbe, flags
<1>23. ASSUME NEW w \in Workers, NextProbe(w) PROVE OnlyProofsCancel'
  BY <1>23, <1>h DEF NextProbe, flags
<1>24. ASSUME NEW w \in Workers, RecordProbeUnsat(w) PROVE OnlyProofsCancel'
  BY <1>24, <1>h DEF RecordProbeUnsat, flags
<1>25. ASSUME NEW w \in Workers, StopProbe(w) PROVE OnlyProofsCancel'
  BY <1>25, <1>h DEF StopProbe, flags
<1>26. ASSUME NEW w \in Workers, LnsImprove(w) PROVE OnlyProofsCancel'
  BY <1>26, <1>h DEF LnsImprove, flags
<1>27. ASSUME NEW w \in Workers, LnsStop(w) PROVE OnlyProofsCancel'
  BY <1>27, <1>h DEF LnsStop, flags
<1>28. CASE UNCHANGED vars
  BY <1>28, <1>h DEF vars, flags
<1>q. QED
  BY <1>1, <1>2, <1>3, <1>4, <1>5, <1>6, <1>7, <1>8, <1>9, <1>10, <1>11, <1>12, <1>13, <1>14, <1>15,
     <1>16, <1>17, <1>18, <1>19, <1>20, <1>21, <1>22, <1>23, <1>24, <1>25, <1>26, <1>27, <1>28 DEF
     Next, WorkerStep, Returned

\* When the portfolio does not split, or the caller never stops it, "proved" at the end
\* means that no solution is better than the stored one: what README.md:48 asks of a
\* claim of OPTIMAL or UNSATISFIABLE.
THEOREM ProvedIsOptimalUnlessStoppedSplitting ==
  ASSUME ~Split \/ ~MayStop
  PROVE  Spec => []ProvedOutcomeIsOptimal
<1> DEFINE Inv == PortfolioInv /\ LetGoUnderCancel /\ OnlyProofsCancel
<1>1. Init => Inv
  <2> SUFFICES ASSUME Init PROVE LetGoUnderCancel /\ OnlyProofsCancel
    BY PortfolioInit
  <2>q. QED
    BY DEF Init, LetGoUnderCancel, OnlyProofsCancel, Abandoned, Workers
<1>2. Inv /\ [Next]_vars => Inv'
  <2> SUFFICES ASSUME Inv, [Next]_vars PROVE Inv'
    OBVIOUS
  <2>1. PortfolioInv' /\ BestKept /\ UNCHANGED problem
    BY PortfolioStep, BestStep DEF PortfolioInv, BestKept
  <2>q. QED
    BY <2>1, LetGoStep, OnlyProofsStep DEF PortfolioInv, WorkInv
<1>3. Inv => ProvedOutcomeIsOptimal
  <2> SUFFICES ASSUME Inv, AllDone, proved, NEW p \in Feasible, Beats(cost[p], SlotValue)
               PROVE  FALSE
    BY DEF ProvedOutcomeIsOptimal
  <2>1. Improving = {}
    <3>1. CASE ~Split
      BY <3>1 DEF PortfolioInv, ProofsAreHonest, Abandoned, Splitter, RunsCompleteWorker
    <3>2. CASE ~MayStop
      BY <3>2 DEF OnlyProofsCancel
    <3>q. QED
      BY <3>1, <3>2
  <2>2. lock = NoWorker
    BY DEF PortfolioInv, PublicationInv, TypeOK, ReportsAreOrdered, AllDone
  <2>3. SlotValue = BestLoaded
    BY <2>2 DEF PortfolioInv, PublicationInv, ReportsAreOrdered, BestLoaded, SlotValue
  <2>q. QED
    BY <2>1, <2>3 DEF Improving
<1>q. QED
  BY <1>1, <1>2, <1>3, PTL DEF Spec

-----------------------------------------------------------------------------
(* What becomes of a report.                                               *)

\* Whatever the workers report and in whatever order: the bound they read without the
\* lock is never withdrawn and never gets worse, and no point becomes improving again
\* (report_improvement writes the value, the presence and the solution one by one).
THEOREM BoundOnlyImproves == Spec => [][BestKept /\ Improving' \subseteq Improving]_vars
<1>1. PortfolioInv /\ PortfolioInv' /\ [Next]_vars => BestKept /\ Improving' \subseteq Improving
  BY BestStep, ImprovingShrinks DEF PortfolioInv, PublicationInv
<1>q. QED
  BY <1>1, PortfolioSafe, PTL DEF Spec

\* The control points at which a worker has a solution the incumbent may not know yet.
Unreported == {"report", "present", "slot"}

\* A worker whose last report is over has been matched by the bound, if only by its
\* own solution.
ReportsAreReached ==
  \A w \in Workers :
    found[w] # NoPoint =>
      found[w] \in Feasible /\ (pc[w] \notin Unreported => cost[found[w]] \in Reached)

\* A step that reports nothing leaves every report where it is.
LEMMA QuietReports ==
  ASSUME ReportsAreReached, UNCHANGED found, cost' = cost, Reached \subseteq Reached',
         \A w \in Workers : pc'[w] \notin Unreported => pc[w] \notin Unreported
  PROVE  ReportsAreReached'
BY DEF ReportsAreReached, Feasible

\* One step of the portfolio leaves no finished report behind.
LEMMA ReportsReachedStep ==
  ASSUME PublicationInv, PublicationInv', [Next]_vars, ReportsAreReached
  PROVE  ReportsAreReached'
<1>1. BestKept /\ Reached \subseteq Reached' /\ cost' = cost
  BY BestStep, ReachedStays DEF PublicationInv, BestKept, problem
<1> USE DEF PublicationInv, TypeOK, At, Goto, Unreported, problem, flags, incumbent, work, range, locals
<1>2. ASSUME NEW w \in Workers, Take(w) PROVE ReportsAreReached'
  <2>1. UNCHANGED found /\ \A v \in Workers : pc'[v] \notin Unreported => pc[v] \notin Unreported
    BY <1>2 DEF Take
  <2>q. QED
    BY <1>1, <2>1, QuietReports
<1>3. ASSUME NEW w \in Workers, ChooseLiteral(w) PROVE ReportsAreReached'
  <2>1. UNCHANGED found /\ \A v \in Workers : pc'[v] \notin Unreported => pc[v] \notin Unreported
    BY <1>3 DEF ChooseLiteral
  <2>q. QED
    BY <1>1, <2>1, QuietReports
<1>4. ASSUME NEW w \in Workers, StopSplitting(w) PROVE ReportsAreReached'
  <2>1. UNCHANGED found /\ \A v \in Workers : pc'[v] \notin Unreported => pc[v] \notin Unreported
    BY <1>4 DEF StopSplitting
  <2>q. QED
    BY <1>1, <2>1, QuietReports
<1>5. ASSUME NEW w \in Workers, TryPushSplit(w) PROVE ReportsAreReached'
  <2>1. UNCHANGED found /\ \A v \in Workers : pc'[v] \notin Unreported => pc[v] \notin Unreported
    BY <1>5 DEF TryPushSplit
  <2>q. QED
    BY <1>1, <2>1, QuietReports
<1>6. ASSUME NEW w \in Workers, StartSearch(w) PROVE ReportsAreReached'
  <2>1. UNCHANGED found /\ \A v \in Workers : pc'[v] \notin Unreported => pc[v] \notin Unreported
    BY <1>6 DEF StartSearch
  <2>q. QED
    BY <1>1, <2>1, QuietReports
<1>7. ASSUME NEW w \in Workers, TightenBound(w) PROVE ReportsAreReached'
  <2>1. UNCHANGED found /\ \A v \in Workers : pc'[v] \notin Unreported => pc[v] \notin Unreported
    BY <1>7 DEF TightenBound
  <2>q. QED
    BY <1>1, <2>1, QuietReports
<1>8. ASSUME NEW w \in Workers, SyncSharedClauses(w) PROVE ReportsAreReached'
  <2>1. UNCHANGED found /\ \A v \in Workers : pc'[v] \notin Unreported => pc[v] \notin Unreported
    BY <1>8 DEF SyncSharedClauses, Searching
  <2>q. QED
    BY <1>1, <2>1, QuietReports
<1>9. ASSUME NEW w \in Workers, ExportClause(w) PROVE ReportsAreReached'
  <2>1. UNCHANGED found /\ \A v \in Workers : pc'[v] \notin Unreported => pc[v] \notin Unreported
    BY <1>9 DEF ExportClause, Searching
  <2>q. QED
    BY <1>1, <2>1, QuietReports
<1>10. ASSUME NEW w \in Workers, FindSolution(w) PROVE ReportsAreReached'
  <2>1. found[w]' \in Feasible /\ pc'[w] = "report" /\ Feasible' = Feasible
    BY <1>1, <1>10 DEF FindSolution, Feasible, Open
  <2>2. \A v \in Workers : v # w => found'[v] = found[v] /\ pc'[v] = pc[v]
    BY <1>10 DEF FindSolution
  <2>q. QED
    BY <1>1, <2>1, <2>2 DEF ReportsAreReached
<1>11. ASSUME NEW w \in Workers, ExhaustCube(w) PROVE ReportsAreReached'
  <2>1. UNCHANGED found /\ \A v \in Workers : pc'[v] \notin Unreported => pc[v] \notin Unreported
    BY <1>11 DEF ExhaustCube
  <2>q. QED
    BY <1>1, <2>1, QuietReports
<1>12. ASSUME NEW w \in Workers, StopSearch(w) PROVE ReportsAreReached'
  <2>1. UNCHANGED found /\ \A v \in Workers : pc'[v] \notin Unreported => pc[v] \notin Unreported
    BY <1>12 DEF StopSearch
  <2>q. QED
    BY <1>1, <2>1, QuietReports
<1>13. ASSUME NEW w \in Workers, Prove(w) PROVE ReportsAreReached'
  <2>1. UNCHANGED found /\ \A v \in Workers : pc'[v] \notin Unreported => pc[v] \notin Unreported
    BY <1>13 DEF Prove
  <2>q. QED
    BY <1>1, <2>1, QuietReports
<1>14. ASSUME NEW w \in Workers, FinishCube(w) PROVE ReportsAreReached'
  <2>1. UNCHANGED found /\ \A v \in Workers : pc'[v] \notin Unreported => pc[v] \notin Unreported
    BY <1>14 DEF FinishCube
  <2>q. QED
    BY <1>1, <2>1, QuietReports
<1>15. ASSUME NEW w \in Workers, NextCube(w) PROVE ReportsAreReached'
  <2>1. UNCHANGED found /\ \A v \in Workers : pc'[v] \notin Unreported => pc[v] \notin Unreported
    BY <1>15 DEF NextCube
  <2>q. QED
    BY <1>1, <2>1, QuietReports
<1>16. ASSUME NEW w \in Workers, ReportImprovement(w) PROVE ReportsAreReached'
  <2>1. found[w] \in Feasible /\ cost[found[w]] \in Values
    BY <1>16 DEF ReportImprovement, ReportsAreOrdered, Reporting, Feasible
  <2>2. \A v \in Workers : v # w => pc'[v] = pc[v]
    BY <1>16 DEF ReportImprovement, ReportDone
  <2>3. UNCHANGED found /\ Feasible' = Feasible
    BY <1>1, <1>16 DEF ReportImprovement, Feasible
  <2>4. CASE Beats(cost[found[w]], SlotValue)
    <3>1. pc'[w] = "present"
      BY <1>16, <2>4 DEF ReportImprovement
    <3>q. QED
      BY <1>1, <2>2, <2>3, <3>1 DEF ReportsAreReached
  <2>5. CASE ~Beats(cost[found[w]], SlotValue)
    <3>1. SlotValue # NoBound /\ slot # NoPoint /\ SlotValue = cost[slot]
      BY <2>5 DEF Beats, SlotValue
    <3>2. best_present /\ best_value = SlotValue /\ best_value \in Values
      BY <1>16, <3>1 DEF ReportImprovement, ReportsAreOrdered
    <3>3. Reaches(best_value, cost[found[w]])
      BY <2>1, <2>5, <3>1, <3>2, PortfolioAssumption DEF Beats, Reaches, Values
    <3>4. cost[found[w]] \in Reached
      BY <2>1, <3>2, <3>3 DEF Reached
    <3>q. QED
      BY <1>1, <2>1, <2>2, <2>3, <3>4 DEF ReportsAreReached
  <2>q. QED
    BY <2>4, <2>5
<1>17. ASSUME NEW w \in Workers, PublishPresence(w) PROVE ReportsAreReached'
  <2>1. UNCHANGED found /\ \A v \in Workers : pc'[v] \notin Unreported => pc[v] \notin Unreported
    BY <1>17 DEF PublishPresence
  <2>q. QED
    BY <1>1, <2>1, QuietReports
<1>18. ASSUME NEW w \in Workers, StoreSolution(w) PROVE ReportsAreReached'
  <2>1. found[w] \in Feasible /\ pc'[w] = "certify" /\ UNCHANGED found /\ Feasible' = Feasible
    BY <1>1, <1>18 DEF StoreSolution, ReportsAreOrdered, Reporting, Feasible
  <2>2. \A v \in Workers : v # w => pc'[v] = pc[v]
    BY <1>18 DEF StoreSolution
  <2>3. cost'[found'[w]] \in Reached'
    BY <2>1 DEF BoundsAreReached
  <2>q. QED
    BY <1>1, <2>1, <2>2, <2>3 DEF ReportsAreReached
<1>19. ASSUME NEW w \in Workers, CertifyImprovement(w) PROVE ReportsAreReached'
  <2>1. UNCHANGED found /\ \A v \in Workers : pc'[v] \notin Unreported => pc[v] \notin Unreported
    BY <1>19 DEF CertifyImprovement, ReportDone
  <2>q. QED
    BY <1>1, <2>1, QuietReports
<1>20. ASSUME NEW w \in Workers, BeginProbe(w) PROVE ReportsAreReached'
  <2>1. UNCHANGED found /\ \A v \in Workers : pc'[v] \notin Unreported => pc[v] \notin Unreported
    BY <1>20 DEF BeginProbe
  <2>q. QED
    BY <1>1, <2>1, QuietReports
<1>21. ASSUME NEW w \in Workers, FinishIfProbed(w) PROVE ReportsAreReached'
  <2>1. UNCHANGED found /\ \A v \in Workers : pc'[v] \notin Unreported => pc[v] \notin Unreported
    BY <1>21 DEF FinishIfProbed
  <2>q. QED
    BY <1>1, <2>1, QuietReports
<1>22. ASSUME NEW w \in Workers, LoadBestForProbe(w) PROVE ReportsAreReached'
  <2>1. UNCHANGED found /\ \A v \in Workers : pc'[v] \notin Unreported => pc[v] \notin Unreported
    BY <1>22 DEF LoadBestForProbe
  <2>q. QED
    BY <1>1, <2>1, QuietReports
<1>23. ASSUME NEW w \in Workers, NextProbe(w) PROVE ReportsAreReached'
  <2>1. UNCHANGED found /\ \A v \in Workers : pc'[v] \notin Unreported => pc[v] \notin Unreported
    BY <1>23 DEF NextProbe
  <2>q. QED
    BY <1>1, <2>1, QuietReports
<1>24. ASSUME NEW w \in Workers, RecordProbeUnsat(w) PROVE ReportsAreReached'
  <2>1. UNCHANGED found /\ \A v \in Workers : pc'[v] \notin Unreported => pc[v] \notin Unreported
    BY <1>24 DEF RecordProbeUnsat
  <2>q. QED
    BY <1>1, <2>1, QuietReports
<1>25. ASSUME NEW w \in Workers, StopProbe(w) PROVE ReportsAreReached'
  <2>1. UNCHANGED found /\ \A v \in Workers : pc'[v] \notin Unreported => pc[v] \notin Unreported
    BY <1>25 DEF StopProbe
  <2>q. QED
    BY <1>1, <2>1, QuietReports
<1>26. ASSUME NEW w \in Workers, LnsImprove(w) PROVE ReportsAreReached'
  <2>1. found[w]' \in Feasible /\ pc'[w] = "report" /\ Feasible' = Feasible
    BY <1>1, <1>26 DEF LnsImprove, Feasible
  <2>2. \A v \in Workers : v # w => found'[v] = found[v] /\ pc'[v] = pc[v]
    BY <1>26 DEF LnsImprove
  <2>q. QED
    BY <1>1, <2>1, <2>2 DEF ReportsAreReached
<1>27. ASSUME NEW w \in Workers, LnsStop(w) PROVE ReportsAreReached'
  <2>1. UNCHANGED found /\ \A v \in Workers : pc'[v] \notin Unreported => pc[v] \notin Unreported
    BY <1>27 DEF LnsStop
  <2>q. QED
    BY <1>1, <2>1, QuietReports
<1>28. CASE Interrupt \/ UNCHANGED vars
  BY <1>1, <1>28, QuietReports DEF Interrupt, vars, locals
<1>q. QED
  BY <1>1, <1>2, <1>3, <1>4, <1>5, <1>6, <1>7, <1>8, <1>9, <1>10, <1>11, <1>12, <1>13, <1>14, <1>15, <1>16, <1>17, <1>18, <1>19, <1>20, <1>21, <1>22, <1>23, <1>24, <1>25, <1>26, <1>27, <1>28 DEF Next, WorkerStep, Returned

\* A solution found is not lost to a race: once its report is over and nobody holds
\* the lock (when the run is over in particular), the stored solution is at least as
\* good, in every role and with any number of workers reporting at once.
THEOREM NoSolutionIsLost ==
  Spec => [](\A w \in Workers :
               /\ found[w] # NoPoint /\ pc[w] \notin Unreported /\ lock = NoWorker
               => slot # NoPoint /\ Reaches(cost[slot], cost[found[w]]))
<1> DEFINE Kept == \A w \in Workers :
                     /\ found[w] # NoPoint /\ pc[w] \notin Unreported /\ lock = NoWorker
                     => slot # NoPoint /\ Reaches(cost[slot], cost[found[w]])
<1>1. Init => ReportsAreReached
  BY DEF Init, ReportsAreReached
<1>2. PortfolioInv /\ PortfolioInv' /\ ReportsAreReached /\ [Next]_vars => ReportsAreReached'
  BY ReportsReachedStep DEF PortfolioInv
<1>3. PortfolioInv /\ ReportsAreReached => Kept
  <2> SUFFICES ASSUME PortfolioInv, ReportsAreReached, NEW w \in Workers,
                      found[w] # NoPoint, pc[w] \notin Unreported, lock = NoWorker
               PROVE  slot # NoPoint /\ Reaches(cost[slot], cost[found[w]])
    OBVIOUS
  <2>1. cost[found[w]] \in Values /\ cost[found[w]] \in Reached
    BY DEF ReportsAreReached, Feasible, PortfolioInv, PublicationInv, TypeOK
  <2>2. best_present /\ Reaches(best_value, cost[found[w]])
    BY <2>1, PortfolioAssumption DEF Reached
  <2>q. QED
    BY <2>2 DEF PortfolioInv, PublicationInv, ReportsAreOrdered
<1>q. QED
  BY <1>1, <1>2, <1>3, PortfolioSafe, PTL DEF Spec
=============================================================================
