------------------------------- MODULE SolvePlan -------------------------------
(***************************************************************************)
(* From a request to its result (src/orchestrator/solve.rs): a plan is     *)
(* compiled, and divided into independent components where the model       *)
(* allows it; the components run one after the other, in two stages where  *)
(* a local search warms up an exact engine; what they find, bound and      *)
(* prove is merged into an answer about the whole model.                   *)
(*                                                                         *)
(* An engine is any engine that is honest about the model it is given: it  *)
(* returns a solution of that model or none, and a proof only when its     *)
(* kind may issue one and what it proves is true.  So what can go wrong    *)
(* here is the plan: a component that is not the part of the model it      *)
(* stands for, or a merge that claims more than its components.            *)
(*                                                                         *)
(* Left out: the SAT plan, the memory estimates, the quotas of iterations  *)
(* and conflicts, and the controls that only guide a search (hints,        *)
(* branching order, policies, portfolio and relaxation controls).          *)
(***************************************************************************)
EXTENDS Decomposition

CONSTANTS Inquiries,     \* a sequence of models and the requests made of them
          MaxDeadlineComponents   \* MAX_DEADLINE_DECOMPOSITION_COMPONENTS

VARIABLES inquiry, phase, divided, engines, turn, warm, gathered, lapsed, announced, verdict

planVars == <<inquiry, phase, divided, engines, turn, warm, gathered, lapsed, announced, verdict>>

ModelOf(q) == Inquiries[q].model
AskedOf(q) == Inquiries[q].request

-----------------------------------------------------------------------------
(* What may be assigned at all.                                            *)

OnePer(options) == {f \in [DOMAIN options -> UNION Range(options)] : \A i \in DOMAIN options : f[i] \in options[i]}

Orders(items) == UNION {SetToSeqs(S) : S \in SUBSET Range(items)}

Window(m, v, k) ==
  LET d == m.intervals[v] IN IF k = 0 \/ m.modes[k].window = {} THEN <<d.min, d.max>> ELSE CHOOSE w \in m.modes[k].window : TRUE

\* An interval may start anywhere before the last window ends.
Values(m, v) ==
  LET d      == m.intervals[v]
      ends   == {Window(m, u, k)[2] : u \in DOMAIN m.intervals, k \in {0} \cup DOMAIN m.modes}
      absent == [present |-> FALSE, start |-> 0, mode |-> 0]
      chosen == IF d.modes = <<>> THEN {0} ELSE Range(d.modes)
  IN  (IF d.optional THEN {absent} ELSE {}) \cup [present : {TRUE}, start : 0 .. Max(ends), mode : chosen]

Space(m) ==
  [ ints : OnePer(m.ints),
    sets : OnePer([s \in DOMAIN m.sets |-> {S \in SUBSET m.sets[s].possible : m.sets[s].required \subseteq S}]),
    lists : OnePer([l \in DOMAIN m.lists |-> Orders(m.lists[l])]),
    intervals : OnePer([v \in DOMAIN m.intervals |-> Values(m, v)]) ]

Assumed(assumptions, x) == \A i \in DOMAIN assumptions : Compares(assumptions[i].op, x.ints[assumptions[i].var], assumptions[i].value)

\* What the replay accepts of a model.
Accepted(m, assumptions) ==
  {[x |-> e[1], values |-> CHOOSE v \in e[2] : TRUE] :
     e \in {e \in {<<x, Replayed(m, x)>> : x \in {x \in Space(m) : Assumed(assumptions, x)}} : e[2] # {}}}

\* f itself, which TLC evaluates here and not where it is applied.
Eager(f) == f @@ <<>>

-----------------------------------------------------------------------------
(* The plan.                                                               *)

\* project_component_request: the assumptions on the integers of a component.
ProjectedAssumptions(p, assumptions) ==
  LET own == SelectSeq(assumptions, LAMBDA a : a.var \in Range(p.keep["ints"]))
  IN  [i \in DOMAIN own |-> [own[i] EXCEPT !.var = Local(p.keep["ints"])[@]]]

\* The part that is everything.
Whole(m) ==
  [ family |-> MainFamily(m),
    keep |-> [a \in Arenas |-> Positions(m[a])], constraints |-> Positions(m.constraints), tiers |-> Positions(m.objectives), model |-> m ]

Compiles(p) ==
  CASE p.family = "IntegerSet" -> p.model.lists = <<>> /\ p.model.intervals = <<>>
    [] p.family = "Lists"      -> p.model.intervals = <<>> /\ ListsCompile(p.model)
    [] p.family = "Intervals"  -> ScheduleCompiles(p.model)

\* validate_request_references
ReferencesHold(q) == \A i \in DOMAIN AskedOf(q).assumptions : AskedOf(q).assumptions[i].var \in DOMAIN ModelOf(q).ints

\* What a plan that is not divided refuses.
WholeAccepts(p, r) ==
  /\ Compiles(p)
  /\ p.family # "IntegerSet" => ~r.conflicts /\ ~r.publish
  /\ r.schedule_cdcl => p.family = "Intervals"

\* validate_decomposition_limits, validate_decomposition_control_applicability:
\* schedule_cdcl needs intervals, and is refused with them.
SplitAccepts(parts, r) ==
  /\ ~r.publish /\ ~r.schedule_cdcl
  /\ r.conflicts => \A i \in DOMAIN parts : parts[i].family = "IntegerSet"

Parts == Eager([q \in DOMAIN Inquiries |-> Decomposed(ModelOf(q))])

\* A part with what its engine is right to accept.
Run(q, p) ==
  [part |-> p, accepts |-> IF ReferencesHold(q) THEN Accepted(p.model, ProjectedAssumptions(p, AskedOf(q).assumptions)) ELSE {}]

SplitRuns == Eager([q \in DOMAIN Inquiries |-> {Eager([i \in DOMAIN ps |-> Run(q, ps[i])]) : ps \in Parts[q]}])
WholeRun  == Eager([q \in DOMAIN Inquiries |-> LET p == Whole(ModelOf(q)) IN IF Compiles(p) THEN <<Run(q, p)>> ELSE <<>>])

Running == IF divided THEN CHOOSE runs \in SplitRuns[inquiry] : TRUE ELSE WholeRun[inquiry]
Here    == Running[turn]

\* The engines a part may be compiled to: which of them, its size decides.
NodesFor(p) ==
  CASE p.family = "IntegerSet" -> {"exact"}
    [] p.family = "Intervals"  -> {"exact", "local"}
    [] p.family = "Lists"      -> {"exact", "local", "sequential"}

\* prepared_plan: a proof is required only of what may issue one.
ProofAllows(r, ks) == r.proof => \A i \in DOMAIN ks : ks[i] # "local"

Nodes(ps) == {ks \in [DOMAIN ps -> {"exact", "local", "sequential"}] : \A i \in DOMAIN ps : ks[i] \in NodesFor(ps[i])}

-----------------------------------------------------------------------------

EndsWith(v) == phase' = "over" /\ verdict' = v

PlanInit ==
  /\ inquiry \in DOMAIN Inquiries
  /\ phase = "compile" /\ divided = FALSE /\ engines = <<>> /\ turn = 1 /\ warm = {}
  /\ gathered = [ x |-> [a \in Arenas \ {"modes"} |-> <<>>], values |-> [t \in DOMAIN ModelOf(inquiry).objectives |-> {}],
                  bounds |-> {}, open |-> FALSE ]
  /\ lapsed = FALSE /\ announced = {} /\ verdict = "none"

Prepared(b, ks) == divided' = b /\ engines' = ks /\ phase' = "run" /\ UNCHANGED verdict
NoPlan(v)       == EndsWith(v) /\ UNCHANGED <<divided, engines>>

\* The plan that is not divided: the only one, or the one that try_compile_monolithic_plan
\* tries when there are too many components for a deadline.  It may fail.
WholeComesFirst(q) == Parts[q] = {} \/ (AskedOf(q).timed /\ \E ps \in Parts[q] : Len(ps) > MaxDeadlineComponents)
WholeTaken(q, whole, ks) == WholeComesFirst(q) /\ WholeAccepts(whole, AskedOf(q)) /\ ProofAllows(AskedOf(q), ks)

CompileWhole(whole) ==
  \E ks \in Nodes(<<whole>>) : WholeTaken(inquiry, whole, ks) /\ Prepared(FALSE, ks)

CompileSplit(whole) ==
  /\ \E ks \in Nodes(<<whole>>) : ~WholeTaken(inquiry, whole, ks)
  /\ \E ps \in Parts[inquiry] : \E ks \in Nodes(ps) :
       IF ~Covered(ModelOf(inquiry), ps) THEN NoPlan("Compile")
       ELSE IF ~SplitAccepts(ps, AskedOf(inquiry)) THEN NoPlan("InvalidRequest")
       ELSE IF \E i \in DOMAIN ps : ~Compiles(ps[i]) THEN NoPlan("Compile")
       ELSE IF ~ProofAllows(AskedOf(inquiry), ks) THEN NoPlan("InvalidRequest")
       ELSE Prepared(TRUE, ks)

RefuseWhole(whole) ==
  /\ Parts[inquiry] = {} /\ \E ks \in Nodes(<<whole>>) : ~WholeTaken(inquiry, whole, ks)
  /\ NoPlan(IF Compiles(whole) THEN "InvalidRequest" ELSE "Compile")

\* compile_model_plan
Compile ==
  /\ phase = "compile"
  /\ IF ~ReferencesHold(inquiry) THEN NoPlan("InvalidRequest")
     ELSE LET whole == Whole(ModelOf(inquiry)) IN CompileWhole(whole) \/ CompileSplit(whole) \/ RefuseWhole(whole)
  /\ UNCHANGED <<inquiry, turn, warm, gathered, lapsed, announced>>

-----------------------------------------------------------------------------
(* The engines.                                                            *)

\* The first tier that tells two vectors apart decides.
Preferred(objectives, v, w) ==
  LET apart == {t \in DOMAIN objectives : v[t] # w[t]}
  IN  apart # {} /\ (v[Min(apart)] < w[Min(apart)]) = objectives[Min(apart)].minimize

\* candidate_strictly_better
CandidateStrictlyBetter(objectives, candidate, incumbent) == Preferred(objectives, candidate.values, incumbent.values)

\* What an honest engine returns of a part: no more than it found, a bound of the
\* first tier that holds, and a claim only if it is exact.
Results(run, node) ==
  LET objectives == run.part.model.objectives
      optima   == {s \in run.accepts : \A o \in run.accepts : ~Preferred(objectives, o.values, s.values)}
      bounds == {{}} \cup (IF objectives = <<>> THEN {} ELSE {{<<1, s.values[1]>>} : s \in optima})
      returns(status, answers) == [status : {status}, answer : answers, bounds : bounds]
      claims == returns("Optimal", IF objectives = <<>> THEN {} ELSE {{s} : s \in optima})
                  \cup returns("Unsatisfiable", IF optima = {} THEN {{}} ELSE {})
  IN  returns("Unknown", {{}}) \cup returns("Satisfiable", {{s} : s \in run.accepts}) \cup (IF node = "local" THEN {} ELSE claims)

-----------------------------------------------------------------------------
(* The merge.                                                              *)

\* The assignment of a part, written back to the original indices.
WrittenBack(p, x, whole) ==
  LET original(v) == [v EXCEPT !.mode = IF @ = 0 THEN 0 ELSE p.keep["modes"][@]]
      value(a, i) == IF a = "intervals" THEN original(x[a][i]) ELSE x[a][i]
  IN  [a \in DOMAIN whole |-> [n \in Range(p.keep[a]) |-> value(a, Local(p.keep[a])[n])] @@ whole[a]]

\* merge_component_bounds
MergedBounds(p, bounds) == {<<p.tiers[b[1]], b[2]>> : b \in bounds}

Required == AskedOf(inquiry).proof

\* What a plan ends with when it has no claim to make.
WithoutProof(v) == IF Required THEN "InvalidResult" ELSE v

Gather_ClosedByTheLast(p, report) ==
  [gathered EXCEPT
     !.x      = WrittenBack(p, (CHOOSE s \in report.answer : TRUE).x, @),
     !.values = [t \in DOMAIN @ |-> IF t \in Range(p.tiers) THEN {s.values[Local(p.tiers)[t]] : s \in report.answer} ELSE @[t]],
     !.bounds = @ \cup MergedBounds(p, report.bounds),
     !.open   = p.tiers # <<>> /\ report.status # "Optimal"]

Gather(p, report) ==
  [gathered EXCEPT
     !.x      = WrittenBack(p, (CHOOSE s \in report.answer : TRUE).x, @),
     !.values = [t \in DOMAIN @ |-> IF t \in Range(p.tiers) THEN {s.values[Local(p.tiers)[t]] : s \in report.answer} ELSE @[t]],
     !.bounds = @ \cup MergedBounds(p, report.bounds),
     !.open   = @ \/ (p.tiers # <<>> /\ report.status # "Optimal")]

MergeInto(p, report) ==
  /\ IF report.status = "InvalidResult" \/ (Required /\ report.status \notin {"Optimal", "Unsatisfiable"})
     THEN EndsWith("InvalidResult") /\ UNCHANGED gathered
     ELSE IF report.answer = {}
     THEN EndsWith(report.status) /\ gathered' = [gathered EXCEPT !.bounds = @ \cup MergedBounds(p, report.bounds)]
     ELSE /\ gathered' = Gather(p, report)
          /\ IF lapsed /\ divided THEN EndsWith(WithoutProof("Unknown"))
             ELSE phase' = (IF turn = Len(engines) THEN "merge" ELSE "run") /\ UNCHANGED verdict
  /\ turn' = IF phase' = "over" THEN turn ELSE turn + 1
  /\ announced' = {}
  /\ UNCHANGED <<inquiry, divided, engines, lapsed>>

\* One round of execute_decomposed: a component that required a proof and has none
\* is an error whatever the others do.
Merge(report) == MergeInto(Here.part, report)

\* A component of one stage.
Execute ==
  /\ phase = "run" /\ engines[turn] # "sequential"
  /\ warm' = {}
  /\ \E report \in Results(Here, engines[turn]) : Merge(report)

\* The first stage of a component of two: a solution that passes the transfer
\* replay, or none, also when the stage fails or there is no time for it.
WarmUp ==
  /\ phase = "run" /\ engines[turn] = "sequential"
  /\ warm' \in {{}} \cup {{s} : s \in Here.accepts}
  /\ phase' = "last"
  /\ announced' = {}
  /\ UNCHANGED <<inquiry, divided, engines, turn, gathered, lapsed, verdict>>

\* The end of execute_sequential: a better transfer is kept, and contradicts a claim.
Retained(objectives, report) ==
  LET kept == [report EXCEPT !.status = "Satisfiable", !.answer = warm]
      better == \E c \in warm, s \in report.answer : CandidateStrictlyBetter(objectives, c, s)
  IN  IF (warm # {} /\ report.status = "Unsatisfiable") \/ (better /\ report.status = "Optimal")
      THEN [report EXCEPT !.status = "InvalidResult"]
      ELSE IF better \/ (warm # {} /\ report.answer = {}) THEN kept ELSE report

LastStage ==
  /\ phase = "last"
  /\ \E report \in Results(Here, "exact") : Merge(Retained(Here.part.model.objectives, report))
  /\ UNCHANGED warm

\* stopped_sequence_result
StopBetweenStages ==
  /\ phase = "last" /\ lapsed
  /\ Merge([status |-> IF warm = {} THEN "Unknown" ELSE "Satisfiable", answer |-> warm, bounds |-> {}])
  /\ UNCHANGED warm

\* The first k values of a component, with those of the finished ones.
Together(p, values, k) ==
  LET mine == [i \in 1 .. k |-> p.tiers[i]]
  IN  [t \in DOMAIN gathered.values |-> IF t \in Range(mine) THEN {values[Local(mine)[t]]} ELSE gathered.values[t]]

Announcements(run) == UNION {AllKnown(Together(run.part, s.values, k)) : s \in run.accepts, k \in DOMAIN run.part.tiers}

\* ComponentEventSink: the first values of a component, when with those of the
\* finished components they are all.
Announce ==
  /\ divided /\ phase \in {"run", "last"}
  /\ \E v \in Announcements(Here) : announced' = {v}
  /\ UNCHANGED <<inquiry, phase, divided, engines, turn, warm, gathered, lapsed, verdict>>

\* The end of execute_decomposed: the whole assignment is replayed.
Conclude ==
  LET m      == ModelOf(inquiry)
      values == [t \in DOMAIN gathered.values |-> CHOOSE n \in gathered.values[t] : TRUE]
      status == IF m.objectives # <<>> /\ ~gathered.open THEN "Optimal" ELSE WithoutProof("Satisfiable")
  IN  /\ phase = "merge"
      /\ EndsWith(IF divided /\ Replayed(m, gathered.x) # {values} THEN "InvalidResult" ELSE status)
      /\ announced' = {}
      /\ UNCHANGED <<inquiry, divided, engines, turn, warm, gathered, lapsed>>

\* The deadline passes, or the solve is cancelled.
Lapse ==
  /\ phase # "over" /\ ~lapsed
  /\ lapsed' = TRUE
  /\ UNCHANGED <<inquiry, phase, divided, engines, turn, warm, gathered, announced, verdict>>

\* A stop is seen while the plan is compiled, by an engine or by the last replay,
\* which leaves no result, or between two components.
InterruptPlan ==
  /\ lapsed /\ phase # "over"
  /\ phase = "last" => warm = {}
  /\ \/ EndsWith("Interrupted")
     \/ divided /\ phase = "run" /\ EndsWith(WithoutProof("Unknown"))
  /\ announced' = {}
  /\ UNCHANGED <<inquiry, divided, engines, turn, warm, gathered, lapsed>>

PlanNext ==
  Compile \/ Execute \/ WarmUp \/ LastStage \/ StopBetweenStages \/ Announce \/ Conclude \/ Lapse \/ InterruptPlan

-----------------------------------------------------------------------------
(* What a model means, said of the model as a whole and as it is written:  *)
(* no component, no physical model.                                        *)

EndOf(m, x, v) ==
  LET k == x.intervals[v].mode IN x.intervals[v].start + (IF k = 0 THEN m.intervals[v].duration ELSE m.modes[k].duration)

IntervalsMeet(m, c, x) ==
  LET present == {v \in DOMAIN x.intervals : x.intervals[v].present}
      before(v, u)  == EndOf(m, x, v) <= x.intervals[u].start
      apart(V)      == \A v, u \in V \cap present : v = u \/ before(v, u) \/ before(u, v)
      machines      == {m.modes[k].machine : k \in DOMAIN m.modes}
      on(j)         == {v \in present : x.intervals[v].mode # 0 /\ m.modes[x.intervals[v].mode].machine = j}
      running(t)    == SelectSeq(c.demands, LAMBDA d : d[1] \in present /\ x.intervals[d[1]].start <= t /\ t < EndOf(m, x, d[1]))
  IN  CASE c.kind = "IntervalPrecedence" -> {c.before, c.after} \subseteq present => before(c.before, c.after)
        [] c.kind = "IntervalNoOverlap"  -> apart(Range(c.intervals))
        [] c.kind = "MachineNoOverlap"   -> \A j \in machines : apart(on(j))
        [] c.kind = "IntervalCumulative" ->
             \A v \in present :
               Sum([i \in DOMAIN running(x.intervals[v].start) |-> running(x.intervals[v].start)[i][2]]) <= c.capacity

ListsMeet(c, x) ==
  LET all      == FlattenSeq(x.lists)
      where(u) == {l \in DOMAIN x.lists : u \in Range(x.lists[l])}
  IN  CASE c.kind = "ListPartition"    -> \A u \in Range(c.items) : Cardinality(where(u) \cap Range(c.lists)) = 1
        [] c.kind = "SameList"         -> where(c.a) = where(c.b)
        [] c.kind = "ItemPrecedence"   -> \A k \in where(c.before), l \in where(c.after) : k <= l
        [] c.kind = "CollectionGlobal" -> GlobalMet(c.global, [u \in Range(all) |-> CHOOSE l \in where(u) : TRUE])
        [] c.kind = "ListLength"       -> Len(x.lists[c.list]) \in c.min .. c.max
        [] c.kind = "ListItemSum"      ->
             Sum([i \in DOMAIN c.weights |-> IF c.weights[i][1] \in Range(x.lists[c.list]) THEN c.weights[i][2] ELSE 0]) \in c.min .. c.max
        [] c.kind = "ListReduction"    -> \E n \in Reduced(c.reduction, x.lists) : Compares(c.reduction.rel, n, c.reduction.rhs)

Meets(m, c, x, a) ==
  CASE c.kind \in ListKinds     -> ListsMeet(c, x)
    [] c.kind \in ScheduleKinds -> IntervalsMeet(m, c, x)
    [] OTHER                    -> R!ConstraintHolds(Resolved(m, c), a)

IsSolution(q, x) ==
  /\ Assumed(AskedOf(q).assumptions, x)
  /\ \A v \in DOMAIN x.intervals : x.intervals[v].present =>
       LET w == Window(ModelOf(q), v, x.intervals[v].mode) IN x.intervals[v].start \in w[1] .. w[2]
  /\ \E a \in {ValuesIn(ModelOf(q), x)} : \A i \in DOMAIN ModelOf(q).constraints : Meets(ModelOf(q), ModelOf(q).constraints[i], x, a)

LatestEnd(m, x, V) == Max({0} \cup {EndOf(m, x, v) : v \in {v \in V : x.intervals[v].present}})

AchievedOn(m, t, x) ==
  CASE t.kind = "IntExpr"   -> CHOOSE n \in R!Evaluate(t.expr, ValuesIn(m, x)) : TRUE
    [] t.kind = "ListTerms" -> TierValue(t, x.lists)
    [] t.kind = "Makespan"  -> LatestEnd(m, x, Range(t.intervals))

Achieved(m, x) == [t \in DOMAIN m.objectives |-> AchievedOn(m, m.objectives[t], x)]

\* The solutions of each inquiry, with their values.
Solutions == Eager([q \in DOMAIN Inquiries |->
  IF ReferencesHold(q) THEN {<<x, Achieved(ModelOf(q), x)>> : x \in {x \in Space(ModelOf(q)) : IsSolution(q, x)}} ELSE {}])

Attained == Eager([q \in DOMAIN Inquiries |-> {s[2] : s \in Solutions[q]}])

-----------------------------------------------------------------------------

ValuesKnown == [t \in DOMAIN gathered.values |-> CHOOSE n \in gathered.values[t] : TRUE]

\* The tiers of the component that has just ended.
LastTiers == IF phase \in {"run", "merge"} /\ turn > 1 THEN Running[turn - 1].part.tiers ELSE <<>>

HonestAbout(objectives, all, values, tiers) ==
  /\ verdict \in {"Optimal", "Satisfiable"} => <<gathered.x, values>> \in Solutions[inquiry]
  /\ verdict = "Optimal" => \A v \in all : ~Preferred(objectives, v, values)
  /\ verdict = "Unsatisfiable" => all = {}
  /\ \A b \in gathered.bounds : \A v \in all : IF objectives[b[1]].minimize THEN b[2] <= v[b[1]] ELSE v[b[1]] <= b[2]
  /\ all # {} => announced \subseteq all
  /\ tiers # <<>> => \A c \in warm : ~Preferred(Pick(objectives, tiers), c.values, Pick(values, tiers))
  /\ verdict = "InvalidResult" => Required
  /\ verdict # "Compile"

\* The answer to a request is about the model that was asked about, whatever the
\* plan: an answer solves that model, under the assumptions, with the values it
\* reports; one that is called optimal cannot be beaten on all tiers together; a
\* request is called unsatisfiable only if it is; every bound holds for all
\* solutions, on the tier it names; the values announced before the end are those of
\* a solution, if there are any; a component does not end worse than its verified
\* warm start; and honest engines make a plan fail only when a proof is required
\* and missing (execute_decomposed, execute_sequential, decompose.rs).
PlanIsHonest == HonestAbout(ModelOf(inquiry).objectives, Attained[inquiry], ValuesKnown, LastTiers)
=============================================================================
