------------------------------ MODULE Scheduling ------------------------------
(***************************************************************************)
(* The resource propagators over integer variables of                      *)
(* src/constraints/scheduling.rs: tasks that share a machine or a resource *)
(* and items that share bins; and those over intervals.  The reasons are   *)
(* those given while the engine explains; without it the same starts are   *)
(* bounded in one step.                                                    *)
(***************************************************************************)
EXTENDS Store

(* Mandatory parts and energy: src/constraints/resource_profile.rs, which  *)
(* the two cumulative propagators share.  A task is [est, lst, dur, dem];  *)
(* a profile is a sequence of parts [from, to, dem), and its segments are  *)
(* read instant by instant: usage is constant on each of them, so jumping  *)
(* from one to the next passes over instants that all overload.            *)

Part(lo, hi, k) == [from |-> lo, to |-> hi, dem |-> k]

Compulsory(task) == Part(task.lst, task.est + task.dur, task.dem)

Usage(parts, t) ==
  FoldLeft(LAMBDA n, p : IF p.from <= t /\ t < p.to THEN n + p.dem ELSE n, 0, parts)

Instants(parts) == UNION {p.from .. p.to - 1 : p \in Range(parts)}

PeakUsage(parts) == Max({0} \cup {Usage(parts, t) : t \in Instants(parts)})

\* The instants at which a task started at u would overload the resource, its
\* own mandatory part not being counted twice.
Overloads(parts, u, dur, dem, own, cap) ==
  {t \in u .. u + dur - 1 : Usage(parts, t) - (IF own.from <= t /\ t < own.to THEN own.dem ELSE 0) + dem > cap}

\* The starts that fit.  earliest_ and latest_feasible_start are its ends.
Feasible(parts, lo, hi, dur, dem, own, cap) == {u \in lo .. hi : Overloads(parts, u, dur, dem, own, cap) = {}}

HeightLimit(parts, own, cap) ==
  Min({cap} \cup {cap - (Usage(parts, t) - own.dem) : t \in own.from .. own.to - 1})

-----------------------------------------------------------------------------
(* EnergeticWorkspace::analyse, as a function of the tasks.                *)

Lct(task)    == task.lst + task.dur
Energy(tasks, S) == FoldLeft(LAMBDA n, i : IF i \in S THEN n + tasks[i].dur * tasks[i].dem ELSE n, 0, Indices(tasks))

\* Some window cannot hold the tasks that must run inside it.
Overloaded(tasks, cap) ==
  \E u, k \in DOMAIN tasks :
    /\ Lct(tasks[k]) <= Lct(tasks[u])
    /\ Energy(tasks, {j \in DOMAIN tasks : Lct(tasks[j]) <= Lct(tasks[u]) /\ tasks[j].est >= tasks[k].est})
         > cap * (Lct(tasks[u]) - tasks[k].est)

\* Edge finding: task i cannot run inside the window of a set of others, taken in
\* the order of their completions, so it ends after them; what they leave beside
\* it delays its start.
EdgeBound(tasks, i, cap) ==
  LET task  == tasks[i]
      Omega(k) == {j \in DOMAIN tasks \ {i} : Lct(tasks[j]) < Lct(tasks[k]) \/ (Lct(tasks[j]) = Lct(tasks[k]) /\ j <= k)}
      est(k)   == Min({tasks[j].est : j \in Omega(k)})
      after(k) == Energy(tasks, Omega(k) \cup {i}) > cap * (Lct(tasks[k]) - Min({est(k), task.est}))
      rest(k)  == Energy(tasks, Omega(k)) - (cap - task.dem) * (Lct(tasks[k]) - est(k))
  IN  IF task.dur <= 0 \/ task.dem <= 0 THEN task.est
      ELSE Max({task.est} \cup {est(k) + ((rest(k) + task.dem - 1) \div task.dem) :
                                  k \in {j \in DOMAIN tasks \ {i} : after(j) /\ rest(j) > 0}})

EnergyConflict(tasks, cap) ==
  Overloaded(tasks, cap) \/ \E i \in DOMAIN tasks : EdgeBound(tasks, i, cap) > tasks[i].lst

\* Raise the starts to their edge-finding bounds, or fail; both without a reason.
RaiseStarts(s, starts, tasks, cap) ==
  IF EnergyConflict(tasks, cap) THEN Failed(s)
  ELSE ForEach(LAMBDA t, i : RemoveBelow(t, starts[i], EdgeBound(tasks, i, cap), Scope), s, Indices(starts))

-----------------------------------------------------------------------------

SchedulingKinds == {"tasks_apart", "cumulative", "cumulative_var", "bin_packing", "bin_loads"}

SumAt(xs, S) == FoldLeft(LAMBDA n, i : IF i \in S THEN n + xs[i] ELSE n, 0, Indices(xs))
Total(xs)    == SumAt(xs, DOMAIN xs)

\* What tasks started at at[i] use at instant t.
Running(at, dur, dem, t) == SumAt(dem, {i \in DOMAIN at : at[i] <= t /\ t < at[i] + dur[i]})

Fits(at, dur, dem, cap) ==
  \A i \in DOMAIN at : \A t \in at[i] .. at[i] + dur[i] - 1 : Running(at, dur, dem, t) <= cap

LoadOf(c, a, b) == SumAt(c.sizes, {i \in DOMAIN c.items : a[c.items[i]] = b - 1})

SchedulingMeans(c, a) ==
  LET at(xs) == [i \in DOMAIN xs |-> a[xs[i]]]
  IN  CASE c.kind = "tasks_apart" ->
             \A i, j \in DOMAIN c.starts : i < j => \/ a[c.starts[i]] + c.dur[i] <= a[c.starts[j]]
                                                    \/ a[c.starts[j]] + c.dur[j] <= a[c.starts[i]]
        [] c.kind = "cumulative"     -> Fits(at(c.starts), c.dur, c.height, c.capacity)
        [] c.kind = "cumulative_var" -> Fits(at(c.starts), at(c.dur), at(c.height), a[c.capacity])
        [] c.kind = "bin_packing"    ->
             /\ \A v \in Range(c.items) : a[v] + 1 \in DOMAIN c.capacities
             /\ \A b \in DOMAIN c.capacities : LoadOf(c, a, b) <= c.capacities[b]
        [] c.kind = "bin_loads"      ->
             /\ \A v \in Range(c.items) : a[v] + 1 \in DOMAIN c.loads
             /\ \A b \in DOMAIN c.loads : a[c.loads[b]] = LoadOf(c, a, b)

SchedulingWakes(c) ==
  CASE c.kind \in {"tasks_apart", "cumulative"} -> Range(c.starts) \X {"BoundChange"}
    [] c.kind = "cumulative_var" -> (Range(c.starts) \cup Range(c.dur) \cup Range(c.height) \cup {c.capacity}) \X {"BoundChange"}
    [] c.kind = "bin_packing"    -> Range(c.items) \X {"DomainChange"}
    [] c.kind = "bin_loads"      -> (Range(c.items) \X {"DomainChange"}) \cup (Range(c.loads) \X {"BoundChange"})

LeastOf(s, v)    == Min(s.dom[v])
GreatestOf(s, v) == Max(s.dom[v])

-----------------------------------------------------------------------------
(* Two tasks on one machine.                                               *)

\* Only x before y is left: both bounds rest on what rules the other order out.
InOrderOf(s, x, dx, y, other) ==
  LET t == RemoveBelow(s, y, LeastOf(s, x) + dx, Because({Ge(x, LeastOf(s, x))} \cup other))
  IN  RemoveAbove(t, x, GreatestOf(s, y) - dx, Because({Le(y, GreatestOf(s, y))} \cup other))

KeepApart(s, x, dx, y, dy) ==
  LET noYX == {Ge(y, LeastOf(s, y)), Le(x, GreatestOf(s, x))}
      noXY == {Ge(x, LeastOf(s, x)), Le(y, GreatestOf(s, y))}
      xy   == LeastOf(s, x) + dx <= GreatestOf(s, y)
      yx   == LeastOf(s, y) + dy <= GreatestOf(s, x)
  IN  CASE ~xy /\ ~yx -> FailBecause(s, noXY \cup noYX)
        [] xy /\ ~yx  -> InOrderOf(s, x, dx, y, noYX)
        [] ~xy /\ yx  -> InOrderOf(s, y, dy, x, noXY)
        [] OTHER      -> s

TasksApart(c, s) ==
  ForEach(LAMBDA t, i : ForEach(LAMBDA r, j : IF i < j THEN KeepApart(r, c.starts[i], c.dur[i], c.starts[j], c.dur[j]) ELSE r,
                                t, Indices(c.starts)),
          s, Indices(c.starts))

-----------------------------------------------------------------------------
(* Cumulative with fixed sizes.                                            *)

TasksOf(c, s) ==
  [i \in DOMAIN c.starts |-> [est |-> LeastOf(s, c.starts[i]), lst |-> GreatestOf(s, c.starts[i]),
                              dur |-> c.dur[i], dem |-> c.height[i]]]

ProfileOf(c, s) == [i \in DOMAIN c.starts |-> Compulsory(TasksOf(c, s)[i])]

\* overload_premises: tasks in the order of their numbers, until they exceed the
\* capacity together with what is already used.
OverloadPremises(c, s, t, except, extra) ==
  LET tasks == TasksOf(c, s)
      cite(r, k) ==
        IF k \in except \/ c.height[k] = 0 \/ (r.sum > c.capacity /\ r.why # {}) THEN r
        ELSE IF tasks[k].lst <= t /\ t < tasks[k].est + tasks[k].dur
        THEN [sum |-> r.sum + c.height[k], why |-> r.why \cup {Ge(c.starts[k], tasks[k].est), Le(c.starts[k], tasks[k].lst)}]
        ELSE r
  IN  FoldLeft(cite, [sum |-> extra, why |-> {}], Indices(c.starts)).why

\* The values of a start that overload the profile go one by one; a task that is
\* too high by itself may find nobody to blame.
PruneStart(c, parts, s, i) ==
  LET own == Compulsory(TasksOf(c, s)[i])
      prune(t, u) ==
        LET at  == Overloads(parts, u, c.dur[i], c.height[i], own, c.capacity)
            why == OverloadPremises(c, t, Min(at), {i}, c.height[i])
        IN  IF at = {} THEN t ELSE RemoveVal(t, c.starts[i], u, IF why = {} THEN Scope ELSE Because(why))
  IN  IF c.height[i] = 0 THEN s ELSE ForEach(prune, s, InOrder(s.dom[c.starts[i]]))

Cumulative(c, s) ==
  LET over(parts) == {t \in Instants(parts) : Usage(parts, t) > c.capacity}
      timetable(parts, t) ==
        IF over(parts) # {} THEN FailBecause(t, OverloadPremises(c, t, Min(over(parts)), {}, 0))
        ELSE ForEach(LAMBDA r, i : PruneStart(c, parts, r, i), t, Indices(c.starts))
  IN  Then(RaiseStarts(s, c.starts, TasksOf(c, s), c.capacity), LAMBDA t : timetable(ProfileOf(c, t), t))

-----------------------------------------------------------------------------
(* Cumulative with variable sizes: the least heights over the mandatory    *)
(* parts of the least durations.                                           *)

CumulativeVar(c, s) ==
  LET part(t, i) == Part(GreatestOf(t, c.starts[i]), LeastOf(t, c.starts[i]) + LeastOf(t, c.dur[i]), LeastOf(t, c.height[i]))
      parts == [i \in DOMAIN c.starts |-> part(s, i)]
      cap   == GreatestOf(s, c.capacity)
      bound(t, i) ==
        LET own == part(t, i)
            low == IF own.from < own.to THEN RemoveAbove(t, c.height[i], HeightLimit(parts, own, cap), Scope) ELSE t
            dur == LeastOf(t, c.dur[i])
            fit == Feasible(parts, LeastOf(t, c.starts[i]), GreatestOf(t, c.starts[i]), dur, own.dem, own, cap)
        IN  IF own.dem <= 0 \/ dur <= 0 \/ ~low.ok THEN low
            ELSE IF fit = {} THEN Failed(low)
            ELSE RemoveAbove(RemoveBelow(low, c.starts[i], Min(fit), Scope), c.starts[i], Max(fit), Scope)
  IN  IF PeakUsage(parts) > cap THEN Failed(s)
      ELSE ForEach(bound, RemoveBelow(s, c.capacity, PeakUsage(parts), Scope), Indices(c.starts))

-----------------------------------------------------------------------------
(* Bins, counted from 0: bin b is number b - 1.                            *)

InBins(s, items, n) ==
  ForEach(LAMBDA t, v : RemoveAbove(RemoveBelow(t, v, 0, Scope), v, n - 1, Scope), s, items)

Bins(s, v) == {u + 1 : u \in s.dom[v]}

\* The sizes of the items that are in bin b, and of those that may be.
Committed(c, s, b) == SumAt(c.sizes, {i \in DOMAIN c.items : Bins(s, c.items[i]) = {b}})
Potential(c, s, b) == SumAt(c.sizes, {i \in DOMAIN c.items : b \in Bins(s, c.items[i])})

\* Shaw's subsets: the items that can only go into the bins of B fill them.
\* The domains are those from before this round of subsets.
FillSubset(c, before, s, B) ==
  LET inside == {i \in DOMAIN c.items : before[i] \subseteq B}
      left   == SumAt(c.capacities, B) - SumAt(c.sizes, inside)
      expel(t, i) == IF c.sizes[i] = 0 \/ i \in inside THEN t
                     ELSE ForEach(LAMBDA r, b : RemoveVal(r, c.items[i], b, Scope), t,
                                  InOrder({b - 1 : b \in B} \cap t.dom[c.items[i]]))
  IN  IF left < 0 THEN Failed(s) ELSE IF left > 0 THEN s ELSE ForEach(expel, s, Indices(c.items))

\* Subsets in the order of their sorted members; they all act on the same
\* snapshot, and only remove values.
Subsets(before) == SetToSeq(Range(before))

BinPacking(c, s) ==
  LET leave(load, t, i) ==
        IF IsFixed(t.dom, c.items[i]) THEN t
        ELSE ForEach(LAMBDA r, u : IF load[u + 1] + c.sizes[i] > c.capacities[u + 1] THEN RemoveVal(r, c.items[i], u, Scope) ELSE r,
                     t, InOrder(t.dom[c.items[i]]))
      fit(load, t) == IF \E b \in DOMAIN load : load[b] > c.capacities[b] THEN Failed(t)
                      ELSE ForEach(LAMBDA r, i : leave(load, r, i), t, Indices(c.items))
      fill(before, t) == IF Total(c.sizes) > Total(c.capacities) THEN Failed(t)
                         ELSE ForEach(LAMBDA r, B : FillSubset(c, before, r, B), t, Subsets(before))
  IN  Then(Then(InBins(s, c.items, Len(c.capacities)),
                LAMBDA t : fit([b \in DOMAIN c.capacities |-> Committed(c, t, b)], t)),
           LAMBDA t : fill([i \in DOMAIN c.items |-> Bins(t, c.items[i])], t))

\* An unfixed item leaves the bins it would overfill and goes into the bin that
\* needs it; two bins that need it cannot both have it.
PlaceItem(c, had, may, s, i) ==
  LET v    == c.items[i]
      over == {u \in s.dom[v] : had[u + 1] + c.sizes[i] > GreatestOf(s, c.loads[u + 1])}
      need == {u \in s.dom[v] \ over : may[u + 1] - c.sizes[i] < LeastOf(s, c.loads[u + 1])}
      t    == Confine(s, v, s.dom[v] \ over, Scope)
  IN  IF IsFixed(s.dom, v) \/ c.sizes[i] = 0 THEN s
      ELSE IF Cardinality(need) > 1 THEN Failed(t)
      ELSE IF need # {} THEN Fix(t, v, Min(need), Scope) ELSE t

\* A load lies between what the bin has and what it may have, and is what the
\* others leave: all that there is, less their most and their least.
BoundLoad(s, v, had, may) ==
  IF had > GreatestOf(s, v) \/ may < LeastOf(s, v) THEN Failed(s)
  ELSE RemoveAbove(RemoveBelow(s, v, had, Scope), v, may, Scope)

ShareLoads(c, s, low, high) ==
  LET all == Total(c.sizes)
      share(t, v) == RemoveAbove(RemoveBelow(t, v, all - (high - GreatestOf(t, v)), Scope), v, all - (low - LeastOf(t, v)), Scope)
  IN  IF all < low \/ all > high THEN Failed(s) ELSE ForEach(share, s, c.loads)

BinLoads(c, s) ==
  LET least(t)    == Total([b \in DOMAIN c.loads |-> LeastOf(t, c.loads[b])])
      greatest(t) == Total([b \in DOMAIN c.loads |-> GreatestOf(t, c.loads[b])])
      balance(had, may, t) ==
        Then(Then(ForEach(LAMBDA r, b : BoundLoad(r, c.loads[b], had[b], may[b]), t, Indices(c.loads)),
                  LAMBDA r : ShareLoads(c, r, least(r), greatest(r))),
             LAMBDA r : ForEach(LAMBDA q, i : PlaceItem(c, had, may, q, i), r, Indices(c.items)))
  IN  Then(InBins(s, c.items, Len(c.loads)),
           LAMBDA t : balance([b \in DOMAIN c.loads |-> Committed(c, t, b)], [b \in DOMAIN c.loads |-> Potential(c, t, b)], t))

SchedulingFilter(c, s) ==
  CASE c.kind = "tasks_apart"    -> UntilStable(LAMBDA t : TasksApart(c, t), s)
    [] c.kind = "cumulative"     -> UntilStable(LAMBDA t : Cumulative(c, t), s)
    [] c.kind = "cumulative_var" -> UntilStable(LAMBDA t : CumulativeVar(c, t), s)
    [] c.kind = "bin_packing"    -> UntilStable(LAMBDA t : BinPacking(c, t), s)
    [] c.kind = "bin_loads"      -> UntilStable(LAMBDA t : BinLoads(c, t), s)

-----------------------------------------------------------------------------
(* The interval propagators of src/constraints/interval.rs.  An interval   *)
(* is [start |-> variable, dur |-> length, presence |-> the set of its     *)
(* presence variable]: {} when it is mandatory.  A stop inside a           *)
(* propagator ends its round as the stop of the propagation loop does, and *)
(* is left out.                                                            *)

IntervalKinds == {"interval_precedence", "no_overlap", "interval_cumulative", "makespan_bound", "exactly_one_mode", "alternative_channel"}

\* Indices of a sequence of intervals, in a full assignment: those present.
Chosen(a, xs) == {i \in DOMAIN xs : \A p \in xs[i].presence : a[p] = 1}
EndsBefore(a, x, y) == a[x.start] + x.dur <= a[y.start]

PairOrders(c) == DOMAIN c.orders   \* the pairs that have an order variable

\* In a solution, the pairs that are decided to be in an order are in that order.
Disjoint(c, a) ==
  LET xs == c.intervals
  IN  \A i, j \in Chosen(a, xs) :
        i < j /\ xs[i].dur > 0 /\ xs[j].dur > 0 =>
          IF <<i, j>> \in PairOrders(c)
          THEN IF a[c.orders[<<i, j>>]] = 1 THEN EndsBefore(a, xs[i], xs[j]) ELSE EndsBefore(a, xs[j], xs[i])
          ELSE EndsBefore(a, xs[i], xs[j]) \/ EndsBefore(a, xs[j], xs[i])

WithinCapacity(c, a) ==
  LET parts == [i \in DOMAIN c.intervals |->
                  Part(a[c.intervals[i].start], a[c.intervals[i].start] + c.intervals[i].dur,
                       IF i \in Chosen(a, c.intervals) THEN c.demands[i] ELSE 0)]
  IN  PeakUsage(parts) <= c.capacity

\* The channel is posted beside exactly_one_mode, and relies on it.
IntervalMeans(c, a) ==
  CASE c.kind = "interval_precedence" -> Chosen(a, c.intervals) = {1, 2} => EndsBefore(a, c.intervals[1], c.intervals[2])
    [] c.kind = "no_overlap"          -> Disjoint(c, a)
    [] c.kind = "interval_cumulative" -> WithinCapacity(c, a)
    [] c.kind = "makespan_bound"      -> \A i \in Chosen(a, c.intervals) : a[c.intervals[i].start] + c.intervals[i].dur <= c.bound
    [] c.kind = "exactly_one_mode"    -> Cardinality(Chosen(a, c.intervals)) = 1
    [] c.kind = "alternative_channel" -> /\ Chosen(a, c.intervals) # {}
                                         /\ \A i \in Chosen(a, c.intervals) : a[c.intervals[i].start] = a[c.shared]

StartsOf(c)    == {x.start : x \in Range(c.intervals)}
PresencesOf(c) == UNION {x.presence : x \in Range(c.intervals)}

IntervalWakes(c) ==
  CASE c.kind \in {"interval_precedence", "interval_cumulative"} -> (StartsOf(c) \X {"BoundChange"}) \cup (PresencesOf(c) \X {"Fix"})
    [] c.kind = "no_overlap"          -> (StartsOf(c) \X {"BoundChange", "DomainChange"})
                                           \cup ((PresencesOf(c) \cup Range(c.orders)) \X {"Fix"})
    [] c.kind = "makespan_bound"      -> StartsOf(c) \X {"BoundChange"}
    [] c.kind = "exactly_one_mode"    -> PresencesOf(c) \X {"Fix"}
    [] c.kind = "alternative_channel" -> ((StartsOf(c) \cup {c.shared}) \X {"BoundChange"}) \cup (PresencesOf(c) \X {"Fix"})

IntervalPriority(c) == IF c.kind \in {"no_overlap", "interval_cumulative"} THEN "Expensive" ELSE "Cheap"

-----------------------------------------------------------------------------
(* The store's view of an interval.                                        *)

Present(s, x)  == \A p \in x.presence : s.dom[p] = {1}
Absent(s, x)   == \E p \in x.presence : s.dom[p] = {0}
Optional(s, x) == ~Present(s, x) /\ ~Absent(s, x)

StartMin(s, x) == Min(s.dom[x.start])
StartMax(s, x) == Max(s.dom[x.start])
EndMin(s, x)   == StartMin(s, x) + x.dur

PresenceIs(x, u) == {Equals(p, u) : p \in x.presence}
IsHere(x)        == PresenceIs(x, 1)
FromMin(s, x)    == Ge(x.start, StartMin(s, x))
ToMax(s, x)      == Le(x.start, StartMax(s, x))
Window(s, x)     == {FromMin(s, x), ToMax(s, x)}

SetMin(s, x, k, why) == RemoveBelow(s, x.start, k, Because(why))
SetMax(s, x, k, why) == RemoveAbove(s, x.start, k, Because(why))

\* fix_interval_presence_because: the opposite presence joins the conflict.
SetPresence(s, x, u, why) ==
  IF x.presence = {} THEN IF u = 1 THEN s ELSE FailBecause(s, why)
  ELSE LET p == CHOOSE q \in x.presence : TRUE
       IN  IF u \in s.dom[p] THEN Fix(s, p, u, Because(why)) ELSE FailBecause(s, why \cup {Equals(p, 1 - u)})

\* x ends before y starts, for the reasons given and the bounds it rests on.
Before(s, x, y, why) ==
  LET here == why \cup IsHere(x) \cup IsHere(y)
  IN  SetMax(SetMin(s, y, StartMin(s, x) + x.dur, {FromMin(s, x)} \cup here),
             x, StartMax(s, y) - x.dur, {ToMax(s, y)} \cup here)

-----------------------------------------------------------------------------

IntervalPrecedence(c, s) ==
  LET p == c.intervals[1]
      q == c.intervals[2]
      late == {FromMin(s, p), ToMax(s, q)}
  IN  CASE Absent(s, p) \/ Absent(s, q) -> s
        [] EndMin(s, p) > StartMax(s, q) ->
             (CASE Present(s, p) /\ Present(s, q) -> FailBecause(s, late \cup IsHere(p) \cup IsHere(q))
                [] Present(s, p) /\ Optional(s, q) -> SetPresence(s, q, 0, late \cup IsHere(p))
                [] Optional(s, p) /\ Present(s, q) -> SetPresence(s, p, 0, late \cup IsHere(q))
                [] OTHER -> s)
        [] Present(s, p) /\ Present(s, q) -> Before(s, p, q, {})
        [] OTHER -> s

-----------------------------------------------------------------------------
(* NoOverlap.  orders maps the pairs <<i, j>>, i < j, to a variable that is *)
(* 1 when i comes first; it is empty when every interval is mandatory and   *)
(* branched on.                                                             *)

\* The starts of x that fit neither before nor after y.
RemoveUnsupported(s, x, y) ==
  LET lost == {u \in s.dom[x.start] : StartMax(s, y) - x.dur < u /\ u < StartMin(s, y) + y.dur}
  IN  Confine(s, x.start, s.dom[x.start] \ lost, Because(Window(s, y) \cup IsHere(x) \cup IsHere(y)))

DecidedBefore(c, s, i, j) ==
  IF i < j THEN <<i, j>> \in PairOrders(c) /\ s.dom[c.orders[<<i, j>>]] = {1}
           ELSE <<j, i>> \in PairOrders(c) /\ s.dom[c.orders[<<j, i>>]] = {0}

OrderIs(c, i, j) == IF i < j THEN Equals(c.orders[<<i, j>>], 1) ELSE Equals(c.orders[<<j, i>>], 0)

\* Interval j cannot come first: decide the order, where it has a variable.
Deduce(c, s, i, j) ==
  LET p == c.intervals[i]
      q == c.intervals[j]
      why  == {FromMin(s, q), ToMax(s, p)} \cup IsHere(p) \cup IsHere(q)
      fact == OrderIs(c, i, j)
  IN  IF <<i, j>> \in PairOrders(c) \/ <<j, i>> \in PairOrders(c)
      THEN Before(Fix(s, fact[1], fact[3], Because(why)), p, q, {fact}) ELSE Before(s, p, q, why)

OrderPair(c, s, i, j) ==
  LET p == c.intervals[i]
      q == c.intervals[j]
      both == Present(s, p) /\ Present(s, q)
      xy == EndMin(s, p) <= StartMax(s, q)
      yx == EndMin(s, q) <= StartMax(s, p)
      neither == Window(s, p) \cup Window(s, q)
  IN  CASE DecidedBefore(c, s, i, j) -> IF both THEN Before(s, p, q, {OrderIs(c, i, j)}) ELSE s
        [] DecidedBefore(c, s, j, i) -> IF both THEN Before(s, q, p, {OrderIs(c, j, i)}) ELSE s
        [] OTHER ->
             (CASE ~xy /\ ~yx /\ both -> FailBecause(s, neither \cup IsHere(p) \cup IsHere(q))
                [] ~xy /\ ~yx /\ Present(s, p) /\ ~both -> SetPresence(s, q, 0, neither \cup IsHere(p))
                [] ~xy /\ ~yx /\ Present(s, q) /\ ~both -> SetPresence(s, p, 0, neither \cup IsHere(q))
                [] xy /\ ~yx /\ both -> Deduce(c, s, i, j)
                [] ~xy /\ yx /\ both -> Deduce(c, s, j, i)
                [] OTHER -> s)

\* Two intervals that may both be there.
SeparatePair(c, s, i, j) ==
  LET p == c.intervals[i]
      q == c.intervals[j]
      filtered == IF Present(s, p) /\ Present(s, q)
                  THEN Then(RemoveUnsupported(s, p, q), LAMBDA t : RemoveUnsupported(t, q, p)) ELSE s
  IN  IF Absent(s, p) \/ Absent(s, q) \/ p.dur = 0 \/ q.dur = 0 THEN s
      ELSE Then(filtered, LAMBDA t : OrderPair(c, t, i, j))

\* One interval after all those that must come before it: as early as they can
\* all be done, one after another.
AfterPredecessors(c, s, here, j) ==
  LET p    == c.intervals[j]
      xs   == c.intervals
      prec == {i \in here \ {j} : DecidedBefore(c, s, i, j) \/ EndMin(s, p) > StartMax(s, xs[i])}
      done == Max({StartMin(s, xs[k]) +
                     FoldLeft(LAMBDA n, i : IF i \in prec /\ StartMin(s, xs[i]) >= StartMin(s, xs[k]) THEN n + xs[i].dur ELSE n,
                              0, Indices(xs)) : k \in prec})
      known == {i \in prec : DecidedBefore(c, s, i, j)}
      why   == UNION {IsHere(xs[i]) \cup {FromMin(s, xs[i])} : i \in prec} \cup {OrderIs(c, i, j) : i \in known}
                 \cup {ToMax(s, xs[i]) : i \in prec \ known} \cup (IF prec = known THEN {} ELSE {FromMin(s, p)}) \cup IsHere(p)
  IN  IF prec = {} THEN s ELSE SetMin(s, p, done, why)

\* A round: its pairs, then the predecessors of each interval.
SeparateRound(c, s) ==
  LET n     == Len(c.intervals)
      pairs == SelectSeq([k \in 1 .. n * n |-> <<1 + ((k - 1) \div n), 1 + ((k - 1) % n)>>], LAMBDA p : p[1] < p[2])
      queue(here, t) == ForEach(LAMBDA r, j : IF j \in here THEN AfterPredecessors(c, r, here, j) ELSE r, t, Indices(c.intervals))
  IN  Then(ForEach(LAMBDA r, p : SeparatePair(c, r, p[1], p[2]), s, pairs),
           LAMBDA t : queue({i \in 1 .. n : Present(t, c.intervals[i]) /\ c.intervals[i].dur > 0}, t))

\* What a round changed: the values it took from between bounds do not count.
BoundsMoved(before, after) ==
  \E n \in Len(before.events) + 1 .. Len(after.events) : after.events[n].fact[2] # "ne"

-----------------------------------------------------------------------------
(* Cumulative: only present intervals use the resource.                    *)

\* The tasks of the analysis, with the indices of their intervals.
Working(c, s) ==
  SelectSeq(Indices(c.intervals), LAMBDA i : Present(s, c.intervals[i]) /\ c.intervals[i].dur > 0 /\ c.demands[i] > 0)

TaskOf(c, s, i) ==
  [est |-> StartMin(s, c.intervals[i]), lst |-> StartMax(s, c.intervals[i]), dur |-> c.intervals[i].dur, dem |-> c.demands[i]]

\* cumulative_profile_premises: the present intervals that must run in [lo, hi).
RunningIn(s, xs, lo, hi) ==
  UNION {Window(s, x) \cup IsHere(x) : x \in {y \in xs : Present(s, y) /\ StartMax(s, y) < hi /\ lo < EndMin(s, y)}}

PushStart_MovesOptional(c, parts, s, i) ==
  LET p   == c.intervals[i]
      own == IF Present(s, p) THEN Compulsory(TaskOf(c, s, i)) ELSE Part(0, 0, 0)
      fit == Feasible(parts, StartMin(s, p), StartMax(s, p), p.dur, c.demands[i], own, c.capacity)
      why(hi) == RunningIn(s, Range(c.intervals) \ {p}, StartMin(s, p), hi) \cup IsHere(p) \cup {FromMin(s, p)}
  IN  CASE Absent(s, p) \/ c.demands[i] = 0 \/ p.dur = 0 -> s
        [] fit # {} -> SetMin(s, p, Min(fit), why(Min(fit) + p.dur))
        [] fit = {} /\ Present(s, p)  -> FailBecause(s, why(StartMax(s, p) + p.dur) \cup {ToMax(s, p)})
        [] fit = {} /\ Optional(s, p) -> ForEach(LAMBDA t, v : Fix(t, v, 0, Scope), s, SetToSeq(p.presence))

\* Interval i moves past the instants it would overload, is left out where it
\* fits nowhere, or fails.  An interval that may be absent keeps its window.
PushStart(c, parts, s, i) ==
  LET p   == c.intervals[i]
      own == IF Present(s, p) THEN Compulsory(TaskOf(c, s, i)) ELSE Part(0, 0, 0)
      fit == Feasible(parts, StartMin(s, p), StartMax(s, p), p.dur, c.demands[i], own, c.capacity)
      why(hi) == RunningIn(s, Range(c.intervals) \ {p}, StartMin(s, p), hi) \cup IsHere(p) \cup {FromMin(s, p)}
  IN  CASE Absent(s, p) \/ c.demands[i] = 0 \/ p.dur = 0 -> s
        [] fit # {} -> IF Present(s, p) THEN SetMin(s, p, Min(fit), why(Min(fit) + p.dur)) ELSE s
        [] fit = {} /\ Present(s, p)  -> FailBecause(s, why(StartMax(s, p) + p.dur) \cup {ToMax(s, p)})
        [] fit = {} /\ Optional(s, p) -> ForEach(LAMBDA t, v : Fix(t, v, 0, Scope), s, SetToSeq(p.presence))

IntervalCumulative(c, s) ==
  LET busy   == Working(c, s)
      tasks(t) == [k \in DOMAIN busy |-> TaskOf(c, t, busy[k])]
      over(parts)  == {u \in Instants(parts) : Usage(parts, u) > c.capacity}
      running(t, u) == RunningIn(t, {x \in Range(c.intervals) : StartMax(t, x) <= u /\ u < EndMin(t, x)}, u, u + 1)
      timetable(parts, t) ==
        IF over(parts) # {} THEN FailBecause(t, running(t, Min(over(parts))))
        ELSE ForEach(LAMBDA r, i : PushStart(c, parts, r, i), t, Indices(c.intervals))
  IN  Then(RaiseStarts(s, [k \in DOMAIN busy |-> c.intervals[busy[k]].start], tasks(s), c.capacity),
           LAMBDA t : timetable([k \in DOMAIN busy |-> Compulsory(tasks(t)[k])], t))

-----------------------------------------------------------------------------

\* The bound is the incumbent's makespan; an interval that may be absent is free.
MakespanBound(c, s) ==
  ForEach(LAMBDA t, x : IF Present(t, x) THEN RemoveAbove(t, x.start, c.bound - x.dur, Scope) ELSE t, s, c.intervals)

ExactlyOneMode(c, s) ==
  LET xs   == c.intervals
      here == {i \in DOMAIN xs : Present(s, xs[i])}
      left == {i \in DOMAIN xs : ~Absent(s, xs[i])}
      others(i) == UNION {PresenceIs(xs[k], 0) : k \in DOMAIN xs \ {i}}
      forbid(t, i) == IF Optional(t, xs[i]) THEN SetPresence(t, xs[i], 0, UNION {IsHere(xs[k]) : k \in here}) ELSE t
  IN  IF Cardinality(here) > 1 THEN FailBecause(s, UNION {IsHere(xs[i]) : i \in here})
      ELSE IF left = {} THEN FailBecause(s, others(0))
      ELSE IF here # {} THEN ForEach(forbid, s, Indices(xs))
      ELSE IF Cardinality(left) = 1 THEN SetPresence(s, xs[Min(left)], 1, others(Min(left))) ELSE s

-----------------------------------------------------------------------------
(* AlternativeChannel: the shared start is that of the mode chosen.        *)

\* (a) It lies between the ends of the windows of the modes that are left.
ConfineShared(c, s) ==
  LET left == {x \in Range(c.intervals) : ~Absent(s, x)}
      gone == UNION {PresenceIs(x, 0) : x \in {y \in Range(c.intervals) : Absent(s, y)}}
      t == RemoveBelow(s, c.shared, Min({StartMin(s, x) : x \in left}), Because({FromMin(s, x) : x \in left} \cup gone))
  IN  RemoveAbove(t, c.shared, Max({StartMax(s, x) : x \in left}), Because({ToMax(s, x) : x \in left} \cup gone))

\* (b) A mode whose window misses it is not chosen.
DropMode(c, s, x) ==
  LET lo == Min(s.dom[c.shared])
      hi == Max(s.dom[c.shared])
  IN  CASE Absent(s, x)         -> s
        [] StartMax(s, x) < lo -> SetPresence(s, x, 0, {ToMax(s, x), Ge(c.shared, lo)})
        [] StartMin(s, x) > hi -> SetPresence(s, x, 0, {FromMin(s, x), Le(c.shared, hi)})
        [] OTHER -> s

\* (c) The chosen mode starts with it.
TieMode(c, s, x) ==
  LET here == IsHere(x)
      shared == RemoveAbove(RemoveBelow(s, c.shared, StartMin(s, x), Because({FromMin(s, x)} \cup here)),
                            c.shared, StartMax(s, x), Because({ToMax(s, x)} \cup here))
      back(t, lo, hi) == SetMax(SetMin(t, x, lo, {Ge(c.shared, lo)} \cup here), x, hi, {Le(c.shared, hi)} \cup here)
  IN  Then(shared, LAMBDA t : back(t, Min(t.dom[c.shared]), Max(t.dom[c.shared])))

AlternativeChannel(c, s) ==
  LET xs == c.intervals
  IN  IF \A x \in Range(xs) : Absent(s, x) THEN s
      ELSE Then(ForEach(LAMBDA t, x : DropMode(c, t, x), ConfineShared(c, s), xs),
                LAMBDA t : ForEach(LAMBDA r, x : IF Present(r, x) THEN TieMode(c, r, x) ELSE r, t, xs))

IntervalFilter(c, s) ==
  CASE c.kind = "interval_precedence" -> IntervalPrecedence(c, s)
    [] c.kind = "no_overlap"          -> While(LAMBDA t : SeparateRound(c, t), BoundsMoved, s)
    [] c.kind = "interval_cumulative" -> UntilStable(LAMBDA t : IntervalCumulative(c, t), s)
    [] c.kind = "makespan_bound"      -> MakespanBound(c, s)
    [] c.kind = "exactly_one_mode"    -> UntilStable(LAMBDA t : ExactlyOneMode(c, t), s)
    [] c.kind = "alternative_channel" -> UntilStable(LAMBDA t : AlternativeChannel(c, t), s)
=============================================================================
