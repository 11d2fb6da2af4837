----------------------------- MODULE Sequencing -----------------------------
(***************************************************************************)
(* The propagators of src/constraints/lex.rs over two sequences of         *)
(* variables: lexicographic order and inverse permutations.  Their causes  *)
(* are the whole scope.                                                    *)
(***************************************************************************)
EXTENDS Store

SequencingKinds == {"lex", "channel"}

SequencingMeans(c, a) ==
  LET p == [i \in DOMAIN c.x |-> a[c.x[i]]]
      q == [i \in DOMAIN c.y |-> a[c.y[i]]]
  IN  CASE c.kind = "lex" ->
             \/ ~c.strict /\ p = q
             \/ \E i \in DOMAIN p : p[i] < q[i] /\ \A j \in 1 .. i - 1 : p[j] = q[j]
        [] c.kind = "channel" ->
             /\ Range(p) \cup Range(q) \subseteq 0 .. Len(p) - 1
             /\ \A i, j \in DOMAIN p : p[i] = j - 1 <=> q[j] = i - 1

SequencingWakes(c) == (Range(c.x) \cup Range(c.y)) \X {"DomainChange"}

-----------------------------------------------------------------------------
(* Lex: an automaton whose states say that the prefixes are equal, or that *)
(* x is already smaller.                                                   *)

MayEqual(c, d, i) == d[c.x[i]] \cap d[c.y[i]] # {}
MayBeLess(c, d, i) == c.x[i] # c.y[i] /\ Min(d[c.x[i]]) < Max(d[c.y[i]])

\* The states reachable before position i, and those from which the end is.
EqualBefore(c, d, i) == \A j \in 1 .. i - 1 : MayEqual(c, d, j)
LessBefore(c, d, i)  == \E k \in 1 .. i - 1 : EqualBefore(c, d, k) /\ MayBeLess(c, d, k)
EqualAfter(c, d, i) ==
  \/ ~c.strict /\ \A j \in i + 1 .. Len(c.x) : MayEqual(c, d, j)
  \/ \E k \in i + 1 .. Len(c.x) : MayBeLess(c, d, k) /\ \A j \in i + 1 .. k - 1 : MayEqual(c, d, j)

\* Reachability is that of the start of the round (d); supports are those of
\* the moment, read before the first of the two variables is filtered.
LexRound(c, s) ==
  LET d == s.dom
      filter(t, i) ==
        LET less   == LessBefore(c, d, i)
            equal  == EqualBefore(c, d, i) /\ EqualAfter(c, d, i)
            differ == EqualBefore(c, d, i) /\ c.x[i] # c.y[i]
            xs     == t.dom[c.x[i]]
            ys     == t.dom[c.y[i]]
            t1     == Confine(t, c.x[i], {u \in xs : less \/ (equal /\ u \in ys) \/ (differ /\ u < Max(ys))}, Scope)
        IN  Confine(t1, c.y[i], {u \in ys : less \/ (equal /\ u \in t1.dom[c.x[i]]) \/ (differ /\ Min(xs) < u)}, Scope)
  IN  IF ~EqualAfter(c, d, 0) THEN Failed(s) ELSE ForEach(filter, s, Indices(c.x))

Lex(c, s) == UntilStable(LAMBDA t : LexRound(c, t), s)

-----------------------------------------------------------------------------

\* One pass: bounds, then x from y, then y from x; positions count from 0.
Channel(c, s) ==
  LET n == Len(c.x)
      bounded == ForEach(LAMBDA t, v : RemoveAbove(RemoveBelow(t, v, 0, Scope), v, n - 1, Scope), s, c.x \o c.y)
      mirror(t, from, to) ==
        ForEach(LAMBDA r, i : Confine(r, from[i], {j \in Values : j + 1 \in 1 .. n /\ i - 1 \in r.dom[to[j + 1]]}, Scope),
                t, Indices(from))
  IN  mirror(mirror(bounded, c.x, c.y), c.y, c.x)

SequencingFilter(c, s) == IF c.kind = "lex" THEN Lex(c, s) ELSE Channel(c, s)

-----------------------------------------------------------------------------
(* The circuit of src/constraints/graph.rs: succ[i] is the successor of    *)
(* node i, counted from 0, and the arcs form one tour of all the nodes.    *)

CircuitKinds == {"circuit"}

Nodes(c) == 0 .. Len(c.succ) - 1
Succ(c, i) == c.succ[i + 1]
EachNode(c) == [k \in DOMAIN c.succ |-> k - 1]

\* The nodes that start, and the arcs, lead to.
Closure(c, start, Next1(_)) == FoldLeft(LAMBDA R, k : R \cup UNION {Next1(i) : i \in R}, start, EachNode(c))

CircuitMeans(c, a) ==
  /\ \A i \in Nodes(c) : a[Succ(c, i)] \in Nodes(c)
  /\ \A i, j \in Nodes(c) : i # j => a[Succ(c, i)] # a[Succ(c, j)]
  /\ Closure(c, {0}, LAMBDA i : {a[Succ(c, i)]}) = Nodes(c)

CircuitWakes(c) == Range(c.succ) \X {"Fix"}

-----------------------------------------------------------------------------

InBounds(c, s) ==
  LET bound(t, i) == RemoveVal(RemoveAbove(RemoveBelow(t, Succ(c, i), 0, Scope), Succ(c, i), Len(c.succ) - 1, Scope),
                               Succ(c, i), i, Scope)
  IN  ForEach(bound, s, EachNode(c))

\* A fixed arc takes its head away from the others.
ForwardCheck(c, s) ==
  LET others(i) == SelectSeq(EachNode(c), LAMBDA k : k # i)
      check(t, i) ==
        LET u == TheValue(t.dom, Succ(c, i))
        IN  ForEach(LAMBDA r, k : RemoveVal(r, Succ(c, k), u, Because({Equals(Succ(c, i), u)})), t, others(i))
  IN  ForEach(LAMBDA t, i : IF IsFixed(t.dom, Succ(c, i)) THEN check(t, i) ELSE t, s, EachNode(c))

\* path_arcs: the fixed arcs from o to d.
PathArcs(c, d, from, to) ==
  LET walk(r, k) ==
        IF r.done THEN r
        ELSE LET u == TheValue(d, Succ(c, r.at))
             IN  [at |-> u, done |-> u = to, why |-> r.why \cup {Equals(Succ(c, r.at), u)}]
  IN  FoldLeft(walk, [at |-> from, done |-> FALSE, why |-> {}], EachNode(c)).why

Link_AnyArc(c, r, i) ==
  IF ~r.s.ok \/ ~IsFixed(r.s.dom, Succ(c, i)) THEN r
  ELSE LET first == r.orig[i]
           last == r.dest[TheValue(r.s.dom, Succ(c, i))]
           n == r.len[first] + r.len[TheValue(r.s.dom, Succ(c, i))]
       IN  [r EXCEPT !.orig[last] = first, !.dest[first] = last, !.len[first] = n,
                     !.s = RemoveVal(@, Succ(c, last), first, Because(PathArcs(c, @.dom, first, last)))]

\* Join the path that ends in i to the one that starts at its successor; while
\* nodes are left out, the end of the path must not lead back to its start.
Link(c, r, i) ==
  IF ~r.s.ok \/ ~IsFixed(r.s.dom, Succ(c, i)) THEN r
  ELSE LET first == r.orig[i]
           last == r.dest[TheValue(r.s.dom, Succ(c, i))]
           n == r.len[first] + r.len[TheValue(r.s.dom, Succ(c, i))]
       IN  [r EXCEPT !.orig[last] = first, !.dest[first] = last, !.len[first] = n,
                     !.s = IF n < Len(c.succ)
                           THEN RemoveVal(@, Succ(c, last), first, Because(PathArcs(c, @.dom, first, last))) ELSE @]

\* The paths are kept across wakes and backtracks; joining their arcs once more
\* from single nodes gives the same paths and removes nothing new.
Subtours(c, s) ==
  LET alone == [s |-> s, orig |-> [i \in Nodes(c) |-> i], dest |-> [i \in Nodes(c) |-> i],
                len |-> [i \in Nodes(c) |-> 1]]
  IN  FoldLeft(LAMBDA r, i : Link(c, r, i), alone, EachNode(c)).s

\* cut_set_check: a set of nodes that no arc leaves any more, explained by the
\* arcs it has lost (c.nbr holds those it was posted with).
CutSet(c, s) ==
  LET out(i)  == s.dom[Succ(c, i)]
      into(i) == {k \in Nodes(c) : i \in s.dom[Succ(c, k)]}
      ahead   == Closure(c, {0}, out)
      behind  == Closure(c, {0}, into)
      lost(S) == UNION {{Differs(Succ(c, i), j) : j \in c.nbr[i + 1] \ S} : i \in S}
  IN  IF ~s.ok \/ Len(c.succ) < 3 THEN s
      ELSE IF ahead # Nodes(c) THEN FailBecause(s, lost(ahead))
      ELSE IF behind # Nodes(c) THEN FailBecause(s, lost(Nodes(c) \ behind)) ELSE s

CircuitFilter(c, s) ==
  IF Len(c.succ) = 1 THEN Fix(s, c.succ[1], 0, Scope)
  ELSE LET t == UntilStable(LAMBDA r : Subtours(c, ForwardCheck(c, r)), InBounds(c, s))
       IN  IF c.cutset THEN CutSet(c, t) ELSE t
=============================================================================
