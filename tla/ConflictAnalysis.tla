--------------------------- MODULE ConflictAnalysis ---------------------------
(***************************************************************************)
(* resolve_conflict of src/lcg/trail.rs: a conflict becomes the clause of  *)
(* its first unique implication point, shortened by minimization and by    *)
(* vivification, published, and asserted after the backjump.               *)
(***************************************************************************)
EXTENDS ClauseTrail

VARIABLES
  cube_scope,   \* the negated literals of the cube that this search explores
  bound_scope,  \* the negated objective bound, if there is one
  exported      \* history: the clauses published to the other workers, as sets

sharing == <<cube_scope, bound_scope, exported>>

Deepest(e, L) == Max({0} \cup {LevelOf(e, l) : l \in L})
Lbd(e, L)     == Cardinality({LevelOf(e, l) : l \in {m \in L : ~IsOpen(e, m)}})

-----------------------------------------------------------------------------
(* analyze: walk the trail back from its end, replacing the literals of    *)
(* the conflict's deepest level by their antecedents until one remains.    *)

\* The false literals L join: one of the level is to be resolved, others stay.
Absorb(e, w, L, level) ==
  LET Take(s, q) ==
        IF q[1] \in s.seen \/ LevelOf(e, q) <= 0 THEN s
        ELSE IF LevelOf(e, q) = level
             THEN [s EXCEPT !.seen = @ \cup {q[1]}, !.open = @ + 1]
             ELSE [s EXCEPT !.seen = @ \cup {q[1]}, !.learnt = Append(@, q)]
  IN  FoldLeft(Take, w, InCodeOrder(L))

\* The learnt clause, asserting literal first; none when the root is refuted.
Analyzed(e) ==
  LET level == Deepest(e, e.clash)
      begin == Absorb(e, [seen |-> {}, learnt |-> <<>>, open |-> 0, uip |-> <<>>], e.clash, level)
      Clause(w) == <<Not(w.uip)>> \o w.learnt
      Back(w, t) ==
        IF w.uip # <<>> \/ t.lit[1] \notin w.seen THEN w
        ELSE IF w.open = 1 THEN [w EXCEPT !.uip = t.lit]
        ELSE Absorb(e, [w EXCEPT !.seen = @ \ {t.lit[1]}, !.open = @ - 1], Antecedents(e, t.lit), level)
  IN  IF level = 0 THEN <<>> ELSE Clause(FoldLeft(Back, begin, Reverse(e.trail)))

-----------------------------------------------------------------------------
(* minimize_learnt: a literal goes when the others already imply it.       *)

Redundant_Decisions(e, q, base) ==
  LET Behind(w, t) ==
        LET more == {l \in Antecedents(e, t.lit) : LevelOf(e, l) # 0 /\ l[1] \notin base}
        IN  IF t.lit[1] \notin w.todo THEN w
            ELSE [todo |-> w.todo \cup {l[1] : l \in more},
                  ok   |-> w.ok /\ \A l \in more : LevelOf(e, l) # Unset]
  IN  FoldLeft(Behind, [todo |-> {q[1]}, ok |-> TRUE], Reverse(e.trail)).ok

\* learnt_lit_redundant: everything behind a literal leads to level zero or to
\* the atoms of base, never to a decision.
Redundant(e, q, base) ==
  LET Behind(w, t) ==
        LET more == {l \in Antecedents(e, t.lit) : LevelOf(e, l) # 0 /\ l[1] \notin base}
        IN  IF t.lit[1] \notin w.todo THEN w
            ELSE [todo |-> w.todo \cup {l[1] : l \in more},
                  ok   |-> w.ok /\ Antecedents(e, t.lit) # {} /\ \A l \in more : LevelOf(e, l) # Unset]
  IN  FoldLeft(Behind, [todo |-> {q[1]}, ok |-> TRUE], Reverse(e.trail)).ok

MinLen == 3
MinimizeMaxLen == 128

Minimized(e, learnt) ==
  LET Keep(kept, i) ==
        LET others == {l[1] : l \in Range(kept) \cup {learnt[j] : j \in i .. Len(learnt)}}
        IN  IF Redundant(e, learnt[i], others) THEN kept ELSE Append(kept, learnt[i])
  IN  IF Len(learnt) \notin MinLen .. MinimizeMaxLen THEN learnt
      ELSE FoldLeft(Keep, <<learnt[1]>>, [i \in 1 .. Len(learnt) - 1 |-> i + 1])

-----------------------------------------------------------------------------
(* vivify_learned: a literal goes when the propagators alone, from cached  *)
(* root domains, refute the negation of the others.                        *)

VivifyMaxLen == 8
VivifyMaxLbd == 4
VivifyMaxRemoved == 2

RootDomains(e) == IF e.levels = <<>> THEN e.dom ELSE e.levels[1].dom
Checker(e)     == IF e.checker = NoChecker THEN RootDomains(e) ELSE e.checker

\* cp_refutes_without.
Refutes(e, lits) ==
  LET bare == [ClearedQueue(Quiet(e)) EXCEPT !.dom = Checker(e), !.ok = TRUE]
      Deny(s, l) == IF ~s.ok \/ LitFalse(s.dom, l) THEN s
                    ELSE IF LitTrue(s.dom, l) THEN Failed(s) ELSE Enforce(s, Not(l))
  IN  ~Drained(FoldLeft(Deny, bare, lits)).ok

IsVivified(e, learnt) == Len(learnt) \in MinLen .. VivifyMaxLen /\ Lbd(e, Range(learnt)) <= VivifyMaxLbd

Vivified(e, learnt) ==
  LET Keep(kept, i) ==
        LET removed == i - 1 - Len(kept)
            rest    == SubSeq(learnt, i + 1, Len(learnt))
        IN  IF removed < VivifyMaxRemoved /\ Refutes(e, kept \o rest) THEN kept ELSE Append(kept, learnt[i])
  IN  IF ~IsVivified(e, learnt) THEN learnt
      ELSE FoldLeft(Keep, <<learnt[1]>>, [i \in 1 .. Len(learnt) - 1 |-> i + 1])

-----------------------------------------------------------------------------
(* resolve_conflict.                                                       *)

\* ClauseSharing::publish, with the scope that the clause depends on.
PublishMaxLen == 8
PublishMaxLbd == 4

Published_Unscoped(learnt, lbd) ==
  IF lbd <= PublishMaxLbd /\ Len(learnt) <= PublishMaxLen THEN {Range(learnt)} ELSE {}

Published(learnt, lbd) ==
  LET scope == cube_scope \cup bound_scope
  IN  IF lbd <= PublishMaxLbd /\ Cardinality(scope) + Len(learnt) <= PublishMaxLen
      THEN {scope \cup Range(learnt)} ELSE {}

\* Slot 1 takes a literal of the backjump level, to be watched.
SecondWatch(e, short) ==
  LET bt == Deepest(e, Range(Tail(short)))
      k  == SelectInSeq([i \in DOMAIN short |-> i], LAMBDA i : i > 1 /\ LevelOf(e, short[i]) = bt)
  IN  IF Len(short) < 2 THEN short ELSE [short EXCEPT ![2] = short[k], ![k] = short[2]]

\* The clause added, and its first literal assigned, where the backjump leads.
Asserting(e, learnt, lbd) ==
  Assign(AddClause(e, learnt, Len(learnt) >= 2, lbd), learnt[1], ByClause(NewSlot(e)))

\* The clause asserts after a jump back to its second deepest level.
\* What became of the conflict, the engine after it, and what was published.
Learned(e, learnt) ==
  LET bt  == Deepest(e, Range(Tail(learnt)))
      lbd == Lbd(e, Range(learnt))
      Result(t) ==
        [verdict   |-> IF t.ok THEN "learnt" ELSE IF bt = 0 THEN "refuted" ELSE "panic",
         engine    |-> [t EXCEPT !.clash = {}],
         published |-> Published(learnt, lbd)]
  IN  Result(Asserting(BackjumpTo(e, bt), learnt, lbd))

\* The root domains are cached the first time that a clause is vivified.
Shortened(e, mini) ==
  Learned([e EXCEPT !.checker = IF IsVivified(e, mini) THEN Checker(e) ELSE @], SecondWatch(e, Vivified(e, mini)))

ResolvedWith(e, long) ==
  IF long = <<>> THEN [verdict |-> "refuted", engine |-> e, published |-> {}]
  ELSE Shortened(e, Minimized(e, long))

Resolved(e) == ResolvedWith(e, Analyzed(e))
=============================================================================
