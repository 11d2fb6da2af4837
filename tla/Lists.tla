-------------------------------- MODULE Lists --------------------------------
(***************************************************************************)
(* The list propagators of src/constraints/list.rs.  A list has a 0/1      *)
(* variable for every item of its universe, 1 when it holds the item, and  *)
(* a length variable: [members |-> item by item, length |-> variable].     *)
(***************************************************************************)
EXTENDS Store

ListKinds == {"partition", "same_list", "item_precedence", "list_cardinality", "list_used", "list_length", "list_item_sum"}

Held(a, l)       == {it \in DOMAIN l.members : a[l.members[it]] = 1}
Owners(a, ls, it) == {i \in DOMAIN ls : it \in Held(a, ls[i])}
WeightOf(c, S)   == FoldLeft(LAMBDA n, p : IF p[1] \in S THEN n + p[2] ELSE n, 0, c.weights)

ListMeans(c, a) ==
  CASE c.kind = "partition"        -> \A it \in Range(c.items) : Cardinality(Owners(a, c.lists, it)) = 1
    [] c.kind = "same_list"        -> c.a = c.b \/ \E i \in DOMAIN c.lists :
                                        Owners(a, c.lists, c.a) = {i} /\ Owners(a, c.lists, c.b) = {i}
    [] c.kind = "item_precedence"  -> \E i, j \in DOMAIN c.lists :
                                        i <= j /\ Owners(a, c.lists, c.a) = {i} /\ Owners(a, c.lists, c.b) = {j}
    [] c.kind = "list_cardinality" -> a[c.list.length] = Cardinality(Held(a, c.list))
    [] c.kind = "list_used"        -> a[c.used] = IF a[c.list.length] >= 1 THEN 1 ELSE 0
    [] c.kind = "list_length"      -> a[c.list.length] \in c.low .. c.high
    [] c.kind = "list_item_sum"    -> WeightOf(c, Held(a, c.list)) \in c.low .. c.high

MemberWakes(l) == Range(l.members) \X {"Fix"}
LengthWakes(l) == {<<l.length, "BoundChange">>}

ListWakes(c) ==
  CASE c.kind \in {"partition", "same_list", "item_precedence"} -> UNION {MemberWakes(l) : l \in Range(c.lists)}
    [] c.kind \in {"list_cardinality", "list_length"}           -> MemberWakes(c.list) \cup LengthWakes(c.list)
    [] c.kind = "list_used"                                     -> LengthWakes(c.list) \cup {<<c.used, "Fix">>}
    [] c.kind = "list_item_sum"                                 -> MemberWakes(c.list)

ListPriority(c) ==
  CASE c.kind = "partition" -> "Expensive"
    [] c.kind \in {"item_precedence", "list_length"} -> "Cheap"
    [] OTHER -> "Linear"

-----------------------------------------------------------------------------
(* Membership: the store's handles.                                        *)

Possible(s, l, it) == it \in DOMAIN l.members /\ 1 \in s.dom[l.members[it]]
Required(s, l, it) == it \in DOMAIN l.members /\ s.dom[l.members[it]] = {1}
Decided(s, l, it)  == Possible(s, l, it) => Required(s, l, it)

MemberIs(l, it, u)      == {Equals(l.members[it], u) : k \in {it} \cap DOMAIN l.members}
MembersAre(l, items, u) == UNION {MemberIs(l, it, u) : it \in items}
Excluded(ls, it)        == UNION {MemberIs(ls[i], it, 0) : i \in DOMAIN ls}

\* A membership decided the other way joins the reason of the conflict.
SetMember(s, l, it, u, why) ==
  IF u \in s.dom[l.members[it]] THEN Fix(s, l.members[it], u, Because(why))
  ELSE FailBecause(s, why \cup MemberIs(l, it, 1 - u))

Require(s, l, it, why) == IF it \in DOMAIN l.members THEN SetMember(s, l, it, 1, why) ELSE FailBecause(s, why)
Forbid(s, l, it, why)  == IF it \in DOMAIN l.members THEN SetMember(s, l, it, 0, why) ELSE s

RequiredBy(s, ls, it) == {i \in DOMAIN ls : Required(s, ls[i], it)}
PossibleIn(s, ls, it) == {i \in DOMAIN ls : Possible(s, ls[i], it)}

\* forbid item it in the lists whose index is in I.
ForbidIn(s, ls, I, it, why) == ForEach(LAMBDA t, i : IF i \in I THEN Forbid(t, ls[i], it, why) ELSE t, s, Indices(ls))

-----------------------------------------------------------------------------

Settle(c, s, it) ==
  LET req  == RequiredBy(s, c.lists, it)
      poss == PossibleIn(s, c.lists, it)
      held(I) == UNION {MemberIs(c.lists[i], it, 1) : i \in I}
      last == Min(poss)
  IN  IF Cardinality(req) > 1 THEN FailBecause(s, held(req))
      ELSE IF poss = {} THEN FailBecause(s, Excluded(c.lists, it))
      ELSE IF req # {} THEN ForbidIn(s, c.lists, DOMAIN c.lists \ req, it, held(req))
      ELSE IF poss = {last} THEN Require(s, c.lists[last], it, Excluded(c.lists, it) \ MemberIs(c.lists[last], it, 0))
      ELSE s

Partition(c, s) == ForEach(LAMBDA t, it : Settle(c, t, it), s, c.items)

\* required_owner fails, for no reason but its scope, when two lists hold an item.
TwoOwners(s, ls, it) == Cardinality(RequiredBy(s, ls, it)) > 1

OwnersApart(c, s) == MembersAre(c.lists[Min(RequiredBy(s, c.lists, c.a))], {c.a}, 1)
                       \cup MembersAre(c.lists[Min(RequiredBy(s, c.lists, c.b))], {c.b}, 1)

SameList(c, s) ==
  LET ownA == RequiredBy(s, c.lists, c.a)
      ownB == RequiredBy(s, c.lists, c.b)
      follow(t, own, it, other) ==
        ForEach(LAMBDA r, i : IF i \in own THEN Require(r, c.lists[i], other, MemberIs(c.lists[i], it, 1)) ELSE r,
                t, Indices(c.lists))
      \* a is looked up, then b: both before either is barred from list i.
      bar(r, i) ==
        LET l == c.lists[i]
            noA == ~Possible(r.s, l, c.a)
            noB == ~Possible(r.s, l, c.b)
            t1  == IF noA THEN Forbid(r.s, l, c.b, MemberIs(l, c.a, 0)) ELSE r.s
        IN  [common |-> r.common \/ ~(noA \/ noB),
             why    |-> r.why \cup (IF noA THEN MemberIs(l, c.a, 0) ELSE {}) \cup (IF noB THEN MemberIs(l, c.b, 0) ELSE {}),
             s      |-> IF noB THEN Forbid(t1, l, c.a, MemberIs(l, c.b, 0)) ELSE t1]
      followed == follow(follow(s, ownA, c.a, c.b), ownB, c.b, c.a)
      met(r)   == IF r.common THEN r.s ELSE FailBecause(r.s, r.why)
  IN  IF TwoOwners(s, c.lists, c.a) \/ TwoOwners(s, c.lists, c.b) THEN Failed(s)
      ELSE IF ownA # {} /\ ownB # {} /\ ownA # ownB THEN FailBecause(s, OwnersApart(c, s))
      ELSE met(FoldLeft(bar, [s |-> followed, common |-> FALSE, why |-> {}], Indices(c.lists)))

ItemPrecedence(c, s) ==
  LET ls    == c.lists
      ownA  == RequiredBy(s, ls, c.a)
      ownB  == RequiredBy(s, ls, c.b)
      after(own)  == {i \in DOMAIN ls : \E k \in own : i > k}
      before(own) == {i \in DOMAIN ls : \E k \in own : i < k}
      t1 == ForbidIn(s, ls, before(ownA), c.b, UNION {MemberIs(ls[k], c.a, 1) : k \in ownA})
      t2 == ForbidIn(t1, ls, after(ownB), c.a, UNION {MemberIs(ls[k], c.b, 1) : k \in ownB})
      supportA(t, i) ==
        IF Possible(t, ls[i], c.a) /\ PossibleIn(t, ls, c.b) \cap (i .. Len(ls)) = {}
        THEN Forbid(t, ls[i], c.a, UNION {MemberIs(ls[j], c.b, 0) : j \in i .. Len(ls)}) ELSE t
      supportB(t, i) ==
        IF Possible(t, ls[i], c.b) /\ PossibleIn(t, ls, c.a) \cap (1 .. i) = {}
        THEN Forbid(t, ls[i], c.b, UNION {MemberIs(ls[j], c.a, 0) : j \in 1 .. i}) ELSE t
      placed(t) == IF PossibleIn(t, ls, c.a) = {} THEN FailBecause(t, Excluded(ls, c.a))
                   ELSE IF PossibleIn(t, ls, c.b) = {} THEN FailBecause(t, Excluded(ls, c.b)) ELSE t
  IN  IF TwoOwners(s, ls, c.a) \/ TwoOwners(s, ls, c.b) THEN Failed(s)
      ELSE IF \E i \in ownA, j \in ownB : i > j THEN FailBecause(s, OwnersApart(c, s))
      ELSE placed(ForEach(LAMBDA t, i : Then(supportA(t, i), LAMBDA r : supportB(r, i)), t2, Indices(ls)))

-----------------------------------------------------------------------------

InUniverse(l) == InOrder(DOMAIN l.members)

\* One pass of ListCardinality: both ends of the length from the memberships at
\* its top, then the memberships from the length.
Couple(c, s) ==
  LET l    == c.list
      req  == {it \in DOMAIN l.members : Required(s, l, it)}
      out  == {it \in DOMAIN l.members : ~Possible(s, l, it)}
      poss == Cardinality(DOMAIN l.members) - Cardinality(out)
      open(r, it) == ~Decided(r, l, it)
      full  == {Le(l.length, Cardinality(req))} \cup MembersAre(l, req, 1)
      short == {Ge(l.length, poss)} \cup MembersAre(l, out, 0)
      close(r) == IF Max(r.dom[l.length]) = Cardinality(req) /\ poss > Cardinality(req)
                  THEN ForEach(LAMBDA t, it : IF open(t, it) THEN Forbid(t, l, it, full) ELSE t, r, InUniverse(l)) ELSE r
      fill(r)  == IF Min(r.dom[l.length]) = poss /\ poss > Cardinality(req)
                  THEN ForEach(LAMBDA t, it : IF open(t, it) THEN Require(t, l, it, short) ELSE t, r, InUniverse(l)) ELSE r
      bounded  == RemoveAbove(RemoveBelow(s, l.length, Cardinality(req), Because(MembersAre(l, req, 1))),
                              l.length, poss, Because(MembersAre(l, out, 0)))
  IN  Then(Then(bounded, close), fill)

ListUsed(c, s) ==
  LET len == c.list.length
      to(t) == IF t.dom[c.used] = {1} THEN RemoveBelow(t, len, 1, Because({Equals(c.used, 1)}))
               ELSE IF t.dom[c.used] = {0} THEN RemoveAbove(t, len, 0, Because({Equals(c.used, 0)})) ELSE t
  IN  Then(IF Min(s.dom[len]) >= 1 THEN Fix(s, c.used, 1, Because({Ge(len, 1)}))
           ELSE IF Max(s.dom[len]) <= 0 THEN Fix(s, c.used, 0, Because({Le(len, 0)})) ELSE s, to)

ListLength(c, s) ==
  IF c.low > c.high THEN Failed(s)
  ELSE RemoveAbove(RemoveBelow(s, c.list.length, c.low, Scope), c.list.length, c.high, Scope)

\* One pass of ListItemSum: the floor, the ceiling and their reasons are those
\* of its top.
BoundSum(c, s) ==
  LET l     == c.list
      items == {p[1] : p \in Range(c.weights)}
      req   == {it \in items : Required(s, l, it)}
      open  == {it \in items : ~Decided(s, l, it)}
      signed(neg) == {p[1] : p \in {q \in Range(c.weights) : IF neg THEN q[2] < 0 ELSE q[2] > 0}}
      gone(neg)   == {it \in signed(neg) : ~Possible(s, l, it)}
      lower == WeightOf(c, req) + WeightOf(c, open \cap signed(TRUE))
      upper == WeightOf(c, req) + WeightOf(c, open \cap signed(FALSE))
      floor   == MembersAre(l, req, 1) \cup MembersAre(l, gone(TRUE), 0)
      ceiling == MembersAre(l, req, 1) \cup MembersAre(l, gone(FALSE), 0)
      decide(t, p) ==
        IF Decided(t, l, p[1]) THEN t
        ELSE IF p[2] > 0 /\ lower + p[2] > c.high THEN Forbid(t, l, p[1], floor)
        ELSE IF p[2] > 0 /\ upper - p[2] < c.low THEN Require(t, l, p[1], ceiling)
        ELSE IF p[2] < 0 /\ upper + p[2] < c.low THEN Forbid(t, l, p[1], ceiling)
        ELSE IF p[2] < 0 /\ lower - p[2] > c.high THEN Require(t, l, p[1], floor) ELSE t
  IN  IF lower > c.high THEN FailBecause(s, floor)
      ELSE IF upper < c.low THEN FailBecause(s, ceiling)
      ELSE ForEach(decide, s, c.weights)

ListFilter(c, s) ==
  CASE c.kind = "partition"        -> Partition(c, s)
    [] c.kind = "same_list"        -> IF c.a = c.b THEN s ELSE UntilStable(LAMBDA t : SameList(c, t), s)
    [] c.kind = "item_precedence"  -> UntilStable(LAMBDA t : ItemPrecedence(c, t), s)
    [] c.kind = "list_cardinality" -> UntilStable(LAMBDA t : Couple(c, t), s)
    [] c.kind = "list_used"        -> ListUsed(c, s)
    [] c.kind = "list_length"      -> ListLength(c, s)
    [] c.kind = "list_item_sum"    -> IF c.low > c.high THEN Failed(s) ELSE UntilStable(LAMBDA t : BoundSum(c, t), s)
=============================================================================
