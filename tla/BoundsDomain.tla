---------------------------- MODULE BoundsDomain ----------------------------
(***************************************************************************)
(* The Bounds layout of src/domains/int.rs, for wide contiguous ranges: two*)
(* bounds and a vector of removed interior values.                         *)
(*                                                                         *)
(* Only the first holes_len holes count; the vector itself is not          *)
(* reversible, so a hole recorded after a pop overwrites one that no open  *)
(* level can see.  active_holes caches how many holes lie within the       *)
(* bounds, which makes size O(1).  The trailed integers are a record with a*)
(* stack of copies, which is what Trail implements.                        *)
(***************************************************************************)
EXTENDS Integers, Sequences, FiniteSets

CONSTANTS
  Universe,    \* the contiguous range a domain can be created over
  Inputs,      \* values and bounds the filtering calls can be given
  MaxLevels    \* bound on the open levels

VARIABLES
  holes,       \* the vector of removed interior values
  regs,        \* the trailed integers holes_len, empty, active_holes, min, max
  saved,       \* the copies of regs that the open levels bring back
  answer       \* what the last call returned

vars == <<holes, regs, saved, answer>>

HolesOf(r) == {holes[i] : i \in 1 .. r.holes_len}
ValuesOf(r) == IF r.empty THEN {} ELSE (r.min .. r.max) \ HolesOf(r)

\* size: the span less the active holes.
SizeOf(r) == IF r.empty THEN 0 ELSE r.max - r.min + 1 - r.active_holes

Contains(v) == v \in ValuesOf(regs)

Init ==
  /\ holes = <<>>
  /\ \E lo, hi \in Universe :
       /\ lo <= hi /\ lo .. hi \subseteq Universe
       /\ regs = [holes_len |-> 0, empty |-> FALSE, active_holes |-> 0, min |-> lo, max |-> hi]
  /\ saved = <<>>
  /\ answer = "none"

-----------------------------------------------------------------------------
(* Helpers on the trailed integers.                                        *)

SetEmpty(r) == [r EXCEPT !.empty = TRUE]

\* count_holes_in
Crossed(r, lo, hi) == Cardinality({i \in 1 .. r.holes_len : lo <= holes[i] /\ holes[i] <= hi})

SetMin_StopsOnHole(r, target) ==
  [r EXCEPT !.active_holes = r.active_holes - Crossed(r, r.min, target - 1), !.min = target]

\* set_bounds_min: skip the holes at the new minimum, and drop from the count
\* every hole that the bound has crossed.
SetMin(r, target) ==
  LET kept == {v \in target .. r.max : v \notin HolesOf(r)}
      new  == CHOOSE v \in kept : \A w \in kept : v <= w
  IN  IF kept = {} THEN SetEmpty(r)
      ELSE [r EXCEPT !.active_holes = r.active_holes - Crossed(r, r.min, new - 1), !.min = new]

\* set_bounds_max
SetMax(r, target) ==
  LET kept == {v \in r.min .. target : v \notin HolesOf(r)}
      new  == CHOOSE v \in kept : \A w \in kept : w <= v
  IN  IF kept = {} THEN SetEmpty(r)
      ELSE [r EXCEPT !.active_holes = r.active_holes - Crossed(r, new + 1, r.max), !.max = new]

\* Record an interior removal in the slot after the visible prefix.
AddHole(v) ==
  /\ holes' = IF regs.holes_len = Len(holes) THEN Append(holes, v)
              ELSE [holes EXCEPT ![regs.holes_len + 1] = v]
  /\ regs' = [regs EXCEPT !.holes_len = regs.holes_len + 1, !.active_holes = regs.active_holes + 1]

-----------------------------------------------------------------------------
(* The calls.                                                              *)

\* remove_bounds: the last value, the minimum, the maximum, an interior value.
RemovePresent(v) ==
  CASE SizeOf(regs) = 1                         -> regs' = SetEmpty(regs) /\ UNCHANGED holes
    [] SizeOf(regs) # 1 /\ v = regs.min         -> regs' = SetMin(regs, v + 1) /\ UNCHANGED holes
    [] SizeOf(regs) # 1 /\ v # regs.min /\ v = regs.max
                                                -> regs' = SetMax(regs, v - 1) /\ UNCHANGED holes
    [] OTHER                                    -> AddHole(v)

Remove(v) ==
  /\ \/ Contains(v) /\ RemovePresent(v) /\ answer' = "changed"
     \/ ~Contains(v) /\ UNCHANGED <<holes, regs>> /\ answer' = "unchanged"
  /\ UNCHANGED saved

Fix(v) ==
  /\ \/ /\ Contains(v)
        /\ regs' = [regs EXCEPT !.min = v, !.max = v, !.active_holes = 0]
        /\ answer' = IF SizeOf(regs) > 1 THEN "changed" ELSE "unchanged"
     \/ ~Contains(v) /\ UNCHANGED regs /\ answer' = "inconsistent"
  /\ UNCHANGED <<holes, saved>>

RemoveBelow(bound) ==
  /\ \/ /\ SizeOf(regs) = 0 \/ bound <= regs.min
        /\ UNCHANGED regs /\ answer' = "unchanged"
     \/ /\ SizeOf(regs) # 0 /\ bound > regs.min
        /\ regs' = IF bound > regs.max THEN SetEmpty(regs) ELSE SetMin(regs, bound)
        /\ answer' = "changed"
  /\ UNCHANGED <<holes, saved>>

RemoveAbove(bound) ==
  /\ \/ /\ SizeOf(regs) = 0 \/ bound >= regs.max
        /\ UNCHANGED regs /\ answer' = "unchanged"
     \/ /\ SizeOf(regs) # 0 /\ bound < regs.max
        /\ regs' = IF bound < regs.min THEN SetEmpty(regs) ELSE SetMax(regs, bound)
        /\ answer' = "changed"
  /\ UNCHANGED <<holes, saved>>

PushLevel ==
  /\ Len(saved) < MaxLevels
  /\ saved' = Append(saved, regs)
  /\ UNCHANGED <<holes, regs, answer>>

PopLevel ==
  /\ saved # <<>>
  /\ regs' = saved[Len(saved)]
  /\ saved' = SubSeq(saved, 1, Len(saved) - 1)
  /\ UNCHANGED <<holes, answer>>

Next ==
  \/ \E v \in Inputs : Remove(v) \/ Fix(v) \/ RemoveBelow(v) \/ RemoveAbove(v)
  \/ PushLevel \/ PopLevel

Spec == Init /\ [][Next]_vars

-----------------------------------------------------------------------------
(* Properties.                                                             *)

Regs == [holes_len : Nat, empty : BOOLEAN, active_holes : Nat, min : Int, max : Int]

TypeOK ==
  /\ holes \in Seq(Int)
  /\ regs \in Regs /\ regs.holes_len <= Len(holes)
  /\ saved \in Seq(Regs)
  /\ answer \in {"none", "changed", "unchanged", "inconsistent"}

CountIsExact(r) == SizeOf(r) = Cardinality(ValuesOf(r))
SizeIsExact == CountIsExact(regs) /\ \A k \in DOMAIN saved : CountIsExact(saved[k])

BoundsArePresent ==
  \A r \in {regs} \cup {saved[k] : k \in DOMAIN saved} :
    ~r.empty => r.min \in ValuesOf(r) /\ r.max \in ValuesOf(r)

\* The cached count answers size correctly, now and in every copy a pop can bring
\* back, although bounds move over holes without revisiting them; and a bound is
\* always a present value: it never rests on a hole.
RepresentationInv == TypeOK /\ SizeIsExact /\ BoundsArePresent

PromisedSaved == [k \in DOMAIN saved |-> ValuesOf(saved[k])]
=============================================================================
