--------------------------- MODULE SparseSetDomain ---------------------------
(***************************************************************************)
(* The Dense and Sparse layouts of src/domains/int.rs: a sparse set.       *)
(*                                                                         *)
(* dense is a permutation of the values that have an index and sparse is   *)
(* its inverse; a value is present when its position is below size.  The   *)
(* two arrays are NOT reversible: only size, min and max live on the trail,*)
(* here a stack of copies, which is what Trail implements.  The swaps must *)
(* therefore never disturb the prefixes that the saved sizes delimit.      *)
(*                                                                         *)
(* An internal index is identified with the value it stands for.  The two  *)
(* removal loops take one step per iteration.                              *)
(***************************************************************************)
EXTENDS Integers, Sequences, FiniteSets

CONSTANTS
  Universe,    \* values a domain can be created over
  Inputs,      \* values and bounds the filtering calls can be given
  MaxLevels    \* bound on the open levels

ASSUME SparseSetAssumption ==
  /\ Universe \subseteq Int /\ IsFiniteSet(Universe)
  /\ Inputs \subseteq Int
  /\ MaxLevels \in Nat

VARIABLES
  layout,      \* "dense": an index for every value of the span, "sparse": of the root
  dense,       \* value at each position
  sparse,      \* position of each value
  regs,        \* the trailed integers size, min, max
  saved,       \* the copies of regs that the open levels bring back
  call,        \* the removal loop being run, or Idle
  answer       \* what the last finished call returned

arrays == <<layout, dense, sparse>>
sparseSetVars == <<arrays, regs, saved, call, answer>>

Idle == [loop |-> "idle"]

Present(size) == {dense[p] : p \in {q \in DOMAIN dense : q < size}}
PresentValues == Present(regs.size)
Contains(v) == v \in DOMAIN sparse /\ sparse[v] < regs.size

Least(S)    == CHOOSE v \in S : \A w \in S : v <= w
Greatest(S) == CHOOSE v \in S : \A w \in S : w <= v

\* from_dense_range, from_dense_set, from_sparse_set: the root values in order,
\* then (dense layout only) the values of the span that are not in the root.  A set
\* without gaps is stored as a range.
SparseSetInit ==
  \E root \in SUBSET Universe :
    /\ root # {}
    /\ layout \in {"dense", "sparse"}
    /\ layout = "sparse" => root # Least(root) .. Greatest(root)
    /\ LET support == IF layout = "dense" THEN Least(root) .. Greatest(root) ELSE root
           size    == Cardinality(root)
           places  == 0 .. Cardinality(support) - 1
       IN  /\ dense \in [places -> support]
           /\ \A p, q \in places :
                /\ p < size <=> dense[p] \in root
                /\ p < q /\ (q < size \/ size <= p) => dense[p] < dense[q]
           /\ sparse \in [support -> places]
           /\ \A p \in places : sparse[dense[p]] = p
           /\ regs = [size |-> size, min |-> Least(root), max |-> Greatest(root)]
    /\ saved = <<>>
    /\ call = Idle
    /\ answer = "none"

-----------------------------------------------------------------------------
(* Helpers.                                                                *)

\* swap: exchange two positions, keeping sparse the inverse of dense.
Swap(p, q) ==
  /\ dense' = [dense EXCEPT ![p] = dense[q], ![q] = dense[p]]
  /\ sparse' = [sparse EXCEPT ![dense[p]] = q, ![dense[q]] = p]
  /\ UNCHANGED layout

\* remove, the trailed part: one value less; recompute_min and recompute_max
\* scan for the next present value, and an emptied domain keeps its bounds.
RegsWithout(v) ==
  LET last == regs.size - 1
      left == PresentValues \ {v}
  IN  [size |-> last,
       min  |-> IF last > 0 /\ v = regs.min THEN Least(left) ELSE regs.min,
       max  |-> IF last > 0 /\ v = regs.max /\ v # regs.min THEN Greatest(left) ELSE regs.max]

RemoveValue(v) ==
  /\ Swap(sparse[v], regs.size - 1)
  /\ regs' = RegsWithout(v)

Return(a) == call' = Idle /\ answer' = a

-----------------------------------------------------------------------------
(* The calls.                                                              *)

Remove(v) ==
  /\ call = Idle
  /\ \/ /\ Contains(v)
        /\ RemoveValue(v)
        /\ Return("changed")
     \/ /\ ~Contains(v)
        /\ UNCHANGED <<arrays, regs>>
        /\ Return("unchanged")
  /\ UNCHANGED saved

Fix(v) ==
  /\ call = Idle
  /\ \/ /\ Contains(v)
        /\ Swap(sparse[v], 0)
        /\ regs' = [size |-> 1, min |-> v, max |-> v]
        /\ Return(IF regs.size > 1 THEN "changed" ELSE "unchanged")
     \/ /\ ~Contains(v)
        /\ UNCHANGED <<arrays, regs>>
        /\ Return("inconsistent")
  /\ UNCHANGED saved

\* The values that a removal loop gets rid of.
Doomed(c, v) == IF c.side = "below" THEN v < c.bound ELSE v > c.bound

\* remove_below and remove_above: nothing to do, or start the layout's loop.
\* The dense one visits the values from the bound that moves, the sparse one
\* the positions from 0 with a private copy of size.
RemoveSide(side, bound) ==
  /\ call = Idle
  /\ \/ /\ regs.size = 0 \/ (IF side = "below" THEN bound <= regs.min ELSE bound >= regs.max)
        /\ Return("unchanged")
     \/ /\ regs.size > 0 /\ (IF side = "below" THEN bound > regs.min ELSE bound < regs.max)
        /\ call' = IF layout = "dense"
                   THEN [loop |-> "values", side |-> side, bound |-> bound, changed |-> FALSE,
                         at |-> IF side = "below" THEN regs.min ELSE regs.max]
                   ELSE [loop |-> "positions", side |-> side, bound |-> bound,
                         pos |-> 0, size |-> regs.size]
        /\ UNCHANGED answer
  /\ UNCHANGED <<arrays, regs, saved>>

RemoveBelow(bound) == RemoveSide("below", bound)
RemoveAbove(bound) == RemoveSide("above", bound)

\* while v < bound { changed |= remove(v); if size == 0 { break }; v += 1 }
ValueLoop ==
  /\ call.loop = "values"
  /\ LET v       == call.at
         next    == IF call.side = "below" THEN v + 1 ELSE v - 1
         changed == call.changed \/ Contains(v)
     IN  \/ /\ Doomed(call, v)
            /\ IF Contains(v) THEN RemoveValue(v) ELSE UNCHANGED <<arrays, regs>>
            /\ IF regs'.size = 0
               THEN Return(IF changed THEN "changed" ELSE "unchanged")
               ELSE call' = [call EXCEPT !.at = next, !.changed = changed] /\ UNCHANGED answer
         \/ /\ ~Doomed(call, v)
            /\ Return(IF call.changed THEN "changed" ELSE "unchanged")
            /\ UNCHANGED <<arrays, regs>>
  /\ UNCHANGED saved

PositionLoop_SkipsSwapped ==
  /\ call.loop = "positions"
  /\ call.pos < call.size
  /\ LET doomed == Doomed(call, dense[call.pos])
     IN  /\ IF doomed THEN Swap(call.pos, call.size - 1) ELSE UNCHANGED arrays
         /\ call' = [call EXCEPT !.size = IF doomed THEN call.size - 1 ELSE call.size,
                                 !.pos = call.pos + 1]
  /\ UNCHANGED <<regs, saved, answer>>

\* remove_if, one iteration: the value swapped in from the end is looked at next.
PositionLoop ==
  /\ call.loop = "positions"
  /\ call.pos < call.size
  /\ IF Doomed(call, dense[call.pos])
     THEN Swap(call.pos, call.size - 1) /\ call' = [call EXCEPT !.size = call.size - 1]
     ELSE UNCHANGED arrays /\ call' = [call EXCEPT !.pos = call.pos + 1]
  /\ UNCHANGED <<regs, saved, answer>>

\* remove_if, after the loop: write size, and recompute both bounds unless empty.
PositionLoopEnds ==
  /\ call.loop = "positions"
  /\ call.pos >= call.size
  /\ LET left == Present(call.size)
     IN  IF call.size = regs.size THEN UNCHANGED regs
         ELSE regs' = IF call.size = 0 THEN [regs EXCEPT !.size = 0]
                      ELSE [size |-> call.size, min |-> Least(left), max |-> Greatest(left)]
  /\ Return(IF call.size = regs.size THEN "unchanged" ELSE "changed")
  /\ UNCHANGED <<arrays, saved>>

\* push_level and pop_level of the trail.
OpenLevel ==
  /\ call = Idle
  /\ Len(saved) < MaxLevels
  /\ saved' = Append(saved, regs)
  /\ UNCHANGED <<arrays, regs, call, answer>>

CloseLevel ==
  /\ call = Idle
  /\ saved # <<>>
  /\ regs' = saved[Len(saved)]
  /\ saved' = SubSeq(saved, 1, Len(saved) - 1)
  /\ UNCHANGED <<arrays, call, answer>>

SparseSetNext ==
  \/ \E v \in Inputs : Remove(v) \/ Fix(v) \/ RemoveBelow(v) \/ RemoveAbove(v)
  \/ ValueLoop \/ PositionLoop \/ PositionLoopEnds
  \/ OpenLevel \/ CloseLevel

SparseSetSpec == SparseSetInit /\ [][SparseSetNext]_sparseSetVars

-----------------------------------------------------------------------------
(* Properties.                                                             *)

Regs == [size : Nat, min : Int, max : Int]

SparseSetTypeOK ==
  /\ DOMAIN sparse \subseteq Int /\ DOMAIN dense = 0 .. Cardinality(DOMAIN sparse) - 1
  /\ dense \in [DOMAIN dense -> DOMAIN sparse]
  /\ sparse \in [DOMAIN sparse -> DOMAIN dense]
  /\ regs \in Regs
  /\ saved \in Seq(Regs)
  /\ answer \in {"none", "changed", "unchanged", "inconsistent"}
  /\ call.loop \in {"idle", "values", "positions"}

ArraysAreInverse ==
  /\ \A p \in DOMAIN dense : sparse[dense[p]] = p
  /\ \A v \in DOMAIN sparse : dense[sparse[v]] = v

TightBounds(r) ==
  r.size > 0 => r.min = Least(Present(r.size)) /\ r.max = Greatest(Present(r.size))
BoundsAreExact ==
  /\ call.loop # "positions" => TightBounds(regs)
  /\ \A k \in DOMAIN saved : TightBounds(saved[k])

\* dense and sparse are inverse permutations at every point of every loop, so a
\* swap never loses or duplicates a value; and whenever the caller can look, and
\* in every copy a pop can bring back, min and max are the extremes of the set
\* that the copy's size delimits ("meaningful only while size > 0").
RepresentationInv == SparseSetTypeOK /\ ArraysAreInverse /\ BoundsAreExact

\* What the caller is promised: a whole removal loop is one step, taken when it
\* starts, and the sizes alone tell which values a saved level will bring back.
PromisedValues == IF call = Idle THEN PresentValues ELSE {v \in PresentValues : ~Doomed(call, v)}
PromisedSaved  == [k \in DOMAIN saved |-> Present(saved[k].size)]
PromisedAnswer == IF call = Idle THEN answer ELSE "changed"
=============================================================================
