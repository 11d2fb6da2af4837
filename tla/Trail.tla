------------------------------- MODULE Trail -------------------------------
(***************************************************************************)
(* The trail-based state manager: src/trail.rs.                            *)
(*                                                                         *)
(* Reversible integers live in one array.  A write is logged once per level*)
(* incarnation, recognised by an epoch stamp; pop_level replays the log    *)
(* backwards to the mark of the level.  The operators work on a record, so *)
(* that the modules of the structures kept on a trail can compose them.    *)
(***************************************************************************)
EXTENDS Integers, Sequences

CONSTANTS
  Cells,       \* names of the reversible integers that may be allocated
  Values,      \* the integers they may hold
  MaxEpochs    \* bound on the number of levels ever opened

ASSUME TrailAssumption == MaxEpochs \in Nat

(***************************************************************************)
(* A name with a defect after an underscore is a deliberately wrong variant*)
(* of the operator, against which the properties are tested.               *)
(***************************************************************************)
VARIABLE trail
vars == <<trail>>

NewTrail ==
  [values |-> [c \in {} |-> 0], epochs |-> [c \in {} |-> 0], log |-> <<>>,
   levels |-> <<>>, cur_epoch |-> 0, next_epoch |-> 0]

Allocated(t) == DOMAIN t.values
Level(t) == Len(t.levels)
Get(t, c) == t.values[c]

Extend(f, c, v) == [d \in DOMAIN f \cup {c} |-> IF d = c THEN v ELSE f[d]]

\* new_int: the stamp 0 is the root's epoch.
NewInt(t, c, v) ==
  [t EXCEPT !.values = Extend(t.values, c, v), !.epochs = Extend(t.epochs, c, 0)]

SetCell_LogsByLevel(t, c, v) ==
  IF t.values[c] = v THEN t
  ELSE IF t.epochs[c] = Level(t) THEN [t EXCEPT !.values[c] = v]
  ELSE [t EXCEPT !.values[c] = v, !.epochs[c] = Level(t),
                 !.log = Append(t.log, [cell |-> c, old |-> t.values[c]])]

\* set: an unchanged value is not logged, a changed one is logged only when its
\* stamp is not the current epoch.
SetCell(t, c, v) ==
  IF t.values[c] = v THEN t
  ELSE IF t.epochs[c] = t.cur_epoch THEN [t EXCEPT !.values[c] = v]
  ELSE [t EXCEPT !.values[c] = v, !.epochs[c] = t.cur_epoch,
                 !.log = Append(t.log, [cell |-> c, old |-> t.values[c]])]

PushLevel(t) ==
  [t EXCEPT !.next_epoch = t.next_epoch + 1, !.cur_epoch = t.next_epoch + 1,
            !.levels = Append(t.levels, [mark |-> Len(t.log), epoch |-> t.next_epoch + 1])]

\* Replaying the log backwards down to mark leaves in every cell the value held
\* by its EARLIEST entry above the mark.
EntriesAbove(log, mark, c) == {i \in DOMAIN log : i > mark /\ log[i].cell = c}
Earliest(S) == CHOOSE i \in S : \A j \in S : i <= j

Undo(values, log, mark) ==
  [c \in DOMAIN values |->
     LET E == EntriesAbove(log, mark, c)
     IN  IF E = {} THEN values[c] ELSE log[Earliest(E)].old]

PopLevel_KeepsEpoch(t) ==
  LET n    == Level(t)
      mark == t.levels[n].mark
  IN  [t EXCEPT !.values = Undo(t.values, t.log, mark),
                !.log = SubSeq(t.log, 1, mark),
                !.levels = SubSeq(t.levels, 1, n - 1)]

PopLevel(t) ==
  LET n    == Level(t)
      mark == t.levels[n].mark
  IN  [t EXCEPT !.values = Undo(t.values, t.log, mark),
                !.log = SubSeq(t.log, 1, mark),
                !.levels = SubSeq(t.levels, 1, n - 1),
                !.cur_epoch = IF n = 1 THEN 0 ELSE t.levels[n - 1].epoch]

-----------------------------------------------------------------------------
(* The trail on its own: any client.                                       *)

Init == trail = NewTrail

\* "Not reversible; do it at the root, before search."
Allocate ==
  /\ trail.levels = <<>>
  /\ \E c \in Cells \ Allocated(trail), v \in Values : trail' = NewInt(trail, c, v)

Write == \E c \in Allocated(trail), v \in Values : trail' = SetCell(trail, c, v)

Push ==
  /\ trail.next_epoch < MaxEpochs
  /\ trail' = PushLevel(trail)

Pop ==
  /\ trail.levels # <<>>
  /\ trail' = PopLevel(trail)

Next == Allocate \/ Write \/ Push \/ Pop
Spec == Init /\ [][Next]_vars

-----------------------------------------------------------------------------
(* Properties.                                                             *)

LevelMark == [mark : Nat, epoch : Nat]

IsTrail(t) ==
  /\ t = [values |-> t.values, epochs |-> t.epochs, log |-> t.log,
          levels |-> t.levels, cur_epoch |-> t.cur_epoch, next_epoch |-> t.next_epoch]
  /\ t.values \in [Allocated(t) -> Values]
  /\ t.epochs \in [Allocated(t) -> Nat]
  /\ t.log \in Seq([cell : Allocated(t), old : Values])
  /\ t.levels \in Seq(LevelMark)
  /\ t.cur_epoch \in Nat
  /\ t.next_epoch \in Nat

MarkAfter(t, k) == IF k = Len(t.levels) THEN Len(t.log) ELSE t.levels[k + 1].mark

FreshEpochs(t) ==
  /\ \A c \in Allocated(t) : t.epochs[c] <= t.next_epoch
  /\ \A k \in DOMAIN t.levels : t.levels[k].epoch \in 1 .. t.next_epoch
  /\ \A j, k \in DOMAIN t.levels : j < k => t.levels[j].epoch < t.levels[k].epoch
  /\ t.cur_epoch = IF t.levels = <<>> THEN 0 ELSE t.levels[Len(t.levels)].epoch

OrderedMarks(t) ==
  /\ \A k \in DOMAIN t.levels : t.levels[k].mark <= Len(t.log)
  /\ \A j, k \in DOMAIN t.levels : j < k => t.levels[j].mark <= t.levels[k].mark

LoggedStamps(t) ==
  \A k \in DOMAIN t.levels, c \in Allocated(t) :
    t.epochs[c] = t.levels[k].epoch =>
      \E i \in DOMAIN t.log :
        t.levels[k].mark < i /\ i <= MarkAfter(t, k) /\ t.log[i].cell = c

WellFormed(t) == IsTrail(t) /\ FreshEpochs(t) /\ OrderedMarks(t) /\ LoggedStamps(t)

\* The store that closing level k would bring back, for every open level.
SavedStores(t) ==
  [k \in DOMAIN t.levels |-> Undo(t.values, t.log, t.levels[k].mark)]

TypeOK == IsTrail(trail) /\ Allocated(trail) \subseteq Cells

\* The inductive invariant.  "Monotonic epoch source; never reused"
\* (trail.rs:32): the open levels carry increasing epochs and no stamp is from
\* the future, so the stamp of a popped level cannot pass for the present one.
\* The stamp of an open level means what it claims: the cell's value at that
\* level's entry is in the level's segment of the log, so a write that is not
\* logged can still be undone.
TrailInv == TypeOK /\ WellFormed(trail)

\* pop_level undoes "every change made since the matching push_level"
\* (trail.rs:78), whatever was written, saved and restored in between: the
\* trail implements a stack of whole copies.
Snapshots == INSTANCE ReversibleState WITH
               current <- trail.values, saved <- SavedStores(trail)
ImplementsSnapshots == Snapshots!Spec
=============================================================================
