---------------------------- MODULE StorageProofs ----------------------------
(***************************************************************************)
(* Proofs about the reversible storage, for any cells, values, universe,   *)
(* inputs and number of levels: the epoch-deduplicated log of Trail        *)
(* implements a stack of whole copies, and a domain of IntDomain, in each  *)
(* of its layouts, implements a set with a stack of saved sets although    *)
(* only its trailed integers are restored.                                 *)
(***************************************************************************)
EXTENDS Trail, IntDomain, FiniteSetTheorems, WellFoundedInduction, TLAPS

-----------------------------------------------------------------------------
(* Numbers and sequences.                                                  *)

\* A non-empty set of naturals has a least element, from the library's fact that
\* the order of the naturals is well founded.
LEMMA LeastByOrder ==
  ASSUME NEW S \in SUBSET Nat, S # {},
         NEW R, IsWellFoundedOn(R, Nat), \A i, j \in Nat : <<j, i>> \in R <=> j < i
  PROVE  \E i \in S : \A j \in S : i <= j
<1>1. PICK i \in S : \A j \in S : ~(<<j, i>> \in R)
  BY WFMin, Zenon
<1>2. \A j \in S : i \in Nat /\ j \in Nat /\ ~(<<j, i>> \in R)
  BY <1>1
<1>3. \A j \in S : ~(j < i)
  BY <1>2, Zenon
<1>4. \A j \in S : i <= j
  BY <1>2, <1>3, SMT
<1>5. QED
  BY <1>4

\* The same, without naming the relation.
LEMMA LeastNatural ==
  ASSUME NEW S \in SUBSET Nat, S # {}
  PROVE  \E i \in S : \A j \in S : i <= j
<1>1. \A i, j \in Nat : <<j, i>> \in OpToRel(<, Nat) <=> j < i
  BY SMT DEF OpToRel
<1>2. QED
  BY <1>1, NatLessThanWellFounded, LeastByOrder, Zenon

\* The facts about sequences that the operators below rely on.
LEMMA SeqFacts ==
  ASSUME NEW S, NEW s \in Seq(S)
  PROVE  /\ Len(s) \in Nat /\ DOMAIN s = 1 .. Len(s)
         /\ \A i \in DOMAIN s : s[i] \in S
         /\ \A n \in 0 .. Len(s) :
              /\ SubSeq(s, 1, n) \in Seq(S) /\ Len(SubSeq(s, 1, n)) = n
              /\ DOMAIN SubSeq(s, 1, n) = 1 .. n
              /\ \A i \in 1 .. n : SubSeq(s, 1, n)[i] = s[i]
         /\ \A e \in S :
              /\ Append(s, e) \in Seq(S) /\ Len(Append(s, e)) = Len(s) + 1
              /\ DOMAIN Append(s, e) = 1 .. Len(s) + 1
              /\ \A i \in 1 .. Len(s) : Append(s, e)[i] = s[i]
              /\ Append(s, e)[Len(s) + 1] = e
OBVIOUS

\* f is a function with the indices of a sequence of n elements.
IsMap(f, n) == f = [k \in 1 .. n |-> f[k]]

\* A function over 1 .. n + 1 is a sequence with a last element.
LEMMA AppendToFunction ==
  ASSUME NEW n \in Nat, NEW f, IsMap(f, n), NEW g, IsMap(g, n + 1),
         \A k \in 1 .. n : g[k] = f[k]
  PROVE  g = Append(f, g[n + 1])
<1> DEFINE T == {g[k] : k \in 1 .. n + 1}
<1>1. f \in Seq(T) /\ Len(f) = n /\ g \in Seq(T) /\ Len(g) = n + 1
  <2>0. /\ \A k \in 1 .. n + 1 : g[k] \in T
        /\ \A k \in 1 .. n : k \in 1 .. n + 1
    OBVIOUS
  <2>1. f \in [1 .. n -> T] /\ g \in [1 .. n + 1 -> T]
    BY <2>0 DEF IsMap
  <2> HIDE DEF T
  <2>2. QED
    BY <2>1
<1>2. g[n + 1] \in T
  OBVIOUS
<1> HIDE DEF T
<1>3. /\ Append(f, g[n + 1]) \in Seq(T) /\ Len(Append(f, g[n + 1])) = n + 1
      /\ \A k \in 1 .. n : Append(f, g[n + 1])[k] = f[k]
      /\ Append(f, g[n + 1])[n + 1] = g[n + 1]
  BY <1>1, <1>2, SeqFacts
<1>4. QED
  BY <1>1, <1>3

\* Cutting the last element off a function over 1 .. h + 1.
LEMMA PrefixOfFunction ==
  ASSUME NEW h \in Nat, NEW f, IsMap(f, h + 1), NEW g, IsMap(g, h), \A k \in 1 .. h : g[k] = f[k]
  PROVE  g = SubSeq(f, 1, h)
<1> DEFINE T == {f[k] : k \in 1 .. h + 1}
<1>1. /\ \A k \in 1 .. h + 1 : f[k] \in T
      /\ \A k \in 1 .. h : k \in 1 .. h + 1
  OBVIOUS
<1>2. f \in [1 .. h + 1 -> T] /\ g \in [1 .. h -> T]
  BY <1>1 DEF IsMap
<1> HIDE DEF T
<1>3. /\ f \in Seq(T) /\ Len(f) = h + 1 /\ g \in Seq(T) /\ Len(g) = h
      /\ DOMAIN g = 1 .. h /\ h \in 0 .. Len(f)
  BY <1>2
<1> DEFINE p == SubSeq(f, 1, h)
<1>4. p = SubSeq(f, 1, h) /\ h <= Len(f) /\ f \in Seq(T)
  BY <1>3
<1> HIDE DEF p
<1>5. p \in Seq(T) /\ Len(p) = h /\ \A k \in 1 .. h : p[k] = f[k]
  BY <1>4
<1>6. \A k \in 1 .. h : g[k] = p[k]
  BY <1>5
<1>7. p \in Seq(T) /\ g \in Seq(T) /\ Len(p) = Len(g) /\ Len(g) = h
  BY <1>3, <1>5
<1>8. g = p
  BY <1>6, <1>7
<1>9. QED
  BY <1>8 DEF p

-----------------------------------------------------------------------------
(* What Undo computes.                                                     *)

LogOver(D) == Seq([cell : D, old : Values])
IsFirst(log, mark, c, i) ==
  i \in EntriesAbove(log, mark, c) /\ \A j \in EntriesAbove(log, mark, c) : i <= j

\* The element Earliest picks is the least one.
LEMMA EarliestIsLeast ==
  ASSUME NEW S \in SUBSET Nat, S # {}
  PROVE  Earliest(S) \in S /\ \A j \in S : Earliest(S) <= j
BY LeastNatural DEF Earliest

\* A cell without an entry above the mark keeps its value, any other cell gets
\* back what its first entry above the mark recorded.
LEMMA UndoAtACell ==
  ASSUME NEW D, NEW values \in [D -> Values], NEW log \in LogOver(D), NEW mark \in Nat,
         NEW c \in D
  PROVE  /\ EntriesAbove(log, mark, c) = {} => Undo(values, log, mark)[c] = values[c]
         /\ EntriesAbove(log, mark, c) # {} => \E i \in DOMAIN log : IsFirst(log, mark, c, i)
         /\ \A i : IsFirst(log, mark, c, i) => Undo(values, log, mark)[c] = log[i].old
<1> DEFINE E == EntriesAbove(log, mark, c)
<1>1. E \subseteq DOMAIN log /\ DOMAIN log \subseteq Nat
  BY DEF EntriesAbove, LogOver
<1>2. Undo(values, log, mark)[c] = IF E = {} THEN values[c] ELSE log[Earliest(E)].old
  BY DEF Undo
<1>3. E # {} => IsFirst(log, mark, c, Earliest(E))
  BY <1>1, EarliestIsLeast DEF IsFirst
<1>4. ASSUME NEW i, IsFirst(log, mark, c, i)
      PROVE  Undo(values, log, mark)[c] = log[i].old
  <2>1. E # {} /\ Earliest(E) \in E /\ i \in E /\ Earliest(E) <= i /\ i <= Earliest(E)
    BY <1>1, <1>3, <1>4 DEF IsFirst
  <2>2. i = Earliest(E)
    BY <2>1, <1>1
  <2>3. QED
    BY <1>2, <2>1, <2>2
<1>5. QED
  BY <1>1, <1>2, <1>3, <1>4 DEF IsFirst

\* Undo yields a store of the same cells.
LEMMA UndoType ==
  ASSUME NEW D, NEW values \in [D -> Values], NEW log \in LogOver(D), NEW mark \in Nat
  PROVE  Undo(values, log, mark) \in [D -> Values]
<1>1. ASSUME NEW c \in D PROVE Undo(values, log, mark)[c] \in Values
  <2>1. CASE EntriesAbove(log, mark, c) = {}
    BY <2>1, UndoAtACell
  <2>2. CASE EntriesAbove(log, mark, c) # {}
    <3>1. PICK i \in DOMAIN log : IsFirst(log, mark, c, i)
      BY <2>2, UndoAtACell
    <3>2. log[i] \in [cell : D, old : Values]
      BY SeqFacts DEF LogOver
    <3>3. QED
      BY <3>1, <3>2, UndoAtACell
  <2>3. QED
    BY <2>1, <2>2
<1>2. QED
  BY <1>1 DEF Undo

\* Undoing an empty segment changes nothing.
LEMMA UndoNothing ==
  ASSUME NEW D, NEW values \in [D -> Values], NEW log \in LogOver(D)
  PROVE  Undo(values, log, Len(log)) = values
<1>0. Len(log) \in Nat /\ DOMAIN log = 1 .. Len(log)
  BY SeqFacts DEF LogOver
<1>1. \A c \in D : EntriesAbove(log, Len(log), c) = {}
  BY <1>0 DEF EntriesAbove
<1>2. \A c \in D : Undo(values, log, Len(log))[c] = values[c]
  BY <1>0, <1>1, UndoAtACell
<1>3. Undo(values, log, Len(log)) \in [D -> Values]
  BY <1>0, UndoType
<1>4. QED
  BY <1>2, <1>3

\* Undoing to one mark and then to an earlier one is undoing to the earlier one.
LEMMA UndoComposes ==
  ASSUME NEW D, NEW values \in [D -> Values], NEW log \in LogOver(D),
         NEW high \in 0 .. Len(log), NEW low \in 0 .. high
  PROVE  Undo(Undo(values, log, high), SubSeq(log, 1, high), low) = Undo(values, log, low)
<1> DEFINE mid == Undo(values, log, high)
           rest == SubSeq(log, 1, high)
<1>1. /\ rest \in LogOver(D) /\ Len(rest) = high
      /\ \A i \in 1 .. high : rest[i] = log[i]
      /\ DOMAIN rest = 1 .. high /\ DOMAIN log = 1 .. Len(log) /\ Len(log) \in Nat
  <2> DEFINE S == [cell : D, old : Values]
  <2>1. log \in Seq(S) /\ LogOver(D) = Seq(S)
    BY DEF LogOver
  <2> HIDE DEF S
  <2>2. QED
    BY <2>1, SeqFacts
<1>2. mid \in [D -> Values]
  BY UndoType
<1> HIDE DEF rest, mid
<1>3. ASSUME NEW c \in D
      PROVE  Undo(mid, rest, low)[c] = Undo(values, log, low)[c]
  <2>1. EntriesAbove(rest, low, c) = {i \in EntriesAbove(log, low, c) : i <= high}
    BY <1>1 DEF EntriesAbove
  <2>2. EntriesAbove(log, high, c) = {i \in EntriesAbove(log, low, c) : i > high}
    BY <1>1 DEF EntriesAbove
  <2>3. CASE EntriesAbove(rest, low, c) = {}
    <3>1. EntriesAbove(log, low, c) = EntriesAbove(log, high, c)
      BY <2>1, <2>2, <2>3, <1>1 DEF EntriesAbove
    <3>2. Undo(mid, rest, low)[c] = mid[c]
      BY <2>3, <1>1, <1>2, UndoAtACell
    <3>3. Undo(values, log, low)[c] = Undo(values, log, high)[c]
      BY <3>1 DEF Undo
    <3>4. QED
      BY <3>2, <3>3 DEF mid
  <2>4. CASE EntriesAbove(rest, low, c) # {}
    <3>1. PICK i \in DOMAIN rest : IsFirst(rest, low, c, i)
      BY <2>4, <1>1, <1>2, UndoAtACell
    <3>2. IsFirst(log, low, c, i)
      BY <3>1, <2>1, <1>1 DEF IsFirst, EntriesAbove
    <3>3. Undo(mid, rest, low)[c] = rest[i].old
      BY <3>1, <1>1, <1>2, UndoAtACell
    <3>4. Undo(values, log, low)[c] = log[i].old
      BY <3>2, UndoAtACell
    <3>5. QED
      BY <3>1, <3>3, <3>4, <1>1
  <2>5. QED
    BY <2>3, <2>4
<1>4. /\ Undo(mid, rest, low) \in [D -> Values]
      /\ Undo(values, log, low) \in [D -> Values]
  BY <1>1, <1>2, UndoType
<1>5. QED
  BY <1>3, <1>4 DEF mid, rest

-----------------------------------------------------------------------------
(* The operations on a well-formed trail.                                  *)

EntryOf(t) == [cell : Allocated(t), old : Values]

\* The types of the parts of a trail.
LEMMA TrailFacts ==
  ASSUME NEW t, IsTrail(t)
  PROVE  /\ t.log \in Seq(EntryOf(t)) /\ t.log \in LogOver(Allocated(t))
         /\ Len(t.log) \in Nat /\ DOMAIN t.log = 1 .. Len(t.log)
         /\ \A i \in DOMAIN t.log : t.log[i].cell \in Allocated(t) /\ t.log[i].old \in Values
         /\ Len(t.levels) \in Nat /\ DOMAIN t.levels = 1 .. Len(t.levels)
         /\ t.levels = <<>> <=> Len(t.levels) = 0
         /\ \A k \in DOMAIN t.levels :
              /\ t.levels[k] = [mark |-> t.levels[k].mark, epoch |-> t.levels[k].epoch]
              /\ t.levels[k].mark \in Nat /\ t.levels[k].epoch \in Nat
         /\ \A c \in Allocated(t) : t.values[c] \in Values /\ t.epochs[c] \in Nat
<1>1. t.log \in Seq(EntryOf(t)) /\ t.levels \in Seq(LevelMark)
  BY DEF IsTrail, EntryOf
<1>2. /\ Len(t.log) \in Nat /\ DOMAIN t.log = 1 .. Len(t.log)
      /\ \A i \in DOMAIN t.log : t.log[i] \in EntryOf(t)
  BY <1>1, SeqFacts
<1>3. /\ Len(t.levels) \in Nat /\ DOMAIN t.levels = 1 .. Len(t.levels)
      /\ \A k \in DOMAIN t.levels : t.levels[k] \in LevelMark
      /\ t.levels = <<>> <=> Len(t.levels) = 0
  BY <1>1, SeqFacts
<1>4. \A k \in DOMAIN t.levels :
        /\ t.levels[k] = [mark |-> t.levels[k].mark, epoch |-> t.levels[k].epoch]
        /\ t.levels[k].mark \in Nat /\ t.levels[k].epoch \in Nat
  BY <1>3 DEF LevelMark
<1>5. \A i \in DOMAIN t.log : t.log[i].cell \in Allocated(t) /\ t.log[i].old \in Values
  BY <1>2 DEF EntryOf
<1>6. \A c \in Allocated(t) : t.values[c] \in Values /\ t.epochs[c] \in Nat
  BY DEF IsTrail
<1>7. QED
  BY <1>1, <1>2, <1>3, <1>4, <1>5, <1>6 DEF LogOver, EntryOf

\* Allocating a cell at the root.
LEMMA NewIntIsSound ==
  ASSUME NEW t, WellFormed(t), t.levels = <<>>,
         NEW c, c \notin Allocated(t), NEW v \in Values
  PROVE  /\ WellFormed(NewInt(t, c, v))
         /\ Allocated(NewInt(t, c, v)) = Allocated(t) \cup {c}
         /\ NewInt(t, c, v).values = Extend(t.values, c, v)
         /\ NewInt(t, c, v).levels = <<>>
<1> DEFINE u == NewInt(t, c, v)
<1>1. IsTrail(t)
  BY DEF WellFormed
<1>2. /\ u = [values |-> Extend(t.values, c, v), epochs |-> Extend(t.epochs, c, 0),
              log |-> t.log, levels |-> t.levels,
              cur_epoch |-> t.cur_epoch, next_epoch |-> t.next_epoch]
  <2>1. /\ u.values = Extend(t.values, c, v) /\ u.epochs = Extend(t.epochs, c, 0)
        /\ u.log = t.log /\ u.levels = t.levels
        /\ u.cur_epoch = t.cur_epoch /\ u.next_epoch = t.next_epoch
    BY <1>1 DEF NewInt, IsTrail
  <2>2. u = [values |-> u.values, epochs |-> u.epochs, log |-> u.log, levels |-> u.levels,
             cur_epoch |-> u.cur_epoch, next_epoch |-> u.next_epoch]
    <3>1. DOMAIN t = {"values", "epochs", "log", "levels", "cur_epoch", "next_epoch"}
      BY <1>1 DEF IsTrail
    <3>2. u = [x \in DOMAIN t |-> u[x]]
      BY <1>1 DEF NewInt, IsTrail
    <3>3. QED
      BY <3>1, <3>2
  <2>3. QED
    BY <2>1, <2>2
<1> HIDE DEF u
<1>3. Allocated(u) = Allocated(t) \cup {c}
  BY <1>2 DEF Allocated, Extend
<1>4. u.values \in [Allocated(u) -> Values] /\ u.epochs \in [Allocated(u) -> Nat]
  BY <1>1, <1>2, <1>3, TrailFacts DEF Extend, IsTrail, Allocated
<1>5. u.log \in Seq(EntryOf(u))
  <2>1. EntryOf(t) \subseteq EntryOf(u)
    BY <1>3 DEF EntryOf
  <2>2. QED
    BY <2>1, <1>1, <1>2, TrailFacts
<1>6. IsTrail(u)
  BY <1>1, <1>2, <1>4, <1>5 DEF IsTrail, EntryOf
<1>7. FreshEpochs(u)
  <2>1. \A d \in Allocated(u) : u.epochs[d] <= u.next_epoch
    BY <1>1, <1>2, <1>3 DEF WellFormed, FreshEpochs, IsTrail, Extend, Allocated
  <2>2. QED
    BY <2>1, <1>2 DEF WellFormed, FreshEpochs
<1>8. OrderedMarks(u) /\ LoggedStamps(u)
  BY <1>2 DEF OrderedMarks, LoggedStamps
<1>9. QED
  BY <1>2, <1>3, <1>6, <1>7, <1>8 DEF WellFormed, u

\* Opening a level saves the store as it is.
LEMMA PushLevelIsSound ==
  ASSUME NEW t, WellFormed(t)
  PROVE  /\ WellFormed(PushLevel(t))
         /\ PushLevel(t).values = t.values
         /\ SavedStores(PushLevel(t)) = Append(SavedStores(t), t.values)
         /\ Len(PushLevel(t).levels) = Len(t.levels) + 1
<1> DEFINE u == PushLevel(t)
           n == Len(t.levels)
           e == t.next_epoch + 1
           new == [mark |-> Len(t.log), epoch |-> e]
<1>1. IsTrail(t)
  BY DEF WellFormed
<1>2. u = [values |-> t.values, epochs |-> t.epochs, log |-> t.log,
           levels |-> Append(t.levels, new), cur_epoch |-> e, next_epoch |-> e]
  <2>1. /\ u.values = t.values /\ u.epochs = t.epochs /\ u.log = t.log
        /\ u.levels = Append(t.levels, new) /\ u.cur_epoch = e /\ u.next_epoch = e
    BY <1>1 DEF PushLevel, IsTrail
  <2>2. u = [values |-> u.values, epochs |-> u.epochs, log |-> u.log, levels |-> u.levels,
             cur_epoch |-> u.cur_epoch, next_epoch |-> u.next_epoch]
    <3>1. DOMAIN t = {"values", "epochs", "log", "levels", "cur_epoch", "next_epoch"}
      BY <1>1 DEF IsTrail
    <3>2. u = [x \in DOMAIN t |-> u[x]]
      BY <1>1 DEF PushLevel, IsTrail
    <3>3. QED
      BY <3>1, <3>2
  <2>3. QED
    BY <2>1, <2>2
<1>3. /\ t.levels \in Seq(LevelMark) /\ n \in Nat /\ DOMAIN t.levels = 1 .. n
      /\ t.next_epoch \in Nat /\ e \in Nat /\ new \in LevelMark
      /\ new.mark = Len(t.log) /\ new.epoch = e
  BY <1>1, TrailFacts DEF IsTrail, LevelMark
<1>4. /\ u.levels \in Seq(LevelMark) /\ Len(u.levels) = n + 1 /\ DOMAIN u.levels = 1 .. n + 1
      /\ \A k \in 1 .. n : u.levels[k] = t.levels[k]
      /\ u.levels[n + 1] = new
  BY <1>2, <1>3, SeqFacts
<1>5. Allocated(u) = Allocated(t)
  BY <1>2 DEF Allocated
<1> HIDE DEF u, n, new, e
<1>6. IsTrail(u)
  BY <1>1, <1>2, <1>3, <1>4, <1>5 DEF IsTrail
<1>7. FreshEpochs(u)
  <2>1. \A k \in 1 .. n : t.levels[k].epoch \in 1 .. t.next_epoch
    BY <1>3 DEF WellFormed, FreshEpochs
  <2>2. \A d \in Allocated(u) : u.epochs[d] <= u.next_epoch
    BY <1>1, <1>2, <1>3, <1>5, TrailFacts DEF WellFormed, FreshEpochs, e
  <2>3. \A k \in DOMAIN u.levels : u.levels[k].epoch \in 1 .. u.next_epoch
    BY <2>1, <1>2, <1>3, <1>4 DEF e
  <2>4. \A j, k \in DOMAIN u.levels : j < k => u.levels[j].epoch < u.levels[k].epoch
    <3>1. SUFFICES ASSUME NEW j \in 1 .. n + 1, NEW k \in 1 .. n + 1, j < k
                   PROVE  u.levels[j].epoch < u.levels[k].epoch
      BY <1>4
    <3>2. CASE k = n + 1
      <4>1. j \in 1 .. n /\ u.levels[j] = t.levels[j] /\ u.levels[k] = new
        BY <3>1, <3>2, <1>3, <1>4
      <4>2. t.levels[j].epoch \in 1 .. t.next_epoch /\ u.levels[k].epoch = e
        BY <4>1, <2>1, <1>3
      <4>3. QED
        BY <4>1, <4>2, <1>3 DEF e
    <3>3. CASE k # n + 1
      <4>1. j \in DOMAIN t.levels /\ k \in DOMAIN t.levels
        BY <3>1, <3>3, <1>3
      <4>2. QED
        BY <4>1, <3>1, <1>3, <1>4 DEF WellFormed, FreshEpochs
    <3>4. QED
      BY <3>2, <3>3
  <2>5. u.cur_epoch = u.levels[n + 1].epoch
    BY <1>2, <1>3, <1>4
  <2>6. u.levels # <<>> /\ Len(u.levels) = n + 1
    BY <1>3, <1>4
  <2>7. QED
    BY <2>2, <2>3, <2>4, <2>5, <2>6 DEF FreshEpochs
<1>8. OrderedMarks(u)
  <2>1. \A k \in 1 .. n : t.levels[k].mark <= Len(t.log)
    BY <1>3 DEF WellFormed, OrderedMarks
  <2>2. \A j, k \in 1 .. n : j < k => t.levels[j].mark <= t.levels[k].mark
    BY <1>3 DEF WellFormed, OrderedMarks
  <2>3. Len(t.log) \in Nat /\ u.log = t.log
    BY <1>1, <1>2, TrailFacts
  <2>4. \A k \in 1 .. n + 1 : u.levels[k].mark <= Len(u.log)
    BY <2>1, <2>3, <1>3, <1>4
  <2>5. \A j, k \in 1 .. n + 1 : j < k => u.levels[j].mark <= u.levels[k].mark
    BY <2>1, <2>2, <2>3, <1>3, <1>4
  <2>6. QED
    BY <2>4, <2>5, <1>4 DEF OrderedMarks
<1>9. LoggedStamps(u)
  <2>1. SUFFICES ASSUME NEW k \in 1 .. n + 1, NEW c \in Allocated(t),
                        u.epochs[c] = u.levels[k].epoch
                 PROVE  \E i \in DOMAIN u.log :
                          /\ u.levels[k].mark < i /\ i <= MarkAfter(u, k)
                          /\ u.log[i].cell = c
    BY <1>4, <1>5 DEF LoggedStamps
  <2>2. k # n + 1
    BY <2>1, <1>1, <1>2, <1>3, <1>4, TrailFacts DEF WellFormed, FreshEpochs, e
  <2>3. k \in DOMAIN t.levels /\ t.epochs[c] = t.levels[k].epoch
    BY <2>1, <2>2, <1>2, <1>3, <1>4
  <2>4. PICK i \in DOMAIN t.log :
          t.levels[k].mark < i /\ i <= MarkAfter(t, k) /\ t.log[i].cell = c
    BY <2>3 DEF WellFormed, LoggedStamps
  <2>5. MarkAfter(u, k) = MarkAfter(t, k)
    BY <2>2, <2>3, <1>2, <1>3, <1>4 DEF MarkAfter, n, new
  <2>6. QED
    BY <2>2, <2>3, <2>4, <2>5, <1>2, <1>3, <1>4
<1>10. SavedStores(u) = Append(SavedStores(t), t.values)
  <2>1. SavedStores(u) = [k \in 1 .. n + 1 |-> Undo(t.values, t.log, u.levels[k].mark)]
    BY <1>2, <1>4 DEF SavedStores
  <2>2. SavedStores(t) = [k \in 1 .. n |-> Undo(t.values, t.log, t.levels[k].mark)]
    BY <1>3 DEF SavedStores
  <2>3. Undo(t.values, t.log, u.levels[n + 1].mark) = t.values
    <3>1. t.values \in [Allocated(t) -> Values] /\ t.log \in LogOver(Allocated(t))
      BY <1>1, TrailFacts DEF IsTrail
    <3>2. Undo(t.values, t.log, Len(t.log)) = t.values
      BY <3>1, UndoNothing
    <3>3. u.levels[n + 1].mark = Len(t.log)
      BY <1>3, <1>4
    <3>4. QED
      BY <3>2, <3>3
  <2>4. QED
    <3> DEFINE f == SavedStores(t)
               g == SavedStores(u)
    <3>1. IsMap(f, n) /\ IsMap(g, n + 1)
      BY <2>1, <2>2 DEF IsMap
    <3>2. \A k \in 1 .. n : g[k] = f[k]
      BY <2>1, <2>2, <1>3, <1>4
    <3>3. g[n + 1] = t.values
      BY <2>1, <2>3, <1>3
    <3> HIDE DEF f, g
    <3>4. g = Append(f, g[n + 1])
      BY <3>1, <3>2, <1>3, AppendToFunction
    <3>5. QED
      BY <3>3, <3>4 DEF f, g
<1>11. WellFormed(u) /\ u.values = t.values /\ Len(u.levels) = n + 1
  BY <1>2, <1>4, <1>6, <1>7, <1>8, <1>9 DEF WellFormed
<1>12. QED
  BY <1>10, <1>11 DEF u, n

\* Writing a cell: the store changes at that cell and no saved copy changes.
LEMMA SetCellIsSound ==
  ASSUME NEW t, WellFormed(t), NEW c \in Allocated(t), NEW v \in Values
  PROVE  /\ WellFormed(SetCell(t, c, v))
         /\ SetCell(t, c, v).values = [t.values EXCEPT ![c] = v]
         /\ SetCell(t, c, v).levels = t.levels
         /\ SavedStores(SetCell(t, c, v)) = SavedStores(t)
<1> DEFINE u == SetCell(t, c, v)
           n == Len(t.levels)
           old == [cell |-> c, old |-> t.values[c]]
           L == Len(t.log)
<1>1. IsTrail(t)
  BY DEF WellFormed
<1>2. /\ t.log \in LogOver(Allocated(t)) /\ L \in Nat /\ DOMAIN t.log = 1 .. L
      /\ n \in Nat /\ DOMAIN t.levels = 1 .. n
      /\ \A k \in 1 .. n : t.levels[k].mark \in Nat /\ t.levels[k].mark <= L
      /\ t.values \in [Allocated(t) -> Values] /\ t.epochs \in [Allocated(t) -> Nat]
      /\ old \in [cell : Allocated(t), old : Values]
  BY <1>1, TrailFacts DEF IsTrail, WellFormed, OrderedMarks
<1>3. CASE t.values[c] = v
  <2>1. SetCell(t, c, v) = t
    BY <1>3 DEF SetCell
  <2>2. [t.values EXCEPT ![c] = v] = t.values
    BY <1>2, <1>3
  <2>3. QED
    BY <2>1, <2>2
<1>4. CASE t.values[c] # v /\ t.epochs[c] = t.cur_epoch
  <2>1. u = [values |-> [t.values EXCEPT ![c] = v], epochs |-> t.epochs, log |-> t.log,
             levels |-> t.levels, cur_epoch |-> t.cur_epoch, next_epoch |-> t.next_epoch]
    BY <1>1, <1>4 DEF SetCell, IsTrail
  <2>2. Allocated(u) = Allocated(t)
    BY <2>1, <1>2 DEF Allocated
  <2> HIDE DEF u, n, old, L
  <2>3. IsTrail(u)
    BY <2>1, <2>2, <1>1, <1>2 DEF IsTrail
  <2>4. WellFormed(u)
    BY <2>1, <2>2, <2>3 DEF WellFormed, FreshEpochs, OrderedMarks, LoggedStamps, MarkAfter
  <2>5. ASSUME NEW k \in 1 .. n
        PROVE  Undo(u.values, u.log, u.levels[k].mark) = Undo(t.values, t.log, t.levels[k].mark)
    <3>1. t.epochs[c] = t.levels[n].epoch /\ n \in 1 .. n
      BY <1>4, <1>2, <1>1, TrailFacts DEF WellFormed, FreshEpochs, n
    <3>2. PICK i \in 1 .. L : t.levels[n].mark < i /\ t.log[i].cell = c
      BY <3>1, <1>2 DEF WellFormed, LoggedStamps
    <3>3. t.levels[k].mark <= t.levels[n].mark
      <4>1. k < n => t.levels[k].mark <= t.levels[n].mark
        BY <3>1, <1>2 DEF WellFormed, OrderedMarks
      <4>2. k \in 1 .. n /\ n \in Nat /\ t.levels[k].mark \in Nat
        BY <1>2
      <4>3. QED
        BY <4>1, <4>2
    <3>4. t.levels[k].mark < i
      BY <3>1, <3>2, <3>3, <1>2
    <3>5. EntriesAbove(t.log, t.levels[k].mark, c) # {}
      BY <3>2, <3>4, <1>2 DEF EntriesAbove
    <3>6. QED
      BY <3>5, <2>1, <1>2 DEF Undo
  <2>6. SavedStores(u) = SavedStores(t)
    BY <2>1, <2>5, <1>2 DEF SavedStores
  <2>7. QED
    BY <2>1, <2>4, <2>6 DEF u
<1>5. CASE t.values[c] # v /\ t.epochs[c] # t.cur_epoch
  <2>1. u = [values |-> [t.values EXCEPT ![c] = v], epochs |-> [t.epochs EXCEPT ![c] = t.cur_epoch],
             log |-> Append(t.log, old), levels |-> t.levels,
             cur_epoch |-> t.cur_epoch, next_epoch |-> t.next_epoch]
    <3>1. /\ u.values = [t.values EXCEPT ![c] = v]
          /\ u.epochs = [t.epochs EXCEPT ![c] = t.cur_epoch]
          /\ u.log = Append(t.log, old) /\ u.levels = t.levels
          /\ u.cur_epoch = t.cur_epoch /\ u.next_epoch = t.next_epoch
      BY <1>1, <1>5 DEF SetCell, IsTrail
    <3>2. DOMAIN t = {"values", "epochs", "log", "levels", "cur_epoch", "next_epoch"}
      BY <1>1 DEF IsTrail
    <3>3. u = [x \in DOMAIN t |-> u[x]]
      BY <1>1, <1>5 DEF SetCell, IsTrail
    <3>4. QED
      BY <3>1, <3>2, <3>3
  <2>2. Allocated(u) = Allocated(t)
    BY <2>1, <1>2 DEF Allocated
  <2>3. /\ u.log \in Seq([cell : Allocated(t), old : Values])
        /\ Len(u.log) = L + 1 /\ DOMAIN u.log = 1 .. L + 1
        /\ \A i \in 1 .. L : u.log[i] = t.log[i]
        /\ u.log[L + 1] = old /\ old.cell = c /\ old.old = t.values[c]
    BY <2>1, <1>2, SeqFacts DEF LogOver
  <2> HIDE DEF u, n, old, L
  <2>4. IsTrail(u)
    BY <2>1, <2>2, <2>3, <1>1, <1>2 DEF IsTrail
  <2>5. FreshEpochs(u)
    <3>1. t.cur_epoch <= t.next_epoch /\ t.cur_epoch \in Nat /\ t.next_epoch \in Nat
      BY <1>1, <1>2, TrailFacts DEF WellFormed, FreshEpochs, IsTrail, n
    <3>2. \A d \in Allocated(u) : u.epochs[d] <= u.next_epoch
      BY <3>1, <2>1, <2>2, <1>2 DEF WellFormed, FreshEpochs
    <3>3. QED
      BY <3>2, <2>1 DEF WellFormed, FreshEpochs
  <2>6. OrderedMarks(u)
    <3>1. \A k \in 1 .. n : u.levels[k].mark <= Len(u.log)
      BY <2>1, <2>3, <1>2
    <3>2. QED
      BY <3>1, <2>1, <1>2 DEF WellFormed, OrderedMarks
  <2>7. LoggedStamps(u)
    <3>1. SUFFICES ASSUME NEW k \in 1 .. n, NEW d \in Allocated(t),
                          u.epochs[d] = t.levels[k].epoch
                   PROVE  \E i \in DOMAIN u.log :
                            /\ t.levels[k].mark < i /\ i <= MarkAfter(u, k)
                            /\ u.log[i].cell = d
      <4>1. u.levels = t.levels /\ DOMAIN u.levels = 1 .. n /\ Allocated(u) = Allocated(t)
        BY <2>1, <2>2, <1>2
      <4>2. QED
        BY <4>1, Zenon DEF LoggedStamps
    <3>2. MarkAfter(u, k) = IF k = n THEN L + 1 ELSE t.levels[k + 1].mark
      BY <2>1, <2>3 DEF MarkAfter, n
    <3>3. CASE d = c
      <4>1. t.cur_epoch = t.levels[k].epoch
        BY <3>1, <3>3, <2>1, <1>2
      <4>2. t.cur_epoch = t.levels[n].epoch /\ n \in 1 .. n
        BY <1>1, <1>2, TrailFacts DEF WellFormed, FreshEpochs, n
      <4>3. k < n => t.levels[k].epoch < t.levels[n].epoch
        BY <4>2, <1>2 DEF WellFormed, FreshEpochs
      <4>4. t.levels[k].epoch \in Nat
        BY <1>1, <1>2, TrailFacts
      <4>5. k = n
        BY <4>1, <4>2, <4>3, <4>4, <1>2
      <4>6. t.levels[n].mark \in Nat /\ t.levels[n].mark < L + 1 /\ L + 1 \in 1 .. L + 1
        BY <4>2, <1>2
      <4>7. QED
        BY <4>5, <4>6, <3>2, <3>3, <2>3
    <3>4. CASE d # c
      <4>1. t.epochs[d] = t.levels[k].epoch
        BY <3>1, <3>4, <2>1, <1>2
      <4>2. PICK i \in 1 .. L :
              t.levels[k].mark < i /\ i <= MarkAfter(t, k) /\ t.log[i].cell = d
        BY <4>1, <1>2 DEF WellFormed, LoggedStamps
      <4>3. i <= MarkAfter(u, k)
        BY <4>2, <3>2, <1>2 DEF MarkAfter, n, L
      <4>4. i \in DOMAIN u.log /\ u.log[i] = t.log[i]
        BY <2>3, <1>2
      <4>5. QED
        BY <4>2, <4>3, <4>4
    <3>5. QED
      BY <3>3, <3>4
  <2>8. ASSUME NEW m \in Nat, m <= L
        PROVE  Undo(u.values, u.log, m) = Undo(t.values, t.log, m)
    <3>1. ASSUME NEW d \in Allocated(t)
          PROVE  Undo(u.values, u.log, m)[d] = Undo(t.values, t.log, m)[d]
      <4>0. /\ u.log \in LogOver(Allocated(t)) /\ u.values \in [Allocated(t) -> Values]
            /\ d # c => u.values[d] = t.values[d]
        BY <2>1, <2>3, <1>2 DEF LogOver
      <4>1. EntriesAbove(u.log, m, d) =
              EntriesAbove(t.log, m, d) \cup (IF d = c THEN {L + 1} ELSE {})
        BY <2>3, <2>8, <1>2 DEF EntriesAbove
      <4>2. CASE EntriesAbove(t.log, m, d) # {}
        <5>1. PICK i \in 1 .. L : IsFirst(t.log, m, d, i)
          BY <4>2, <1>2, UndoAtACell
        <5>2. IsFirst(u.log, m, d, i)
          BY <5>1, <4>1, <1>2 DEF IsFirst
        <5>3. Undo(u.values, u.log, m)[d] = u.log[i].old
          BY <5>2, <4>0, UndoAtACell
        <5>4. Undo(t.values, t.log, m)[d] = t.log[i].old
          BY <5>1, <1>2, UndoAtACell
        <5>5. QED
          BY <5>3, <5>4, <2>3
      <4>3. CASE EntriesAbove(t.log, m, d) = {} /\ d # c
        <5>1. EntriesAbove(u.log, m, d) = {}
          BY <4>1, <4>3
        <5>2. Undo(u.values, u.log, m)[d] = u.values[d]
          BY <5>1, <4>0, UndoAtACell
        <5>3. Undo(t.values, t.log, m)[d] = t.values[d]
          BY <4>3, <1>2 DEF Undo
        <5>4. QED
          BY <5>2, <5>3, <4>0, <4>3
      <4>4. CASE EntriesAbove(t.log, m, d) = {} /\ d = c
        <5>1. IsFirst(u.log, m, d, L + 1)
          BY <4>1, <4>4, <1>2 DEF IsFirst
        <5>2. Undo(u.values, u.log, m)[d] = u.log[L + 1].old
          BY <5>1, <4>0, UndoAtACell
        <5>3. Undo(t.values, t.log, m)[d] = t.values[d]
          BY <4>4, <1>2 DEF Undo
        <5>4. QED
          BY <5>2, <5>3, <4>4, <2>3
      <4>5. QED
        BY <4>2, <4>3, <4>4
    <3>2. /\ Undo(u.values, u.log, m) \in [Allocated(t) -> Values]
          /\ Undo(t.values, t.log, m) \in [Allocated(t) -> Values]
      BY <2>1, <2>3, <1>2, UndoType DEF LogOver
    <3>3. QED
      BY <3>1, <3>2
  <2>9. SavedStores(u) = SavedStores(t)
    BY <2>1, <2>8, <1>2 DEF SavedStores
  <2>10. QED
    BY <2>1, <2>4, <2>5, <2>6, <2>7, <2>9 DEF WellFormed, u
<1>6. QED
  BY <1>3, <1>4, <1>5

\* Closing a level brings back the copy saved when it was opened, and leaves the
\* copies of the outer levels as they were.
LEMMA PopLevelIsSound ==
  ASSUME NEW t, WellFormed(t), t.levels # <<>>
  PROVE  /\ WellFormed(PopLevel(t))
         /\ Allocated(PopLevel(t)) = Allocated(t)
         /\ SavedStores(t) # <<>>
         /\ PopLevel(t).values = SavedStores(t)[Len(SavedStores(t))]
         /\ SavedStores(PopLevel(t)) = SubSeq(SavedStores(t), 1, Len(SavedStores(t)) - 1)
<1> DEFINE u == PopLevel(t)
           n == Len(t.levels)
           h == n - 1
           L == Len(t.log)
           mark == t.levels[n].mark
           ep == IF n = 1 THEN 0 ELSE t.levels[n - 1].epoch
<1>1. IsTrail(t)
  BY DEF WellFormed
<1>2. /\ t.log \in LogOver(Allocated(t)) /\ L \in Nat /\ DOMAIN t.log = 1 .. L
      /\ n \in Nat \ {0} /\ n \in 1 .. n /\ h \in 0 .. n /\ h \in Nat /\ n = h + 1
      /\ DOMAIN t.levels = 1 .. n
      /\ \A k \in 1 .. n : /\ t.levels[k].mark \in Nat /\ t.levels[k].mark <= L
                           /\ t.levels[k].epoch \in Nat
      /\ t.values \in [Allocated(t) -> Values] /\ t.epochs \in [Allocated(t) -> Nat]
      /\ t.next_epoch \in Nat
  <2>1. t.levels = <<>> <=> n = 0
    BY <1>1, TrailFacts
  <2>2. t.log \in LogOver(Allocated(t)) /\ L \in Nat /\ DOMAIN t.log = 1 .. L
    BY <1>1, TrailFacts
  <2>3. n \in Nat /\ DOMAIN t.levels = 1 .. n
    BY <1>1, TrailFacts
  <2>4. n \in Nat \ {0} /\ n \in 1 .. n /\ h \in 0 .. n /\ h \in Nat /\ n = h + 1
    BY <2>1, <2>3
  <2>5. \A k \in 1 .. n : t.levels[k].mark \in Nat /\ t.levels[k].epoch \in Nat
    BY <2>3, <1>1, TrailFacts
  <2>6. \A k \in 1 .. n : t.levels[k].mark <= L
    BY <2>3 DEF WellFormed, OrderedMarks
  <2>7. /\ t.values \in [Allocated(t) -> Values] /\ t.epochs \in [Allocated(t) -> Nat]
        /\ t.next_epoch \in Nat
    BY <1>1 DEF IsTrail
  <2>8. QED
    BY <2>2, <2>3, <2>4, <2>5, <2>6, <2>7
<1>3. u = [values |-> Undo(t.values, t.log, mark), epochs |-> t.epochs,
           log |-> SubSeq(t.log, 1, mark), levels |-> SubSeq(t.levels, 1, h),
           cur_epoch |-> ep, next_epoch |-> t.next_epoch]
  <2>1. /\ u.values = Undo(t.values, t.log, mark) /\ u.epochs = t.epochs
        /\ u.log = SubSeq(t.log, 1, mark) /\ u.levels = SubSeq(t.levels, 1, h)
        /\ u.cur_epoch = ep /\ u.next_epoch = t.next_epoch
    BY <1>1 DEF PopLevel, IsTrail, Level
  <2>2. DOMAIN t = {"values", "epochs", "log", "levels", "cur_epoch", "next_epoch"}
    BY <1>1 DEF IsTrail
  <2>3. u = [x \in DOMAIN t |-> u[x]]
    BY <1>1 DEF PopLevel, IsTrail
  <2>4. QED
    BY <2>1, <2>2, <2>3
<1>4. mark \in 0 .. L /\ mark \in Nat
  BY <1>2
<1>5. /\ u.log \in Seq([cell : Allocated(t), old : Values])
      /\ Len(u.log) = mark /\ DOMAIN u.log = 1 .. mark
      /\ \A i \in 1 .. mark : u.log[i] = t.log[i]
  <2> DEFINE S == [cell : Allocated(t), old : Values]
  <2>1. /\ t.log \in Seq(S) /\ mark \in Nat /\ mark <= Len(t.log)
        /\ u.log = SubSeq(t.log, 1, mark)
    BY <1>2, <1>3, <1>4 DEF LogOver, L
  <2> HIDE DEF S, mark, u
  <2>2. /\ u.log \in Seq(S) /\ Len(u.log) = mark /\ DOMAIN u.log = 1 .. mark
        /\ \A i \in 1 .. mark : u.log[i] = t.log[i]
    BY <2>1
  <2>3. QED
    BY <2>2 DEF S
<1>6. /\ u.levels \in Seq(LevelMark) /\ Len(u.levels) = h /\ DOMAIN u.levels = 1 .. h
      /\ \A k \in 1 .. h : u.levels[k] = t.levels[k]
  <2>1. t.levels \in Seq(LevelMark)
    BY <1>1 DEF IsTrail
  <2> HIDE DEF u, h
  <2>2. QED
    BY <2>1, <1>2, <1>3, SeqFacts
<1>0. ep = IF h = 0 THEN 0 ELSE t.levels[h].epoch
  BY <1>2 DEF ep
<1>33. /\ mark = t.levels[n].mark
       /\ \A k \in 1 .. h : k \in 1 .. n /\ k < n /\ k # n /\ k + 1 \in 1 .. n
  BY <1>2
<1> HIDE DEF u, mark, L, ep, n, h
<1>7. u.values \in [Allocated(t) -> Values] /\ Allocated(u) = Allocated(t)
  <2>1. Undo(t.values, t.log, mark) \in [Allocated(t) -> Values]
    BY <1>2, <1>4, UndoType
  <2>2. QED
    BY <2>1, <1>3 DEF Allocated
<1>8. IsTrail(u)
  <2>1. ep \in Nat
    BY <1>0, <1>2
  <2>2. QED
    BY <2>1, <1>2, <1>3, <1>5, <1>6, <1>7 DEF IsTrail
<1>9. FreshEpochs(u)
  <2>1. \A k \in 1 .. h : t.levels[k].epoch \in 1 .. t.next_epoch
    BY <1>2, <1>33 DEF WellFormed, FreshEpochs
  <2>2. \A j, k \in 1 .. h : j < k => t.levels[j].epoch < t.levels[k].epoch
    BY <1>2, <1>33 DEF WellFormed, FreshEpochs
  <2>3. \A c \in Allocated(t) : t.epochs[c] <= t.next_epoch
    BY DEF WellFormed, FreshEpochs
  <2>4. u.cur_epoch = IF u.levels = <<>> THEN 0 ELSE u.levels[Len(u.levels)].epoch
    <3>1. u.levels = <<>> <=> h = 0
      BY <1>2, <1>6
    <3>2. h # 0 => u.levels[h] = t.levels[h]
      BY <1>2, <1>6
    <3>3. QED
      BY <3>1, <3>2, <1>0, <1>3, <1>6
  <2>5. QED
    BY <2>1, <2>2, <2>3, <2>4, <1>3, <1>6, <1>7 DEF FreshEpochs
<1>10. \A k \in 1 .. h : t.levels[k].mark <= mark
  BY <1>2, <1>33 DEF WellFormed, OrderedMarks
<1>11. OrderedMarks(u)
  <2>1. \A j, k \in 1 .. h : j < k => t.levels[j].mark <= t.levels[k].mark
    BY <1>2, <1>33 DEF WellFormed, OrderedMarks
  <2>2. QED
    BY <2>1, <1>5, <1>6, <1>10 DEF OrderedMarks
<1>12. LoggedStamps(u)
  <2>1. SUFFICES ASSUME NEW k \in 1 .. h, NEW c \in Allocated(t),
                        t.epochs[c] = t.levels[k].epoch
                 PROVE  \E i \in 1 .. mark :
                          /\ t.levels[k].mark < i /\ i <= MarkAfter(u, k)
                          /\ u.log[i].cell = c
    <3>1. /\ u.epochs = t.epochs /\ Allocated(u) = Allocated(t) /\ DOMAIN u.levels = 1 .. h
          /\ DOMAIN u.log = 1 .. mark /\ \A k \in 1 .. h : u.levels[k] = t.levels[k]
      BY <1>3, <1>5, <1>6, <1>7
    <3>2. QED
      BY <3>1 DEF LoggedStamps
  <2>2. k \in DOMAIN t.levels /\ k # n /\ k + 1 \in 1 .. n
    BY <1>2, <1>33
  <2>3. PICK i \in 1 .. L :
          t.levels[k].mark < i /\ i <= t.levels[k + 1].mark /\ t.log[i].cell = c
    BY <2>1, <2>2, <1>2 DEF WellFormed, LoggedStamps, MarkAfter, n
  <2>4. t.levels[k + 1].mark \in Nat /\ t.levels[k + 1].mark <= mark
    <3>1. CASE k = h
      BY <3>1, <1>2, <1>4, <1>33
    <3>2. CASE k # h
      <4>1. k + 1 \in 1 .. h
        BY <3>2, <1>2
      <4>2. QED
        BY <4>1, <1>2, <1>10, <1>33
    <3>3. QED
      BY <3>1, <3>2
  <2>5. i \in 1 .. mark /\ u.log[i] = t.log[i]
    BY <2>3, <2>4, <1>4, <1>5
  <2>6. MarkAfter(u, k) = t.levels[k + 1].mark
    <3>1. CASE k = h
      BY <3>1, <1>2, <1>5, <1>6, <1>33 DEF MarkAfter
    <3>2. CASE k # h
      <4>1. k + 1 \in 1 .. h
        BY <3>2, <1>2
      <4>2. QED
        BY <4>1, <3>2, <1>6 DEF MarkAfter
    <3>3. QED
      BY <3>1, <3>2
  <2>7. QED
    BY <2>3, <2>5, <2>6
<1>13. ASSUME NEW k \in 1 .. h
       PROVE  Undo(u.values, u.log, u.levels[k].mark) = Undo(t.values, t.log, t.levels[k].mark)
  <2>1. t.levels[k].mark \in 0 .. mark
    BY <1>2, <1>4, <1>10
  <2>2. QED
    <3>1. mark \in 0 .. Len(t.log) /\ u.levels[k] = t.levels[k]
      BY <1>4, <1>6 DEF L
    <3>2. /\ u.values = Undo(t.values, t.log, mark)
          /\ u.log = SubSeq(t.log, 1, mark)
      BY <1>3
    <3>3. Undo(Undo(t.values, t.log, mark), SubSeq(t.log, 1, mark), t.levels[k].mark)
            = Undo(t.values, t.log, t.levels[k].mark)
      BY <2>1, <3>1, <1>2, UndoComposes
    <3>4. QED
      BY <3>1, <3>2, <3>3
<1>14. SavedStores(t) = [k \in 1 .. n |-> Undo(t.values, t.log, t.levels[k].mark)]
  BY <1>2 DEF SavedStores
<1>15. SavedStores(u) = [k \in 1 .. h |-> Undo(t.values, t.log, t.levels[k].mark)]
  BY <1>6, <1>13 DEF SavedStores
<1>16. /\ Len(SavedStores(t)) = n /\ SavedStores(t) # <<>>
       /\ SavedStores(t)[n] = u.values
  <2>1. SavedStores(t)[n] = u.values
    BY <1>14, <1>2, <1>3, <1>33
  <2>2. Len(SavedStores(t)) = n
    BY <1>14, <1>2
  <2>3. QED
    BY <2>1, <2>2, <1>2
<1>17. SavedStores(u) = SubSeq(SavedStores(t), 1, h)
  <2>1. IsMap(SavedStores(t), h + 1) /\ IsMap(SavedStores(u), h)
    BY <1>2, <1>14, <1>15 DEF IsMap
  <2>2. \A k \in 1 .. h : SavedStores(u)[k] = SavedStores(t)[k]
    BY <1>2, <1>14, <1>15
  <2>3. QED
    BY <1>2, <2>1, <2>2, PrefixOfFunction
<1>18. Len(SavedStores(t)) - 1 = h
  BY <1>2, <1>16
<1>19. QED
  BY <1>7, <1>8, <1>9, <1>11, <1>12, <1>16, <1>17, <1>18 DEF WellFormed, u, h, n

-----------------------------------------------------------------------------
(* The theorems about the trail.                                           *)

\* Every step keeps the log, the marks and the epochs consistent, and is a step
\* of the stack of copies.
LEMMA TrailStep ==
  ASSUME TypeOK, WellFormed(trail), [Next]_vars
  PROVE  (TypeOK /\ WellFormed(trail))' /\ [Snapshots!Next]_(Snapshots!stateVars)
<1> USE DEF TypeOK
<1>1. CASE Allocate
  <2>1. PICK c \in Cells \ Allocated(trail), v \in Values : trail' = NewInt(trail, c, v)
    BY <1>1 DEF Allocate
  <2>2. trail.levels = <<>>
    BY <1>1 DEF Allocate
  <2>3. /\ WellFormed(trail') /\ Allocated(trail') = Allocated(trail) \cup {c}
        /\ trail'.values = Extend(trail.values, c, v) /\ trail'.levels = <<>>
    BY <2>1, <2>2, NewIntIsSound
  <2>4. SavedStores(trail) = <<>> /\ SavedStores(trail') = <<>>
    BY <2>2, <2>3 DEF SavedStores
  <2>5. Snapshots!NewCell
    BY <2>1, <2>3, <2>4 DEF Snapshots!NewCell, Extend, Allocated
  <2>6. QED
    BY <2>3, <2>5 DEF WellFormed, Snapshots!Next
<1>2. CASE Write
  <2>1. PICK c \in Allocated(trail), v \in Values : trail' = SetCell(trail, c, v)
    BY <1>2 DEF Write
  <2>2. /\ WellFormed(trail') /\ trail'.values = [trail.values EXCEPT ![c] = v]
        /\ SavedStores(trail') = SavedStores(trail)
    BY <2>1, SetCellIsSound
  <2>3. Allocated(trail') = Allocated(trail)
    BY <2>2 DEF Allocated, WellFormed, IsTrail
  <2>4. Snapshots!Write
    BY <2>2 DEF Snapshots!Write, Allocated
  <2>5. QED
    BY <2>2, <2>3, <2>4 DEF WellFormed, Snapshots!Next
<1>3. CASE Push
  <2>1. /\ WellFormed(trail') /\ trail'.values = trail.values
        /\ SavedStores(trail') = Append(SavedStores(trail), trail.values)
    BY <1>3, PushLevelIsSound DEF Push
  <2>2. Snapshots!Save
    BY <2>1 DEF Snapshots!Save
  <2>3. QED
    BY <2>1, <2>2 DEF WellFormed, Allocated, Snapshots!Next
<1>4. CASE Pop
  <2>1. /\ WellFormed(trail') /\ Allocated(trail') = Allocated(trail)
        /\ SavedStores(trail) # <<>>
        /\ trail'.values = SavedStores(trail)[Len(SavedStores(trail))]
        /\ SavedStores(trail') = SubSeq(SavedStores(trail), 1, Len(SavedStores(trail)) - 1)
    BY <1>4, PopLevelIsSound DEF Pop
  <2>2. Snapshots!Restore
    BY <2>1 DEF Snapshots!Restore
  <2>3. QED
    BY <2>1, <2>2 DEF WellFormed, Snapshots!Next
<1>5. CASE UNCHANGED vars
  BY <1>5 DEF vars, Snapshots!stateVars
<1>6. QED
  BY <1>1, <1>2, <1>3, <1>4, <1>5 DEF Next

\* The empty trail is well formed and has no level.
LEMMA TrailInit ==
  ASSUME Init
  PROVE  TypeOK /\ WellFormed(trail) /\ Snapshots!Init
<1>1. trail = NewTrail
  BY DEF Init
<1>2. IsTrail(trail) /\ Allocated(trail) = {} /\ trail.levels = <<>> /\ trail.cur_epoch = 0
  BY <1>1 DEF NewTrail, IsTrail, Allocated
<1>3. FreshEpochs(trail) /\ OrderedMarks(trail) /\ LoggedStamps(trail)
  BY <1>2 DEF FreshEpochs, OrderedMarks, LoggedStamps
<1>4. Snapshots!Init
  BY <1>1, <1>2 DEF NewTrail, Snapshots!Init, SavedStores
<1>5. QED
  BY <1>2, <1>3, <1>4 DEF TypeOK, WellFormed

\* The inductive invariant: cells, stamps, log and marks keep their shape,
\* epochs grow with the level and are never in the future, and the stamp of an
\* open level is backed by an entry in that level's part of the log.
THEOREM TrailInvariant == Spec => []TrailInv
<1>1. Init => TrailInv
  BY TrailInit DEF TrailInv
<1>2. TrailInv /\ [Next]_vars => TrailInv'
  <2> SUFFICES ASSUME TypeOK, WellFormed(trail), [Next]_vars
               PROVE  (TypeOK /\ WellFormed(trail))'
    BY DEF TrailInv
  <2> QED
    BY TrailStep
<1>3. QED
  BY <1>1, <1>2, PTL DEF Spec

\* What keeps a dead level's stamp from passing for the present one: epochs grow
\* with the level however many levels have been opened and closed.
THEOREM EpochsStayFresh == Spec => []FreshEpochs(trail)
<1>1. TrailInv => FreshEpochs(trail)
  BY DEF TrailInv, WellFormed
<1>2. QED
  BY <1>1, TrailInvariant, PTL

\* The trail implements a stack of whole copies of the store: every pop_level
\* gives back exactly what push_level found.
THEOREM TrailImplementsSnapshots == Spec => ImplementsSnapshots
<1>1. Init => Snapshots!Init
  BY TrailInit
<1>2. TrailInv /\ [Next]_vars => [Snapshots!Next]_(Snapshots!stateVars)
  <2> SUFFICES ASSUME TypeOK, WellFormed(trail), [Next]_vars
               PROVE  [Snapshots!Next]_(Snapshots!stateVars)
    BY DEF TrailInv
  <2> QED
    BY TrailStep
<1>3. QED
  BY <1>1, <1>2, TrailInvariant, PTL DEF Spec, ImplementsSnapshots, Snapshots!Spec

-----------------------------------------------------------------------------
(* The invariant of a domain.                                              *)
(*                                                                         *)
(* RepresentationAgrees is not inductive.  A sparse set also needs that the*)
(* saved sizes only grow outwards (so a swap below the present size keeps  *)
(* every saved prefix the same set), what each loop has already done, and  *)
(* that a loop that was started does remove something.  A bounds domain    *)
(* needs that no hole is recorded twice in a visible prefix, that its count*)
(* is that of the holes between its bounds, and that saved prefixes only   *)
(* grow inwards (so the slot that is overwritten is in none of them).      *)

PresentIn(d, n) == {d[p] : p \in {q \in DOMAIN d : q < n}}

\* dense and sparse are inverse permutations of the values that have an index.
IsArrays(d, s) ==
  /\ IsFiniteSet(DOMAIN s) /\ DOMAIN s \subseteq Int
  /\ d \in [0 .. Cardinality(DOMAIN s) - 1 -> DOMAIN s]
  /\ s \in [DOMAIN s -> 0 .. Cardinality(DOMAIN s) - 1]
  /\ \A p \in DOMAIN d : s[d[p]] = p
  /\ \A v \in DOMAIN s : d[s[v]] = v

\* What Swap writes.
Swapped(d, s, p, q, e, t) ==
  /\ e = [d EXCEPT ![p] = d[q], ![q] = d[p]]
  /\ t = [s EXCEPT ![d[p]] = q, ![d[q]] = p]

Tight(d, r) ==
  r.size > 0 => r.min = Least(PresentIn(d, r.size)) /\ r.max = Greatest(PresentIn(d, r.size))

IsCopy(d, s, r) == r \in Regs /\ r.size <= Cardinality(DOMAIN s) /\ Tight(d, r)

\* A stack of copies whose prefixes contain the current one.
IsStack(d, s, r, stack) ==
  /\ stack \in Seq(Regs)
  /\ \A k \in DOMAIN stack : IsCopy(d, s, stack[k]) /\ r.size <= stack[k].size
  /\ \A j, k \in DOMAIN stack : j < k => stack[k].size <= stack[j].size

Sides == {"below", "above"}
ValueCalls ==
  [loop : {"values"}, side : Sides, bound : Int, changed : BOOLEAN, at : Int]
PositionCalls == [loop : {"positions"}, side : Sides, bound : Int, pos : Nat, size : Nat]

\* Nothing is left behind the value the loop looks at, and the loop has removed
\* something or is about to.
ValueLoopInv(d, n, c) ==
  /\ \A v \in PresentIn(d, n) : IF c.side = "below" THEN c.at <= v ELSE v <= c.at
  /\ c.changed \/ (c.at \in PresentIn(d, n) /\ Doomed(c, c.at))

\* Positions before pos are kept, those from size on are removed.
PositionLoopInv(d, n, c) ==
  /\ c.pos <= c.size /\ c.size <= n
  /\ \A p \in DOMAIN d : p < c.pos => ~Doomed(c, d[p])
  /\ \A p \in DOMAIN d : c.size <= p /\ p < n => Doomed(c, d[p])
  /\ \E v \in PresentIn(d, n) : Doomed(c, v)

CallInv(d, n, c) ==
  \/ c = Idle
  \/ c \in ValueCalls /\ ValueLoopInv(d, n, c)
  \/ c \in PositionCalls /\ PositionLoopInv(d, n, c)

\* The invariant of a sparse set, also in the middle of a loop.
SparseSetInv ==
  /\ layout \in {"dense", "sparse"}
  /\ IsArrays(dense, sparse)
  /\ IsCopy(dense, sparse, regs)
  /\ IsStack(dense, sparse, regs, saved)
  /\ CallInv(dense, regs.size, call)
  /\ answer \in {"none", "changed", "unchanged", "inconsistent"}

-----------------------------------------------------------------------------
HolesIn(h, r) == {h[i] : i \in 1 .. r.holes_len}
ValuesIn(h, r) == IF r.empty THEN {} ELSE (r.min .. r.max) \ HolesIn(h, r)
Between(h, n, lo, hi) == {i \in 1 .. n : lo <= h[i] /\ h[i] <= hi}

\* A copy of the trailed integers that agrees with the vector of holes.
IsBoundsCopy(h, r) ==
  /\ r \in Bounds!Regs /\ r.holes_len <= Len(h)
  /\ \A i, j \in 1 .. r.holes_len : h[i] = h[j] => i = j
  /\ r.active_holes = Cardinality(Between(h, r.holes_len, r.min, r.max))
  /\ ~r.empty => r.min <= r.max /\ r.min \notin HolesIn(h, r) /\ r.max \notin HolesIn(h, r)

IsBoundsStack(h, r, stack) ==
  /\ stack \in Seq(Bounds!Regs)
  /\ \A k \in DOMAIN stack : IsBoundsCopy(h, stack[k]) /\ stack[k].holes_len <= r.holes_len
  /\ \A j, k \in DOMAIN stack : j < k => stack[j].holes_len <= stack[k].holes_len

\* The invariant of a bounds domain.
BoundsInv ==
  /\ layout = "bounds"
  /\ call = Idle
  /\ holes \in Seq(Int)
  /\ IsBoundsCopy(holes, regs)
  /\ IsBoundsStack(holes, regs, saved)
  /\ answer \in {"none", "changed", "unchanged", "inconsistent"}

DomainInv == IF layout = "bounds" THEN BoundsInv ELSE SparseSetInv

-----------------------------------------------------------------------------
(* Extremes of a finite set of integers.                                   *)

\* An element with the fewest elements below it has none: a finite set has extremes.
LEMMA ExtremesExist ==
  ASSUME NEW S \in SUBSET Int, IsFiniteSet(S), S # {}
  PROVE  /\ \E v \in S : \A w \in S : v <= w
         /\ \E v \in S : \A w \in S : w <= v
<1> DEFINE Under(v) == {w \in S : w < v}
           Over(v)  == {w \in S : v < w}
<1>0. \A v : IsFiniteSet(Under(v)) /\ IsFiniteSet(Over(v))
  BY FS_Subset
<1>1. \A v : Cardinality(Under(v)) \in Nat /\ Cardinality(Over(v)) \in Nat
  BY <1>0, FS_CardinalityType
<1>2. ASSUME NEW v \in S, NEW w \in S
      PROVE  /\ w < v => Cardinality(Under(w)) < Cardinality(Under(v))
             /\ v < w => Cardinality(Over(w)) < Cardinality(Over(v))
  <2>1. \A u \in S : u \in Int
    OBVIOUS
  <2>2. w < v => Under(w) \in SUBSET Under(v) /\ w \in Under(v) /\ w \notin Under(w)
    <3>1. w < v => \A u \in Under(w) : u \in Under(v)
      BY <2>1
    <3>2. w < v => w \in Under(v) /\ w \notin Under(w)
      BY <2>1
    <3>3. QED
      BY <3>1, <3>2
  <2>3. v < w => Over(w) \in SUBSET Over(v) /\ w \in Over(v) /\ w \notin Over(w)
    <3>1. v < w => \A u \in Over(w) : u \in Over(v)
      BY <2>1
    <3>2. v < w => w \in Over(v) /\ w \notin Over(w)
      BY <2>1
    <3>3. QED
      BY <3>1, <3>2
  <2> HIDE DEF Under, Over
  <2>4. w < v => /\ Cardinality(Under(w)) <= Cardinality(Under(v))
                 /\ Cardinality(Under(w)) # Cardinality(Under(v))
    BY <2>2, <1>0, FS_Subset
  <2>5. v < w => /\ Cardinality(Over(w)) <= Cardinality(Over(v))
                 /\ Cardinality(Over(w)) # Cardinality(Over(v))
    BY <2>3, <1>0, FS_Subset
  <2>6. QED
    BY <2>4, <2>5, <1>1
<1> HIDE DEF Under, Over
<1>3. \E v \in S : \A w \in S : v <= w
  <2> DEFINE Counts == {Cardinality(Under(v)) : v \in S}
  <2>1. Counts \in SUBSET Nat /\ Counts # {}
    BY <1>1
  <2>2. PICK n \in Counts : \A m \in Counts : n <= m
    BY <2>1, LeastNatural, Zenon
  <2>3. PICK v \in S : n = Cardinality(Under(v))
    BY <2>2
  <2>4. \A w \in S : Cardinality(Under(v)) <= Cardinality(Under(w))
    BY <2>2, <2>3
  <2> HIDE DEF Counts
  <2>5. \A w \in S : ~(w < v)
    BY <2>4, <1>1, <1>2
  <2>6. \A w \in S : v \in Int /\ w \in Int
    OBVIOUS
  <2>7. QED
    BY <2>5, <2>6
<1>4. \E v \in S : \A w \in S : w <= v
  <2> DEFINE Counts == {Cardinality(Over(v)) : v \in S}
  <2>1. Counts \in SUBSET Nat /\ Counts # {}
    BY <1>1
  <2>2. PICK n \in Counts : \A m \in Counts : n <= m
    BY <2>1, LeastNatural, Zenon
  <2>3. PICK v \in S : n = Cardinality(Over(v))
    BY <2>2
  <2>4. \A w \in S : Cardinality(Over(v)) <= Cardinality(Over(w))
    BY <2>2, <2>3
  <2> HIDE DEF Counts
  <2>5. \A w \in S : ~(v < w)
    BY <2>4, <1>1, <1>2
  <2>6. \A w \in S : v \in Int /\ w \in Int
    OBVIOUS
  <2>7. QED
    BY <2>5, <2>6
<1>5. QED
  BY <1>3, <1>4

\* Least and Greatest pick the extremes, and whatever is an extreme is what they pick.
LEMMA LeastIsLeast ==
  ASSUME NEW S \in SUBSET Int, IsFiniteSet(S), S # {}
  PROVE  /\ Least(S) \in S /\ \A w \in S : Least(S) <= w
         /\ Greatest(S) \in S /\ \A w \in S : w <= Greatest(S)
<1>1. \E v \in S : \A w \in S : v <= w
  BY ExtremesExist
<1>2. \E v \in S : \A w \in S : w <= v
  BY ExtremesExist
<1>3. QED
  BY <1>1, <1>2 DEF Least, Greatest

\* The extremes are the only elements with their property.
LEMMA LeastIsUnique ==
  ASSUME NEW S \in SUBSET Int, NEW m \in S
  PROVE  /\ (\A w \in S : m <= w) => Least(S) = m
         /\ (\A w \in S : w <= m) => Greatest(S) = m
<1>1. ASSUME \A w \in S : m <= w
      PROVE  Least(S) = m
  <2>1. \A v \in S : (\A w \in S : v <= w) => v = m
    BY <1>1
  <2>2. QED
    BY <1>1, <2>1 DEF Least
<1>2. ASSUME \A w \in S : w <= m
      PROVE  Greatest(S) = m
  <2>1. \A v \in S : (\A w \in S : w <= v) => v = m
    BY <1>2
  <2>2. QED
    BY <1>2, <2>1 DEF Greatest
<1>3. QED
  BY <1>1, <1>2

-----------------------------------------------------------------------------
(* The sparse set: prefixes of a permutation.                              *)

\* Cardinality(DOMAIN s) is a natural, and the places are the positions below it.
LEMMA ArrayFacts ==
  ASSUME NEW d, NEW s, IsArrays(d, s)
  PROVE  /\ Cardinality(DOMAIN s) \in Nat
         /\ DOMAIN d = 0 .. Cardinality(DOMAIN s) - 1
         /\ \A p \in DOMAIN d : d[p] \in DOMAIN s /\ d[p] \in Int /\ s[d[p]] = p
         /\ \A v \in DOMAIN s : v \in Int /\ s[v] \in DOMAIN d /\ d[s[v]] = v
         /\ \A n, v : v \in PresentIn(d, n) <=> v \in DOMAIN s /\ s[v] < n
<1>1. Cardinality(DOMAIN s) \in Nat
  BY FS_CardinalityType DEF IsArrays
<1>2. /\ DOMAIN d = 0 .. Cardinality(DOMAIN s) - 1
      /\ \A p \in DOMAIN d : d[p] \in DOMAIN s /\ d[p] \in Int /\ s[d[p]] = p
      /\ \A v \in DOMAIN s : v \in Int /\ s[v] \in DOMAIN d /\ d[s[v]] = v
  BY DEF IsArrays
<1>3. ASSUME NEW n, NEW v
      PROVE  v \in PresentIn(d, n) <=> v \in DOMAIN s /\ s[v] < n
  BY <1>2, Zenon DEF PresentIn
<1>4. QED
  BY <1>1, <1>2, <1>3

\* A prefix that is not empty has its extremes.
LEMMA PrefixFacts ==
  ASSUME NEW d, NEW s, IsArrays(d, s), NEW n \in Nat
  PROVE  /\ PresentIn(d, n) \in SUBSET Int /\ IsFiniteSet(PresentIn(d, n))
         /\ n > 0 /\ n <= Cardinality(DOMAIN s) => d[0] \in PresentIn(d, n)
         /\ n = 0 => PresentIn(d, n) = {}
<1>1. PresentIn(d, n) \in SUBSET DOMAIN s
  BY ArrayFacts
<1>2. IsFiniteSet(PresentIn(d, n))
  BY <1>1, FS_Subset DEF IsArrays
<1>3. n > 0 /\ n <= Cardinality(DOMAIN s) => d[0] \in PresentIn(d, n)
  BY ArrayFacts DEF PresentIn
<1>4. n = 0 => PresentIn(d, n) = {}
  BY ArrayFacts DEF PresentIn
<1>5. PresentIn(d, n) \in SUBSET Int
  BY <1>1, ArrayFacts
<1>6. QED
  BY <1>2, <1>3, <1>4, <1>5

\* Exchanging two positions keeps the arrays inverse, and every prefix that
\* contains both positions.
LEMMA SwapKeepsArrays ==
  ASSUME NEW d, NEW s, IsArrays(d, s), NEW p \in DOMAIN d, NEW q \in DOMAIN d,
         NEW e, NEW t, Swapped(d, s, p, q, e, t)
  PROVE  /\ IsArrays(e, t)
         /\ DOMAIN t = DOMAIN s /\ DOMAIN e = DOMAIN d
         /\ e[p] = d[q] /\ e[q] = d[p]
         /\ \A r \in DOMAIN d : r # p /\ r # q => e[r] = d[r]
         /\ \A n \in Nat : p < n /\ q < n => PresentIn(e, n) = PresentIn(d, n)
<1>1. /\ d[p] \in DOMAIN s /\ d[q] \in DOMAIN s
      /\ \A r \in DOMAIN d : d[r] \in DOMAIN s /\ s[d[r]] = r
      /\ \A v \in DOMAIN s : s[v] \in DOMAIN d /\ d[s[v]] = v
  BY ArrayFacts
<1>2. /\ DOMAIN t = DOMAIN s /\ DOMAIN e = DOMAIN d
      /\ e[p] = d[q] /\ e[q] = d[p]
      /\ \A r \in DOMAIN d : r # p /\ r # q => e[r] = d[r]
  BY <1>1 DEF Swapped
<1>3. /\ t[d[p]] = q /\ t[d[q]] = p
      /\ \A v \in DOMAIN s : v # d[p] /\ v # d[q] => t[v] = s[v]
  BY <1>1 DEF Swapped
<1>4. e \in [DOMAIN d -> DOMAIN s] /\ t \in [DOMAIN s -> DOMAIN d]
  <2>1. d \in [DOMAIN d -> DOMAIN s] /\ s \in [DOMAIN s -> DOMAIN d]
    BY DEF IsArrays
  <2>2. QED
    BY <1>1, <2>1 DEF Swapped
<1>5. ASSUME NEW r \in DOMAIN d
      PROVE  t[e[r]] = r
  <2>1. CASE r = p \/ r = q
    BY <1>2, <1>3, <2>1
  <2>2. CASE r # p /\ r # q
    <3>1. e[r] = d[r] /\ d[r] \in DOMAIN s /\ d[r] # d[p] /\ d[r] # d[q]
      BY <1>1, <1>2, <2>2
    <3>2. QED
      BY <1>1, <1>3, <3>1
  <2>3. QED
    BY <2>1, <2>2
<1>6. ASSUME NEW v \in DOMAIN s
      PROVE  e[t[v]] = v
  <2>1. CASE v = d[p] \/ v = d[q]
    BY <1>2, <1>3, <2>1
  <2>2. CASE v # d[p] /\ v # d[q]
    <3>1. t[v] = s[v] /\ s[v] \in DOMAIN d /\ s[v] # p /\ s[v] # q
      BY <1>1, <1>3, <2>2
    <3>2. QED
      BY <1>1, <1>2, <3>1
  <2>3. QED
    BY <2>1, <2>2
<1>7. IsArrays(e, t)
  BY <1>2, <1>4, <1>5, <1>6, ArrayFacts DEF IsArrays
<1>8. ASSUME NEW n \in Nat, p < n, q < n
      PROVE  PresentIn(e, n) = PresentIn(d, n)
  <2>1. \A v \in DOMAIN s : t[v] < n <=> s[v] < n
    BY <1>1, <1>3, <1>8
  <2>2. \A v : v \in PresentIn(e, n) <=> v \in DOMAIN t /\ t[v] < n
    BY <1>7, ArrayFacts, Zenon
  <2>3. \A v : v \in PresentIn(d, n) <=> v \in DOMAIN s /\ s[v] < n
    BY ArrayFacts, Zenon
  <2>4. \A v : v \in PresentIn(e, n) <=> v \in PresentIn(d, n)
    BY <1>2, <2>1, <2>2, <2>3, Zenon
  <2>5. QED
    BY <2>4
<1>9. QED
  BY <1>2, <1>7, <1>8

\* A swap below the current size disturbs no copy on the stack, nor the current one.
LEMMA SwapKeepsCopies ==
  ASSUME NEW d, NEW s, IsArrays(d, s), NEW p \in DOMAIN d, NEW q \in DOMAIN d,
         NEW e, NEW t, Swapped(d, s, p, q, e, t),
         NEW r, IsCopy(d, s, r), p < r.size, q < r.size,
         NEW stack, IsStack(d, s, r, stack)
  PROVE  /\ IsCopy(e, t, r) /\ IsStack(e, t, r, stack)
         /\ PresentIn(e, r.size) = PresentIn(d, r.size)
         /\ \A k \in DOMAIN stack : PresentIn(e, stack[k].size) = PresentIn(d, stack[k].size)
<1>1. /\ DOMAIN t = DOMAIN s
      /\ \A n \in Nat : p < n /\ q < n => PresentIn(e, n) = PresentIn(d, n)
  BY SwapKeepsArrays
<1>2. r.size \in Nat /\ \A k \in DOMAIN stack : stack[k].size \in Nat /\ r.size <= stack[k].size
  BY DEF IsCopy, IsStack, Regs
<1>3. p \in Int /\ q \in Int
  BY ArrayFacts
<1>4. PresentIn(e, r.size) = PresentIn(d, r.size)
  BY <1>1, <1>2
<1>5. \A k \in DOMAIN stack : PresentIn(e, stack[k].size) = PresentIn(d, stack[k].size)
  <2>1. \A k \in DOMAIN stack : p < stack[k].size /\ q < stack[k].size
    BY <1>2, <1>3
  <2>2. QED
    BY <1>1, <1>2, <2>1, Zenon
<1>6. IsCopy(e, t, r)
  BY <1>1, <1>4 DEF IsCopy, Tight
<1>7. IsStack(e, t, r, stack)
  BY <1>1, <1>5 DEF IsStack, IsCopy, Tight
<1>8. QED
  BY <1>4, <1>5, <1>6, <1>7

\* The trailed part of a removal, as a function of the arrays before it.
Without(d, r, v) ==
  LET last == r.size - 1
      left == PresentIn(d, r.size) \ {v}
  IN  [size |-> last,
       min  |-> IF last > 0 /\ v = r.min THEN Least(left) ELSE r.min,
       max  |-> IF last > 0 /\ v = r.max /\ v # r.min THEN Greatest(left) ELSE r.max]

\* A copy of a smaller set may take the place of the current one.
LEMMA StackOfSmaller ==
  ASSUME NEW d, NEW s, NEW r, NEW q, NEW stack, IsStack(d, s, r, stack),
         q.size \in Nat, r.size \in Nat, q.size <= r.size
  PROVE  IsStack(d, s, q, stack)
<1>1. \A k \in DOMAIN stack : stack[k].size \in Nat /\ r.size <= stack[k].size
  BY DEF IsStack, IsCopy, Regs
<1>2. \A k \in DOMAIN stack : q.size <= stack[k].size
  BY <1>1
<1>3. QED
  BY <1>2, Zenon DEF IsStack

\* Cutting the last position off a prefix removes the value there.
LEMMA CutPrefix ==
  ASSUME NEW d, NEW s, IsArrays(d, s), NEW n \in Nat, n > 0, n <= Cardinality(DOMAIN s)
  PROVE  PresentIn(d, n - 1) = PresentIn(d, n) \ {d[n - 1]}
<1>1. /\ n - 1 \in DOMAIN d /\ s[d[n - 1]] = n - 1 /\ d[n - 1] \in DOMAIN s
      /\ \A v \in DOMAIN s : s[v] \in Int /\ d[s[v]] = v
  BY ArrayFacts
<1>2. \A v \in DOMAIN s : s[v] < n - 1 <=> s[v] < n /\ v # d[n - 1]
  BY <1>1
<1>3. /\ \A v : v \in PresentIn(d, n) <=> v \in DOMAIN s /\ s[v] < n
      /\ \A v : v \in PresentIn(d, n - 1) <=> v \in DOMAIN s /\ s[v] < n - 1
  <2>1. \A v : v \in PresentIn(d, n) <=> v \in DOMAIN s /\ s[v] < n
    BY ArrayFacts, Zenon
  <2>2. \A v : v \in PresentIn(d, n - 1) <=> v \in DOMAIN s /\ s[v] < n - 1
    BY ArrayFacts, Zenon
  <2>3. QED
    BY <2>1, <2>2
<1>4. \A v : v \in PresentIn(d, n - 1) <=> v \in PresentIn(d, n) /\ v # d[n - 1]
  BY <1>2, <1>3, Zenon
<1>5. QED
  BY <1>4

\* The extremes of what a removal leaves, found by scanning only when an extreme goes.
LEMMA BoundsWithout ==
  ASSUME NEW d, NEW s, IsArrays(d, s), NEW r, IsCopy(d, s, r), r.size > 1,
         NEW v \in PresentIn(d, r.size),
         NEW left, left = PresentIn(d, r.size) \ {v}, left # {}
  PROVE  Without(d, r, v).min = Least(left) /\ Without(d, r, v).max = Greatest(left)
<1> DEFINE all == PresentIn(d, r.size)
<1>1. r.size \in Nat /\ r.min = Least(all) /\ r.max = Greatest(all)
  BY DEF IsCopy, Regs, Tight
<1>2. all \in SUBSET Int /\ IsFiniteSet(all) /\ all # {}
  BY <1>1, PrefixFacts
<1> HIDE DEF all
<1>3. /\ r.min \in all /\ r.max \in all
      /\ \A w \in all : r.min <= w /\ w <= r.max
  BY <1>1, <1>2, LeastIsLeast
<1>4. left \in SUBSET Int /\ \A w : w \in left <=> w \in all /\ w # v
  BY <1>2 DEF all
<1>5. v # r.min => Least(left) = r.min
  BY <1>3, <1>4, LeastIsUnique
<1>6. v # r.max => Greatest(left) = r.max
  BY <1>3, <1>4, LeastIsUnique
<1>7. ~(v = r.max /\ v = r.min)
  <2>1. PICK w \in left : TRUE
    OBVIOUS
  <2>2. w \in Int /\ v \in Int /\ w # v /\ w \in all
    BY <1>2, <1>4 DEF all
  <2>3. QED
    BY <1>3, <2>2
<1>8. r.size - 1 > 0
  BY <1>1
<1>9. QED
  BY <1>5, <1>6, <1>7, <1>8 DEF Without, all

\* remove: what goes is the value, and no saved prefix is disturbed.
LEMMA RemovalEffect ==
  ASSUME NEW d, NEW s, IsArrays(d, s), NEW r, IsCopy(d, s, r),
         NEW stack, IsStack(d, s, r, stack), NEW v \in PresentIn(d, r.size),
         NEW e, NEW t, Swapped(d, s, s[v], r.size - 1, e, t)
  PROVE  /\ IsArrays(e, t) /\ IsCopy(e, t, Without(d, r, v))
         /\ IsStack(e, t, Without(d, r, v), stack)
         /\ PresentIn(e, r.size - 1) = PresentIn(d, r.size) \ {v}
         /\ \A k \in DOMAIN stack : PresentIn(e, stack[k].size) = PresentIn(d, stack[k].size)
<1> DEFINE q == Without(d, r, v)
<1>1. r.size \in Nat /\ r.size <= Cardinality(DOMAIN s) /\ r.min \in Int /\ r.max \in Int
      /\ Cardinality(DOMAIN s) \in Nat
  BY ArrayFacts DEF IsCopy, Regs
<1>2. v \in DOMAIN s /\ s[v] < r.size
  BY ArrayFacts, Zenon
<1>3. s[v] \in DOMAIN d /\ s[v] \in Nat /\ d[s[v]] = v /\ r.size - 1 \in DOMAIN d /\ r.size > 0
  BY <1>1, <1>2, ArrayFacts
<1>4. /\ IsArrays(e, t) /\ DOMAIN t = DOMAIN s
      /\ e[r.size - 1] = v
  BY <1>3, SwapKeepsArrays
<1>5. /\ IsCopy(e, t, r) /\ IsStack(e, t, r, stack)
      /\ PresentIn(e, r.size) = PresentIn(d, r.size)
      /\ \A k \in DOMAIN stack : PresentIn(e, stack[k].size) = PresentIn(d, stack[k].size)
  <2>1. s[v] < r.size /\ r.size - 1 < r.size
    BY <1>1, <1>2
  <2>2. QED
    BY <1>3, <2>1, SwapKeepsCopies
<1>6. PresentIn(e, r.size - 1) = PresentIn(d, r.size) \ {v}
  BY <1>1, <1>3, <1>4, <1>5, CutPrefix
<1>7. q.size = r.size - 1 /\ q = [size |-> q.size, min |-> q.min, max |-> q.max]
  BY DEF Without
<1>8. q.size > 0 => q.min = Least(PresentIn(e, q.size)) /\ q.max = Greatest(PresentIn(e, q.size))
  <2>1. SUFFICES ASSUME r.size > 1
                 PROVE  q.min = Least(PresentIn(e, q.size)) /\ q.max = Greatest(PresentIn(e, q.size))
    BY <1>1, <1>7
  <2> DEFINE left == PresentIn(d, r.size) \ {v}
  <2>2. left = PresentIn(e, r.size - 1) /\ left # {}
    <3>1. r.size - 1 \in Nat /\ r.size - 1 > 0 /\ r.size - 1 <= Cardinality(DOMAIN t)
      BY <2>1, <1>1, <1>4
    <3>2. PresentIn(e, r.size - 1) # {}
      BY <3>1, <1>4, PrefixFacts
    <3>3. QED
      BY <3>2, <1>6
  <2>3. q.min = Least(left) /\ q.max = Greatest(left)
    BY <2>1, <2>2, BoundsWithout
  <2>4. QED
    BY <1>7, <2>2, <2>3
<1>9. q.min \in Int /\ q.max \in Int
  <2>1. CASE r.size > 1
    <3>1. PresentIn(e, r.size - 1) \in SUBSET Int /\ IsFiniteSet(PresentIn(e, r.size - 1))
          /\ PresentIn(e, r.size - 1) # {}
      <4>1. r.size - 1 \in Nat /\ r.size - 1 > 0 /\ r.size - 1 <= Cardinality(DOMAIN t)
        BY <2>1, <1>1, <1>4
      <4>2. QED
        BY <4>1, <1>4, PrefixFacts
    <3>2. q.min \in PresentIn(e, r.size - 1) /\ q.max \in PresentIn(e, r.size - 1)
      BY <3>1, <2>1, <1>1, <1>7, <1>8, LeastIsLeast
    <3>3. QED
      BY <3>1, <3>2
  <2>2. CASE ~(r.size > 1)
    <3>1. ~(r.size - 1 > 0)
      BY <2>2, <1>1
    <3>2. q.min = r.min /\ q.max = r.max
      BY <3>1 DEF Without
    <3>3. QED
      BY <3>2, <1>1
  <2>3. QED
    BY <2>1, <2>2
<1> HIDE DEF q
<1>10. q \in Regs /\ q.size \in Nat /\ q.size <= r.size
  BY <1>1, <1>3, <1>7, <1>9 DEF Regs
<1>11. IsCopy(e, t, q)
  BY <1>1, <1>4, <1>8, <1>10 DEF IsCopy, Tight
<1>12. IsStack(e, t, q, stack)
  BY <1>1, <1>5, <1>10, StackOfSmaller
<1>13. QED
  BY <1>4, <1>5, <1>6, <1>11, <1>12 DEF q

\* fix: the value goes to position 0, and is all that is left.
LEMMA FixEffect ==
  ASSUME NEW d, NEW s, IsArrays(d, s), NEW r, IsCopy(d, s, r),
         NEW stack, IsStack(d, s, r, stack), NEW v \in PresentIn(d, r.size),
         NEW e, NEW t, Swapped(d, s, s[v], 0, e, t),
         NEW q, q = [size |-> 1, min |-> v, max |-> v]
  PROVE  /\ IsArrays(e, t) /\ IsCopy(e, t, q) /\ IsStack(e, t, q, stack)
         /\ PresentIn(e, 1) = {v}
         /\ \A k \in DOMAIN stack : PresentIn(e, stack[k].size) = PresentIn(d, stack[k].size)
<1>1. r.size \in Nat /\ r.size <= Cardinality(DOMAIN s) /\ Cardinality(DOMAIN s) \in Nat
  BY ArrayFacts DEF IsCopy, Regs
<1>2. v \in DOMAIN s /\ s[v] < r.size /\ v \in Int
  BY ArrayFacts, PrefixFacts
<1>3. s[v] \in DOMAIN d /\ s[v] \in Nat /\ d[s[v]] = v /\ 0 \in DOMAIN d /\ 0 < r.size
  BY <1>1, <1>2, ArrayFacts
<1>4. IsArrays(e, t) /\ DOMAIN t = DOMAIN s /\ e[0] = v
  BY <1>3, SwapKeepsArrays
<1>5. /\ IsStack(e, t, r, stack)
      /\ \A k \in DOMAIN stack : PresentIn(e, stack[k].size) = PresentIn(d, stack[k].size)
  BY <1>2, <1>3, SwapKeepsCopies
<1>6. PresentIn(e, 1) = {v}
  <2>0. DOMAIN e = 0 .. Cardinality(DOMAIN s) - 1
    BY <1>4, ArrayFacts
  <2>1. \A p \in DOMAIN e : p < 1 <=> p = 0
    BY <2>0, <1>1
  <2>2. 0 \in DOMAIN e
    BY <1>3, <1>4, ArrayFacts
  <2>3. QED
    BY <1>4, <2>1, <2>2 DEF PresentIn
<1>7. q \in Regs /\ q.size = 1 /\ q.min = v /\ q.max = v
  BY <1>2 DEF Regs
<1>8. Least({v}) = v /\ Greatest({v}) = v
  <2>1. {v} \in SUBSET Int /\ v \in {v} /\ \A w \in {v} : v <= w /\ w <= v
    BY <1>2
  <2>2. QED
    BY <2>1, LeastIsUnique
<1>9. IsCopy(e, t, q)
  <2>1. Tight(e, q)
    BY <1>6, <1>7, <1>8 DEF Tight
  <2>2. 1 <= Cardinality(DOMAIN t)
    BY <1>1, <1>3, <1>4
  <2>3. QED
    BY <1>7, <2>1, <2>2 DEF IsCopy
<1>10. IsStack(e, t, q, stack)
  BY <1>1, <1>3, <1>5, <1>7, StackOfSmaller
<1>11. QED
  BY <1>4, <1>5, <1>6, <1>9, <1>10

\* What the constructors leave: the arrays are inverse because an injection between
\* sets of one size is onto, and the positions below size hold the root values.
LEMMA SparseSetInitInv ==
  ASSUME SparseSetInit
  PROVE  /\ SparseSetInv
         /\ PresentIn(dense, regs.size) \in SUBSET Universe /\ PresentIn(dense, regs.size) # {}
<1> USE SparseSetAssumption
<1>1. PICK root \in SUBSET Universe :
        /\ root # {}
        /\ layout \in {"dense", "sparse"}
        /\ LET support == IF layout = "dense" THEN Least(root) .. Greatest(root) ELSE root
               size    == Cardinality(root)
               places  == 0 .. Cardinality(support) - 1
           IN  /\ dense \in [places -> support]
               /\ \A p, q \in places : p < size <=> dense[p] \in root
               /\ sparse \in [support -> places]
               /\ \A p \in places : sparse[dense[p]] = p
               /\ regs = [size |-> size, min |-> Least(root), max |-> Greatest(root)]
  BY Zenon DEF SparseSetInit
<1> DEFINE support == IF layout = "dense" THEN Least(root) .. Greatest(root) ELSE root
           size    == Cardinality(root)
           places  == 0 .. Cardinality(support) - 1
<1>2. root \in SUBSET Int /\ IsFiniteSet(root) /\ root # {}
  BY <1>1, FS_Subset
<1>3. /\ Least(root) \in root /\ Greatest(root) \in root
      /\ \A v \in root : Least(root) <= v /\ v <= Greatest(root)
  BY <1>2, LeastIsLeast
<1>4. support \in SUBSET Int /\ IsFiniteSet(support) /\ root \in SUBSET support
  <2>1. Least(root) \in Int /\ Greatest(root) \in Int
    BY <1>2, <1>3
  <2>2. IsFiniteSet(Least(root) .. Greatest(root))
    BY <2>1, FS_Interval
  <2>3. root \in SUBSET (Least(root) .. Greatest(root))
    BY <1>2, <1>3, <2>1
  <2>4. QED
    BY <1>2, <2>1, <2>2, <2>3
<1>5. /\ dense \in [places -> support] /\ sparse \in [support -> places]
      /\ \A p \in places : p < size <=> dense[p] \in root
      /\ \A p \in places : sparse[dense[p]] = p
      /\ regs = [size |-> size, min |-> Least(root), max |-> Greatest(root)]
  BY <1>1, Zenon
<1> HIDE DEF support
<1>6. Cardinality(support) \in Nat /\ size \in Nat /\ size <= Cardinality(support)
  BY <1>2, <1>4, FS_CardinalityType, FS_Subset
<1>7. IsFiniteSet(places) /\ Cardinality(places) = Cardinality(support)
  <2> DEFINE last == Cardinality(support) - 1
  <2>1. last \in Int /\ 0 \in Int
    BY <1>6
  <2>2. /\ IsFiniteSet(0 .. last)
        /\ Cardinality(0 .. last) = IF 0 > last THEN 0 ELSE last - 0 + 1
    <3> HIDE DEF last
    <3>1. QED
      BY <2>1, FS_Interval
  <2>3. QED
    BY <1>6, <2>2
<1>8. dense \in Injection(places, support)
  BY <1>5 DEF Injection, IsInjective
<1>9. dense \in Surjection(places, support)
  BY <1>4, <1>7, <1>8, FS_Injection
<1>10. \A v \in support : dense[sparse[v]] = v
  <2>1. \A v \in support : \E p \in places : dense[p] = v
    BY <1>9 DEF Surjection
  <2>2. QED
    BY <2>1, <1>5
<1>11. IsArrays(dense, sparse) /\ DOMAIN sparse = support
  BY <1>4, <1>5, <1>10 DEF IsArrays
<1>12. PresentIn(dense, size) = root
  <2>1. \A v : v \in PresentIn(dense, size) <=> v \in support /\ sparse[v] < size
    BY <1>11, ArrayFacts, Zenon
  <2>2. \A v \in support : sparse[v] < size <=> v \in root
    <3>1. \A v \in support : sparse[v] \in places
      BY <1>5
    <3> HIDE DEF size, places
    <3>2. QED
      BY <1>5, <1>10, <3>1, Zenon
  <2>3. QED
    BY <1>4, <2>1, <2>2
<1>13. IsCopy(dense, sparse, regs)
  <2> HIDE DEF size
  <2>1. regs.size = size /\ regs.min = Least(root) /\ regs.max = Greatest(root)
    BY <1>5
  <2>2. regs \in Regs
    BY <1>2, <1>3, <1>5, <1>6 DEF Regs
  <2>3. QED
    BY <1>6, <1>11, <1>12, <2>1, <2>2 DEF IsCopy, Tight
<1>14. saved = <<>> /\ call = Idle /\ answer = "none"
  BY DEF SparseSetInit
<1>15. IsStack(dense, sparse, regs, saved)
  BY <1>14 DEF IsStack
<1>16. SparseSetInv
  BY <1>1, <1>11, <1>13, <1>14, <1>15 DEF SparseSetInv, CallInv
<1>17. regs.size = size
  <2> HIDE DEF size
  <2>1. QED
    BY <1>5
<1>18. QED
  BY <1>1, <1>12, <1>16, <1>17

-----------------------------------------------------------------------------
(* The calls of the sparse set, each with what it does to the promise.     *)

Kept(d, n, c)     == IF c = Idle THEN PresentIn(d, n) ELSE {v \in PresentIn(d, n) : ~Doomed(c, v)}
SavedIn(d, stack) == [k \in DOMAIN stack |-> PresentIn(d, stack[k].size)]
AnswerOf(c, a)    == IF c = Idle THEN a ELSE "changed"

\* The promise in terms of the operators above, before a step and after it.
LEMMA PromiseIs ==
  /\ PromisedValues = Kept(dense, regs.size, call)
  /\ PromisedSaved = SavedIn(dense, saved)
  /\ PromisedAnswer = AnswerOf(call, answer)
  /\ PresentValues = PresentIn(dense, regs.size)
  /\ \A n : Present(n) = PresentIn(dense, n)
  /\ \A v : RegsWithout(v) = Without(dense, regs, v)
BY DEF PromisedValues, PromisedSaved, PromisedAnswer, PresentValues, Present, Kept, SavedIn,
       AnswerOf, PresentIn, RegsWithout, Without

\* The same of the next state.
LEMMA PromiseIsNext ==
  /\ PromisedValues' = Kept(dense', regs'.size, call')
  /\ PromisedSaved' = SavedIn(dense', saved')
  /\ PromisedAnswer' = AnswerOf(call', answer')
BY DEF PromisedValues, PromisedSaved, PromisedAnswer, PresentValues, Present, Kept, SavedIn,
       AnswerOf, PresentIn

\* Two stacks of one length whose prefixes hold the same values are one promise.
LEMMA SavedAgree ==
  ASSUME NEW d, NEW e, NEW stack,
         \A k \in DOMAIN stack : PresentIn(e, stack[k].size) = PresentIn(d, stack[k].size)
  PROVE  SavedIn(e, stack) = SavedIn(d, stack)
BY DEF SavedIn

\* contains answers whether the value is in the prefix.
LEMMA ContainsIsPresent ==
  ASSUME SparseSetInv, NEW v
  PROVE  Contains(v) <=> v \in PresentIn(dense, regs.size)
<1>1. \A w : w \in PresentIn(dense, regs.size) <=> w \in DOMAIN sparse /\ sparse[w] < regs.size
  BY ArrayFacts, Zenon DEF SparseSetInv
<1>2. QED
  BY <1>1, Zenon DEF Contains

\* remove takes one value out of the promised set, or finds it absent.
LEMMA RemoveKeeps ==
  ASSUME SparseSetInv, NEW v, Remove(v)
  PROVE  /\ SparseSetInv'
         /\ PromisedValues' = PromisedValues \ {v}
         /\ PromisedAnswer' = IF PromisedValues' = PromisedValues THEN "unchanged" ELSE "changed"
         /\ PromisedSaved' = PromisedSaved
<1>1. /\ call = Idle /\ call' = Idle /\ saved' = saved /\ layout' = layout
  BY Zenon DEF Remove, RemoveValue, Swap, Return, arrays
<1>2. /\ PromisedValues = PresentIn(dense, regs.size)
      /\ PromisedValues' = PresentIn(dense', regs'.size)
      /\ PromisedAnswer' = answer'
      /\ PromisedSaved = SavedIn(dense, saved) /\ PromisedSaved' = SavedIn(dense', saved')
  BY <1>1, PromiseIs, PromiseIsNext DEF Kept, AnswerOf
<1>3. CASE v \in PresentIn(dense, regs.size)
  <2>1. /\ Swapped(dense, sparse, sparse[v], regs.size - 1, dense', sparse')
        /\ regs' = Without(dense, regs, v) /\ answer' = "changed"
    BY <1>3, ContainsIsPresent, PromiseIs DEF Remove, RemoveValue, Swap, Return, Swapped
  <2>2. /\ IsArrays(dense', sparse') /\ IsCopy(dense', sparse', regs')
        /\ IsStack(dense', sparse', regs', saved)
        /\ PresentIn(dense', regs.size - 1) = PresentIn(dense, regs.size) \ {v}
        /\ \A k \in DOMAIN saved :
             PresentIn(dense', saved[k].size) = PresentIn(dense, saved[k].size)
    BY <1>3, <2>1, RemovalEffect DEF SparseSetInv
  <2>3. regs'.size = regs.size - 1
    BY <2>1 DEF Without
  <2>4. SparseSetInv'
    BY <1>1, <2>1, <2>2 DEF SparseSetInv, CallInv
  <2>5. SavedIn(dense', saved) = SavedIn(dense, saved)
    BY <2>2, SavedAgree
  <2>6. QED
    BY <1>1, <1>2, <1>3, <2>1, <2>2, <2>3, <2>4, <2>5
<1>4. CASE v \notin PresentIn(dense, regs.size)
  <2>1. dense' = dense /\ sparse' = sparse /\ regs' = regs /\ answer' = "unchanged"
    BY <1>4, ContainsIsPresent DEF Remove, Return, arrays
  <2>2. SparseSetInv'
    BY <1>1, <2>1 DEF SparseSetInv, CallInv
  <2>3. QED
    BY <1>1, <1>2, <1>4, <2>1, <2>2
<1>5. QED
  BY <1>3, <1>4

\* fix leaves one value, or finds it absent.
LEMMA FixKeeps ==
  ASSUME SparseSetInv, NEW v, Fix(v)
  PROVE  /\ SparseSetInv' /\ PromisedSaved' = PromisedSaved
         /\ \/ /\ v \in PromisedValues /\ PromisedValues' = {v}
               /\ PromisedAnswer' = IF PromisedValues' = PromisedValues THEN "unchanged" ELSE "changed"
            \/ /\ v \notin PromisedValues /\ PromisedValues' = PromisedValues
               /\ PromisedAnswer' = "inconsistent"
<1>1. call = Idle /\ call' = Idle /\ saved' = saved /\ layout' = layout
  BY Zenon DEF Fix, Swap, Return, arrays
<1>2. /\ PromisedValues = PresentIn(dense, regs.size)
      /\ PromisedValues' = PresentIn(dense', regs'.size)
      /\ PromisedAnswer' = answer'
      /\ PromisedSaved = SavedIn(dense, saved) /\ PromisedSaved' = SavedIn(dense', saved')
  BY <1>1, PromiseIs, PromiseIsNext DEF Kept, AnswerOf
<1>3. CASE v \in PresentIn(dense, regs.size)
  <2>1. /\ Swapped(dense, sparse, sparse[v], 0, dense', sparse')
        /\ regs' = [size |-> 1, min |-> v, max |-> v]
        /\ answer' = IF regs.size > 1 THEN "changed" ELSE "unchanged"
    BY <1>3, ContainsIsPresent DEF Fix, Swap, Return, Swapped
  <2>2. /\ IsArrays(dense', sparse') /\ IsCopy(dense', sparse', regs')
        /\ IsStack(dense', sparse', regs', saved)
        /\ PresentIn(dense', 1) = {v}
        /\ \A k \in DOMAIN saved :
             PresentIn(dense', saved[k].size) = PresentIn(dense, saved[k].size)
    BY <1>3, <2>1, FixEffect DEF SparseSetInv
  <2>3. SparseSetInv'
    <3>1. answer' \in {"changed", "unchanged"}
      BY <2>1
    <3>2. QED
      BY <1>1, <2>2, <3>1 DEF SparseSetInv, CallInv
  <2>4. SavedIn(dense', saved) = SavedIn(dense, saved)
    BY <2>2, SavedAgree
  <2>5. regs.size > 1 <=> PresentIn(dense, regs.size) # {v}
    <3>1. /\ IsArrays(dense, sparse) /\ regs.size \in Nat
          /\ regs.size <= Cardinality(DOMAIN sparse) /\ Cardinality(DOMAIN sparse) \in Nat
      BY ArrayFacts DEF SparseSetInv, IsCopy, Regs
    <3>2. /\ v \in DOMAIN sparse /\ sparse[v] < regs.size /\ dense[sparse[v]] = v
          /\ sparse[v] \in 0 .. Cardinality(DOMAIN sparse) - 1
      BY <1>3, <3>1, ArrayFacts
    <3>3. CASE regs.size > 1
      <4> DEFINE p == IF sparse[v] = 0 THEN 1 ELSE 0
      <4>1. p \in DOMAIN dense /\ p < regs.size /\ p # sparse[v]
        BY <3>1, <3>3, ArrayFacts
      <4>2. dense[p] \in PresentIn(dense, regs.size) /\ dense[p] # v
        BY <3>1, <4>1, ArrayFacts DEF PresentIn
      <4>3. QED
        BY <3>3, <4>2
    <3>4. CASE ~(regs.size > 1)
      <4>1. \A w \in PresentIn(dense, regs.size) : w = v
        <5>1. ASSUME NEW w \in PresentIn(dense, regs.size)
              PROVE  w = v
          <6>1. /\ w \in DOMAIN sparse /\ sparse[w] < regs.size /\ dense[sparse[w]] = w
                /\ sparse[w] \in 0 .. Cardinality(DOMAIN sparse) - 1
            BY <3>1, ArrayFacts
          <6>2. sparse[w] = sparse[v]
            BY <3>1, <3>2, <3>4, <6>1
          <6>3. QED
            BY <3>2, <6>1, <6>2
        <5>2. QED
          BY <5>1
      <4>2. QED
        BY <1>3, <3>4, <4>1
    <3>5. QED
      BY <3>3, <3>4
  <2>6. regs'.size = 1
    BY <2>1
  <2>7. QED
    BY <1>1, <1>2, <1>3, <2>1, <2>2, <2>3, <2>4, <2>5, <2>6
<1>4. CASE v \notin PresentIn(dense, regs.size)
  <2>1. dense' = dense /\ sparse' = sparse /\ regs' = regs /\ answer' = "inconsistent"
    BY <1>4, ContainsIsPresent DEF Fix, Return, arrays
  <2>2. SparseSetInv'
    BY <1>1, <2>1 DEF SparseSetInv, CallInv
  <2>3. QED
    BY <1>1, <1>2, <1>4, <2>1, <2>2
<1>5. QED
  BY <1>3, <1>4

\* The current bounds are the extremes of what is present.
LEMMA BoundsOfPresent ==
  ASSUME NEW d, NEW s, IsArrays(d, s), NEW r, IsCopy(d, s, r)
  PROVE  /\ r.size \in Nat /\ r.min \in Int /\ r.max \in Int
         /\ PresentIn(d, r.size) \in SUBSET Int
         /\ r.size = 0 => PresentIn(d, r.size) = {}
         /\ r.size > 0 => /\ r.min \in PresentIn(d, r.size) /\ r.max \in PresentIn(d, r.size)
                          /\ \A v \in PresentIn(d, r.size) : r.min <= v /\ v <= r.max
<1>1. r.size \in Nat /\ r.min \in Int /\ r.max \in Int /\ r.size <= Cardinality(DOMAIN s)
  BY DEF IsCopy, Regs
<1>2. /\ PresentIn(d, r.size) \in SUBSET Int /\ IsFiniteSet(PresentIn(d, r.size))
      /\ r.size > 0 => PresentIn(d, r.size) # {}
      /\ r.size = 0 => PresentIn(d, r.size) = {}
  BY <1>1, PrefixFacts
<1>3. r.size > 0 => /\ r.min \in PresentIn(d, r.size) /\ r.max \in PresentIn(d, r.size)
                    /\ \A v \in PresentIn(d, r.size) : r.min <= v /\ v <= r.max
  BY <1>2, LeastIsLeast DEF IsCopy, Tight
<1>4. QED
  BY <1>1, <1>2, <1>3

\* remove_below and remove_above: the promise is kept when the loop starts.
LEMMA RemoveSideKeeps ==
  ASSUME SparseSetInv, NEW side \in Sides, NEW bound \in Int, RemoveSide(side, bound)
  PROVE  /\ SparseSetInv' /\ PromisedSaved' = PromisedSaved
         /\ PromisedValues' =
              {v \in PromisedValues : IF side = "below" THEN v >= bound ELSE v <= bound}
         /\ PromisedAnswer' = IF PromisedValues' = PromisedValues THEN "unchanged" ELSE "changed"
<1> DEFINE all == PresentIn(dense, regs.size)
<1>1. /\ call = Idle /\ dense' = dense /\ sparse' = sparse /\ layout' = layout
      /\ regs' = regs /\ saved' = saved
  BY DEF RemoveSide, arrays
<1>2. /\ PromisedValues = all /\ PromisedSaved' = PromisedSaved
      /\ PromisedValues' = Kept(dense, regs.size, call')
      /\ PromisedAnswer' = AnswerOf(call', answer')
  BY <1>1, PromiseIs, PromiseIsNext DEF Kept
<1>3. /\ regs.size \in Nat /\ regs.min \in Int /\ regs.max \in Int /\ all \in SUBSET Int
      /\ regs.size = 0 => all = {}
      /\ regs.size > 0 => /\ regs.min \in all /\ regs.max \in all
                          /\ \A v \in all : regs.min <= v /\ v <= regs.max
  BY BoundsOfPresent DEF SparseSetInv
<1>4. /\ layout \in {"dense", "sparse"} /\ IsArrays(dense, sparse) /\ IsCopy(dense, sparse, regs)
      /\ IsStack(dense, sparse, regs, saved)
      /\ answer \in {"none", "changed", "unchanged", "inconsistent"}
  BY DEF SparseSetInv
<1>5. side = "below" \/ side = "above"
  BY DEF Sides
<1>6. CASE regs.size = 0 \/ (IF side = "below" THEN bound <= regs.min ELSE bound >= regs.max)
  <2>1. call' = Idle /\ answer' = "unchanged"
    BY <1>6, <1>3 DEF RemoveSide, Return
  <2>2. SparseSetInv'
    BY <1>1, <1>4, <2>1 DEF SparseSetInv, CallInv
  <2>3. PromisedValues' = all /\ PromisedAnswer' = "unchanged"
    BY <1>2, <2>1 DEF Kept, AnswerOf
  <2>4. \A v \in all : IF side = "below" THEN v >= bound ELSE v <= bound
    <3> HIDE DEF all
    <3>1. QED
      BY <1>3, <1>5, <1>6
  <2> HIDE DEF all
  <2>5. QED
    BY <1>2, <2>2, <2>3, <2>4
<1>7. CASE ~(regs.size = 0 \/ (IF side = "below" THEN bound <= regs.min ELSE bound >= regs.max))
  <2>1. /\ call' = IF layout = "dense"
                   THEN [loop |-> "values", side |-> side, bound |-> bound, changed |-> FALSE,
                         at |-> IF side = "below" THEN regs.min ELSE regs.max]
                   ELSE [loop |-> "positions", side |-> side, bound |-> bound,
                         pos |-> 0, size |-> regs.size]
        /\ answer' = answer
    BY <1>3, <1>7 DEF RemoveSide
  <2>2. call'.side = side /\ call'.bound = bound /\ call' # Idle
    BY <2>1 DEF Idle
  <2> DEFINE first == IF side = "below" THEN regs.min ELSE regs.max
  <2>3. first \in all /\ Doomed(call', first)
    <3> HIDE DEF all
    <3>1. QED
      BY <1>3, <1>5, <1>7, <2>2 DEF Doomed
  <2>4. \A v \in all : IF side = "below" THEN first <= v ELSE v <= first
    <3> HIDE DEF all
    <3>1. QED
      BY <1>3, <1>7
  <2>5. \A v \in all : Doomed(call', v) <=> ~(IF side = "below" THEN v >= bound ELSE v <= bound)
    <3> HIDE DEF all
    <3>1. QED
      BY <1>3, <1>5, <2>2 DEF Doomed
  <2>6. CallInv(dense, regs.size, call')
    <3>1. CASE layout = "dense"
      <4>1. /\ call' \in ValueCalls /\ call'.at = first
        BY <1>3, <2>1, <3>1 DEF ValueCalls
      <4>2. ValueLoopInv(dense, regs.size, call')
        BY <2>2, <2>3, <2>4, <4>1 DEF ValueLoopInv
      <4>3. QED
        BY <4>1, <4>2 DEF CallInv
    <3>2. CASE layout # "dense"
      <4>1. call' \in PositionCalls /\ call'.pos = 0 /\ call'.size = regs.size
        BY <1>3, <2>1, <3>2 DEF PositionCalls
      <4>2. \A p \in DOMAIN dense : p \in Nat
        BY <1>4, ArrayFacts
      <4>3. PositionLoopInv(dense, regs.size, call')
        BY <1>3, <2>3, <4>1, <4>2 DEF PositionLoopInv
      <4>4. QED
        BY <4>1, <4>3 DEF CallInv
    <3>3. QED
      BY <3>1, <3>2
  <2>7. SparseSetInv'
    BY <1>1, <1>4, <2>1, <2>6 DEF SparseSetInv
  <2>8. /\ PromisedValues' = {v \in all : ~Doomed(call', v)}
        /\ PromisedAnswer' = "changed"
    BY <1>2, <2>2 DEF Kept, AnswerOf
  <2> HIDE DEF all, first
  <2>9. PromisedValues' # all
    BY <2>3, <2>8
  <2>10. PromisedValues' = {v \in all : IF side = "below" THEN v >= bound ELSE v <= bound}
    BY <2>5, <2>8
  <2>11. QED
    BY <1>2, <2>7, <2>8, <2>9, <2>10
<1>8. QED
  BY <1>6, <1>7

\* One iteration of the dense loop removes a value that is no longer promised; and
\* the loop never ends without having removed one.
LEMMA ValueLoopKeeps ==
  ASSUME SparseSetInv, ValueLoop
  PROVE  /\ SparseSetInv'
         /\ PromisedValues' = PromisedValues /\ PromisedSaved' = PromisedSaved
         /\ PromisedAnswer' = PromisedAnswer
<1> DEFINE all == PresentIn(dense, regs.size)
           v   == call.at
           next == IF call.side = "below" THEN v + 1 ELSE v - 1
<1>1. /\ layout \in {"dense", "sparse"} /\ IsArrays(dense, sparse) /\ IsCopy(dense, sparse, regs)
      /\ IsStack(dense, sparse, regs, saved)
      /\ answer \in {"none", "changed", "unchanged", "inconsistent"}
  BY DEF SparseSetInv
<1>2. /\ call # Idle /\ call \in ValueCalls /\ ValueLoopInv(dense, regs.size, call)
  <2>1. call.loop = "values" /\ call # Idle
    BY DEF ValueLoop, Idle
  <2>2. call \notin PositionCalls
    BY <2>1 DEF PositionCalls
  <2>3. QED
    BY <2>1, <2>2 DEF SparseSetInv, CallInv
<1>3. /\ call.side \in Sides /\ call.bound \in Int /\ v \in Int /\ next \in Int
      /\ call.changed \in BOOLEAN
  BY <1>2 DEF ValueCalls, Sides
<1>4. /\ regs.size \in Nat /\ all \in SUBSET Int /\ (regs.size = 0 => all = {})
  BY <1>1, BoundsOfPresent
<1>5. /\ \A w \in all : IF call.side = "below" THEN v <= w ELSE w <= v
      /\ call.changed \/ (v \in all /\ Doomed(call, v))
  BY <1>2 DEF ValueLoopInv
<1>6. /\ PromisedValues = {w \in all : ~Doomed(call, w)} /\ PromisedAnswer = "changed"
      /\ PromisedSaved = SavedIn(dense, saved) /\ PromisedSaved' = SavedIn(dense', saved')
      /\ PromisedValues' = Kept(dense', regs'.size, call')
      /\ PromisedAnswer' = AnswerOf(call', answer')
  BY <1>2, PromiseIs, PromiseIsNext DEF Kept, AnswerOf
<1>7. saved' = saved /\ layout' = layout
  BY DEF ValueLoop, RemoveValue, Swap, arrays
<1>8. CASE Doomed(call, v)
  <2> DEFINE rest == PresentIn(dense', regs'.size)
  <2>1. /\ IsArrays(dense', sparse') /\ IsCopy(dense', sparse', regs')
        /\ IsStack(dense', sparse', regs', saved)
        /\ rest = all \ {v}
        /\ PromisedSaved' = PromisedSaved
    <3>1. CASE v \in all
      <4>1. /\ Swapped(dense, sparse, sparse[v], regs.size - 1, dense', sparse')
            /\ regs' = Without(dense, regs, v)
        BY <1>8, <3>1, ContainsIsPresent, PromiseIs DEF ValueLoop, RemoveValue, Swap, Swapped
      <4>2. /\ IsArrays(dense', sparse') /\ IsCopy(dense', sparse', regs')
            /\ IsStack(dense', sparse', regs', saved)
            /\ PresentIn(dense', regs.size - 1) = all \ {v}
            /\ \A k \in DOMAIN saved :
                 PresentIn(dense', saved[k].size) = PresentIn(dense, saved[k].size)
        BY <1>1, <3>1, <4>1, RemovalEffect
      <4>3. regs'.size = regs.size - 1
        BY <4>1 DEF Without
      <4>4. PromisedSaved' = PromisedSaved
        BY <1>6, <1>7, <4>2, SavedAgree
      <4>5. QED
        BY <4>2, <4>3, <4>4
    <3>2. CASE v \notin all
      <4>1. dense' = dense /\ sparse' = sparse /\ regs' = regs
        BY <1>8, <3>2, ContainsIsPresent DEF ValueLoop, arrays
      <4>2. QED
        BY <1>1, <1>6, <1>7, <3>2, <4>1
    <3>3. QED
      BY <3>1, <3>2
  <2>2. call.changed \/ Contains(v)
    BY <1>5, ContainsIsPresent
  <2>3. regs'.size \in Nat /\ (regs'.size = 0 => rest = {})
    BY <2>1, BoundsOfPresent
  <2>4. IF regs'.size = 0 THEN call' = Idle /\ answer' = "changed"
        ELSE call' = [call EXCEPT !.at = next, !.changed = TRUE] /\ answer' = answer
    BY <1>8, <1>3, <2>2 DEF ValueLoop, Return
  <2>5. CASE regs'.size = 0
    <3>1. call' = Idle /\ answer' = "changed" /\ rest = {}
      BY <2>3, <2>4, <2>5
    <3>2. SparseSetInv'
      BY <1>1, <1>7, <2>1, <3>1 DEF SparseSetInv, CallInv
    <3>3. PromisedValues' = rest /\ PromisedAnswer' = "changed"
      BY <1>6, <3>1 DEF Kept, AnswerOf
    <3> HIDE DEF all, rest, v, next
    <3>4. \A w \in all : Doomed(call, w)
      BY <1>8, <2>1, <3>1
    <3>5. QED
      BY <1>6, <2>1, <3>1, <3>2, <3>3, <3>4
  <2>6. CASE regs'.size # 0
    <3>1. call' = [call EXCEPT !.at = next, !.changed = TRUE] /\ answer' = answer
      BY <2>4, <2>6
    <3>2. /\ call' \in ValueCalls /\ call'.loop = "values" /\ call'.side = call.side
          /\ call'.bound = call.bound /\ call'.changed = TRUE /\ call'.at = next
      <4> HIDE DEF next
      <4>1. QED
        BY <1>2, <1>3, <3>1 DEF ValueCalls
    <3>0. call' # Idle
      BY <3>2 DEF Idle
    <3> HIDE DEF all, rest
    <3>3. \A w \in rest : IF call.side = "below" THEN next <= w ELSE w <= next
      BY <1>3, <1>4, <1>5, <2>1
    <3>4. \A w : Doomed(call', w) <=> Doomed(call, w)
      BY <3>2 DEF Doomed
    <3>5. ValueLoopInv(dense', regs'.size, call')
      BY <3>2, <3>3 DEF ValueLoopInv, rest
    <3>6. SparseSetInv'
      BY <1>1, <1>7, <2>1, <3>1, <3>2, <3>5 DEF SparseSetInv, CallInv
    <3>7. PromisedValues' = {w \in rest : ~Doomed(call', w)} /\ PromisedAnswer' = "changed"
      BY <1>6, <3>0 DEF Kept, AnswerOf, rest
    <3> HIDE DEF v, next
    <3>8. {w \in rest : ~Doomed(call', w)} = {w \in all : ~Doomed(call, w)}
      BY <1>8, <2>1, <3>4
    <3>9. QED
      BY <1>6, <2>1, <3>6, <3>7, <3>8
  <2>7. QED
    BY <2>5, <2>6
<1>9. CASE ~Doomed(call, v)
  <2>1. call.changed = TRUE
    BY <1>3, <1>5, <1>9
  <2>2. /\ call' = Idle /\ answer' = "changed"
        /\ dense' = dense /\ sparse' = sparse /\ regs' = regs
    BY <1>9, <2>1 DEF ValueLoop, Return, arrays
  <2>3. SparseSetInv'
    BY <1>1, <1>7, <2>2 DEF SparseSetInv, CallInv
  <2>4. PromisedValues' = all /\ PromisedAnswer' = "changed" /\ PromisedSaved' = PromisedSaved
    BY <1>6, <1>7, <2>2 DEF Kept, AnswerOf
  <2>5. \A w \in all : ~Doomed(call, w)
    <3> HIDE DEF all
    <3>1. QED
      BY <1>3, <1>4, <1>5, <1>9 DEF Doomed, Sides
  <2> HIDE DEF all
  <2>6. QED
    BY <1>6, <2>3, <2>4, <2>5
<1>10. QED
  BY <1>8, <1>9

\* What the invariant says while remove_if runs.
LEMMA PositionLoopFacts ==
  ASSUME SparseSetInv, call.loop = "positions"
  PROVE  /\ layout \in {"dense", "sparse"} /\ IsArrays(dense, sparse)
         /\ IsCopy(dense, sparse, regs) /\ IsStack(dense, sparse, regs, saved)
         /\ answer \in {"none", "changed", "unchanged", "inconsistent"}
         /\ call # Idle /\ call \in PositionCalls /\ PositionLoopInv(dense, regs.size, call)
         /\ call.side \in Sides /\ call.bound \in Int /\ call.pos \in Nat /\ call.size \in Nat
         /\ call.pos <= call.size /\ call.size <= regs.size
         /\ regs.size \in Nat /\ regs.size <= Cardinality(DOMAIN sparse)
         /\ Cardinality(DOMAIN sparse) \in Nat
         /\ DOMAIN dense = 0 .. Cardinality(DOMAIN sparse) - 1
         /\ PromisedValues = {w \in PresentIn(dense, regs.size) : ~Doomed(call, w)}
         /\ PromisedAnswer = "changed"
<1>1. call # Idle /\ call \notin ValueCalls
  BY DEF Idle, ValueCalls
<1>2. call \in PositionCalls /\ PositionLoopInv(dense, regs.size, call)
  BY <1>1 DEF SparseSetInv, CallInv
<1>3. call.side \in Sides /\ call.bound \in Int /\ call.pos \in Nat /\ call.size \in Nat
  BY <1>2 DEF PositionCalls
<1>4. call.pos <= call.size /\ call.size <= regs.size
  BY <1>2 DEF PositionLoopInv
<1>5. /\ layout \in {"dense", "sparse"} /\ IsArrays(dense, sparse)
      /\ IsCopy(dense, sparse, regs) /\ IsStack(dense, sparse, regs, saved)
      /\ answer \in {"none", "changed", "unchanged", "inconsistent"}
  BY DEF SparseSetInv
<1>6. regs.size \in Nat /\ regs.size <= Cardinality(DOMAIN sparse)
  BY <1>5 DEF IsCopy, Regs
<1>7. Cardinality(DOMAIN sparse) \in Nat /\ DOMAIN dense = 0 .. Cardinality(DOMAIN sparse) - 1
  BY <1>5, ArrayFacts
<1>8. /\ PromisedValues = {w \in PresentIn(dense, regs.size) : ~Doomed(call, w)}
      /\ PromisedAnswer = "changed"
  BY <1>1, PromiseIs DEF Kept, AnswerOf
<1>9. QED
  BY <1>1, <1>2, <1>3, <1>4, <1>5, <1>6, <1>7, <1>8

\* One iteration of remove_if permutes the prefix and decides one more position.
LEMMA PositionLoopKeeps ==
  ASSUME SparseSetInv, PositionLoop
  PROVE  /\ SparseSetInv'
         /\ PromisedValues' = PromisedValues /\ PromisedSaved' = PromisedSaved
         /\ PromisedAnswer' = PromisedAnswer
<1> DEFINE n == regs.size
           doomed == Doomed(call, dense[call.pos])
<1>1. call.loop = "positions" /\ call.pos < call.size
  BY DEF PositionLoop
<1>2. /\ layout' = layout /\ regs' = regs /\ saved' = saved /\ answer' = answer
  BY DEF PositionLoop, Swap, arrays
<1>3. call.pos \in DOMAIN dense /\ call.size - 1 \in DOMAIN dense
      /\ call.pos < n /\ call.size - 1 < n
      /\ IsArrays(dense, sparse) /\ IsCopy(dense, sparse, regs)
      /\ IsStack(dense, sparse, regs, saved)
  BY <1>1, PositionLoopFacts
<1>4. /\ IsArrays(dense', sparse') /\ IsCopy(dense', sparse', regs)
      /\ IsStack(dense', sparse', regs, saved)
      /\ PresentIn(dense', n) = PresentIn(dense, n)
      /\ SavedIn(dense', saved) = SavedIn(dense, saved)
  <2>1. CASE doomed
    <3>1. Swapped(dense, sparse, call.pos, call.size - 1, dense', sparse')
      BY <2>1 DEF PositionLoop, Swap, Swapped
    <3>2. IsArrays(dense', sparse')
      BY <1>3, <3>1, SwapKeepsArrays
    <3>3. /\ IsCopy(dense', sparse', regs) /\ IsStack(dense', sparse', regs, saved)
          /\ PresentIn(dense', n) = PresentIn(dense, n)
          /\ \A k \in DOMAIN saved :
               PresentIn(dense', saved[k].size) = PresentIn(dense, saved[k].size)
      BY <1>3, <3>1, SwapKeepsCopies
    <3>4. QED
      BY <3>2, <3>3, SavedAgree
  <2>2. CASE ~doomed
    <3>1. dense' = dense /\ sparse' = sparse
      BY <2>2 DEF PositionLoop, arrays
    <3>2. QED
      BY <1>1, <3>1, PositionLoopFacts
  <2>3. QED
    BY <2>1, <2>2
<1>5. /\ call' \in PositionCalls /\ call'.loop = "positions" /\ call'.side = call.side
      /\ call'.bound = call.bound
      /\ IF doomed THEN call'.pos = call.pos /\ call'.size = call.size - 1
                   ELSE call'.pos = call.pos + 1 /\ call'.size = call.size
  <2> HIDE DEF doomed
  <2>1. call' = IF doomed THEN [call EXCEPT !.size = call.size - 1]
                ELSE [call EXCEPT !.pos = call.pos + 1]
    BY DEF PositionLoop, doomed
  <2>2. call \in PositionCalls /\ call.pos + 1 \in Nat /\ call.size - 1 \in Nat
    BY <1>1, PositionLoopFacts
  <2>3. QED
    BY <2>1, <2>2 DEF PositionCalls
<1>6. call' # Idle
  BY <1>5 DEF Idle
<1>7. \A w : Doomed(call', w) <=> Doomed(call, w)
  BY <1>5 DEF Doomed
<1>8. PositionLoopInv(dense', n, call')
  <2>1. /\ \A p \in DOMAIN dense : p < call.pos => ~Doomed(call, dense[p])
        /\ \A p \in DOMAIN dense : call.size <= p /\ p < n => Doomed(call, dense[p])
        /\ \E v \in PresentIn(dense, n) : Doomed(call, v)
    BY <1>1, PositionLoopFacts DEF PositionLoopInv
  <2>2. DOMAIN dense' = DOMAIN dense
    <3>1. CASE doomed
      BY <3>1 DEF PositionLoop, Swap
    <3>2. CASE ~doomed
      BY <3>2 DEF PositionLoop, arrays
    <3>3. QED
      BY <3>1, <3>2
  <2>3. \E v \in PresentIn(dense', n) : Doomed(call', v)
    BY <2>1, <1>4, <1>7
  <2>4. call.pos \in Nat /\ call.size \in Nat /\ n \in Nat /\ \A p \in DOMAIN dense : p \in Nat
    BY <1>1, PositionLoopFacts
  <2>5. call'.pos <= call'.size /\ call'.size <= n
    BY <1>1, <1>3, <1>5, <2>4
  <2>6. /\ \A p \in DOMAIN dense : p < call'.pos => ~Doomed(call, dense'[p])
        /\ \A p \in DOMAIN dense : call'.size <= p /\ p < n => Doomed(call, dense'[p])
    <3>1. CASE doomed
      <4>1. Swapped(dense, sparse, call.pos, call.size - 1, dense', sparse')
        BY <3>1 DEF PositionLoop, Swap, Swapped
      <4>2. /\ dense'[call.size - 1] = dense[call.pos]
            /\ \A r \in DOMAIN dense : r # call.pos /\ r # call.size - 1 => dense'[r] = dense[r]
        BY <1>3, <4>1, SwapKeepsArrays
      <4>3. ASSUME NEW p \in DOMAIN dense, p < call'.pos
            PROVE  ~Doomed(call, dense'[p])
        <5>1. p < call.pos /\ p # call.pos /\ p # call.size - 1
          BY <1>1, <1>5, <2>4, <3>1, <4>3
        <5>2. QED
          BY <2>1, <4>2, <5>1
      <4>4. ASSUME NEW p \in DOMAIN dense, call'.size <= p, p < n
            PROVE  Doomed(call, dense'[p])
        <5>1. CASE p = call.size - 1
          BY <3>1, <4>2, <5>1
        <5>2. CASE p # call.size - 1
          <6>1. call.size <= p /\ p # call.pos
            BY <1>1, <1>5, <2>4, <3>1, <4>4, <5>2
          <6>2. QED
            BY <2>1, <4>2, <4>4, <5>2, <6>1
        <5>3. QED
          BY <5>1, <5>2
      <4>5. QED
        BY <4>3, <4>4
    <3>2. CASE ~doomed
      <4>1. dense' = dense
        BY <3>2 DEF PositionLoop, arrays
      <4>2. \A p \in DOMAIN dense : p < call'.pos => p < call.pos \/ p = call.pos
        BY <1>5, <2>4, <3>2
      <4>3. QED
        BY <1>5, <2>1, <3>2, <4>1, <4>2
    <3>3. QED
      BY <3>1, <3>2
  <2>7. QED
    BY <1>7, <2>2, <2>3, <2>5, <2>6 DEF PositionLoopInv
<1>9. SparseSetInv'
  BY <1>1, <1>2, <1>4, <1>5, <1>8, PositionLoopFacts DEF SparseSetInv, CallInv
<1>10. /\ PromisedValues' = {w \in PresentIn(dense', n) : ~Doomed(call', w)}
       /\ PromisedAnswer' = "changed" /\ PromisedSaved' = SavedIn(dense', saved)
  BY <1>2, <1>6, PromiseIsNext DEF Kept, AnswerOf
<1>11. PromisedValues' = PromisedValues
  BY <1>1, <1>4, <1>7, <1>10, PositionLoopFacts
<1>12. QED
  BY <1>1, <1>4, <1>9, <1>10, <1>11, PositionLoopFacts, PromiseIs

\* remove_if after its loop: what is left is what was promised, with its extremes.
LEMMA PositionLoopEndsKeeps ==
  ASSUME SparseSetInv, PositionLoopEnds
  PROVE  /\ SparseSetInv'
         /\ PromisedValues' = PromisedValues /\ PromisedSaved' = PromisedSaved
         /\ PromisedAnswer' = PromisedAnswer
<1> DEFINE left == PresentIn(dense, call.size)
           all  == PresentIn(dense, regs.size)
<1>1. /\ call.loop = "positions" /\ call.pos >= call.size
      /\ call' = Idle /\ dense' = dense /\ sparse' = sparse /\ layout' = layout /\ saved' = saved
      /\ answer' = IF call.size = regs.size THEN "unchanged" ELSE "changed"
      /\ call.size # regs.size =>
           regs' = IF call.size = 0 THEN [regs EXCEPT !.size = 0]
                   ELSE [size |-> call.size, min |-> Least(left), max |-> Greatest(left)]
  BY PromiseIs DEF PositionLoopEnds, Return, arrays
<1>2. /\ IsArrays(dense, sparse) /\ IsCopy(dense, sparse, regs)
      /\ IsStack(dense, sparse, regs, saved)
      /\ call.pos = call.size /\ call.size <= regs.size /\ call.size \in Nat
      /\ regs.size \in Nat /\ regs.size <= Cardinality(DOMAIN sparse)
      /\ Cardinality(DOMAIN sparse) \in Nat /\ layout \in {"dense", "sparse"}
      /\ PositionLoopInv(dense, regs.size, call)
  BY <1>1, PositionLoopFacts
<1>3. \A v : v \in left <=> v \in all /\ ~Doomed(call, v)
  <2>1. /\ \A p \in DOMAIN dense : p < call.size => ~Doomed(call, dense[p])
        /\ \A p \in DOMAIN dense : call.size <= p /\ p < regs.size => Doomed(call, dense[p])
    BY <1>2 DEF PositionLoopInv
  <2>2. \A p \in DOMAIN dense : p \in Nat
    BY <1>2, ArrayFacts
  <2>3. \A p \in DOMAIN dense : p < call.size => p < regs.size
    BY <1>2, <2>2
  <2>4. \A p \in DOMAIN dense : p < regs.size => p < call.size \/ call.size <= p
    BY <1>2, <2>2
  <2>5. QED
    BY <2>1, <2>3, <2>4, Zenon DEF PresentIn
<1>4. PICK gone \in all : Doomed(call, gone)
  BY <1>2 DEF PositionLoopInv
<1>5. call.size # regs.size
  BY <1>3, <1>4
<1>6. regs' = IF call.size = 0 THEN [regs EXCEPT !.size = 0]
              ELSE [size |-> call.size, min |-> Least(left), max |-> Greatest(left)]
  BY <1>1, <1>5
<1>7. IsCopy(dense, sparse, regs') /\ regs'.size = call.size
  <2>1. regs \in Regs /\ call.size <= Cardinality(DOMAIN sparse)
    BY <1>2 DEF IsCopy
  <2>2. CASE call.size = 0
    <3>1. regs' = [regs EXCEPT !.size = 0]
      BY <1>6, <2>2
    <3>2. regs' \in Regs /\ regs'.size = 0
      BY <2>1, <3>1 DEF Regs
    <3>3. QED
      BY <2>1, <2>2, <3>2 DEF IsCopy, Tight
  <2>3. CASE call.size # 0
    <3>1. regs' = [size |-> call.size, min |-> Least(left), max |-> Greatest(left)]
      BY <1>6, <2>3
    <3>2. left \in SUBSET Int /\ IsFiniteSet(left) /\ left # {}
      BY <1>2, <2>1, <2>3, PrefixFacts
    <3> HIDE DEF left
    <3>3. Least(left) \in Int /\ Greatest(left) \in Int
      BY <3>2, LeastIsLeast
    <3>4. regs' \in Regs /\ regs'.size = call.size /\ regs'.min = Least(left)
          /\ regs'.max = Greatest(left)
      BY <1>2, <3>1, <3>3 DEF Regs
    <3>5. QED
      BY <2>1, <3>4 DEF IsCopy, Tight, left
  <2>4. QED
    BY <2>2, <2>3
<1>8. IsStack(dense, sparse, regs', saved)
  BY <1>2, <1>7, StackOfSmaller
<1>9. answer' = "changed"
  BY <1>1, <1>5
<1>10. SparseSetInv'
  BY <1>1, <1>2, <1>7, <1>8, <1>9 DEF SparseSetInv, CallInv
<1>11. /\ PromisedValues' = left /\ PromisedAnswer' = "changed"
       /\ PromisedSaved' = PromisedSaved
  BY <1>1, <1>7, <1>9, PromiseIs, PromiseIsNext DEF Kept, AnswerOf
<1>12. PromisedValues = {w \in all : ~Doomed(call, w)} /\ PromisedAnswer = "changed"
  BY <1>1, PositionLoopFacts
<1> HIDE DEF left, all
<1>13. left = {w \in all : ~Doomed(call, w)}
  BY <1>3
<1>14. QED
  BY <1>10, <1>11, <1>12, <1>13

\* What a map over a stack does when the stack grows and shrinks.
LEMMA MapOfAppend ==
  ASSUME NEW S, NEW stack \in Seq(S), NEW e \in S,
         NEW f, IsMap(f, Len(stack)), NEW g, IsMap(g, Len(Append(stack, e))),
         \A k \in DOMAIN stack : g[k] = f[k]
  PROVE  g = Append(f, g[Len(stack) + 1])
<1>1. Len(stack) \in Nat /\ DOMAIN stack = 1 .. Len(stack)
      /\ Len(Append(stack, e)) = Len(stack) + 1
  BY SeqFacts
<1>2. QED
  BY <1>1, AppendToFunction

\* A map over a stack loses its last element with it.
LEMMA MapOfFront ==
  ASSUME NEW S, NEW stack \in Seq(S), stack # <<>>,
         NEW f, IsMap(f, Len(stack)), NEW g, IsMap(g, Len(stack) - 1),
         \A k \in 1 .. Len(stack) - 1 : g[k] = f[k]
  PROVE  /\ f # <<>> /\ Len(f) = Len(stack)
         /\ g = SubSeq(f, 1, Len(f) - 1)
<1> DEFINE h == Len(stack) - 1
<1>1. h \in Nat /\ Len(stack) = h + 1
  OBVIOUS
<1>2. g = SubSeq(f, 1, h)
  <2>1. IsMap(f, h + 1) /\ IsMap(g, h) /\ \A k \in 1 .. h : g[k] = f[k]
    BY <1>1
  <2> HIDE DEF h
  <2>2. QED
    BY <1>1, <2>1, PrefixOfFunction
<1>3. Len(f) = h + 1 /\ f # <<>>
  <2> HIDE DEF h
  <2>1. DOMAIN f = 1 .. h + 1
    BY <1>1 DEF IsMap
  <2>2. Len(f) = h + 1
    BY <1>1, <2>1
  <2>3. f # <<>>
    BY <1>1, <2>2
  <2>4. QED
    BY <2>2, <2>3
<1>4. Len(f) = Len(stack) /\ Len(f) - 1 = h
  BY <1>1, <1>3
<1>5. QED
  BY <1>2, <1>3, <1>4, Zenon

\* The promised sets are a sequence as long as the stack.
LEMMA SavedInIsMap ==
  ASSUME NEW d, NEW S, NEW stack \in Seq(S)
  PROVE  IsMap(SavedIn(d, stack), Len(stack))
<1>1. DOMAIN stack = 1 .. Len(stack)
  BY SeqFacts
<1>2. QED
  BY <1>1 DEF SavedIn, IsMap

\* Opening a level saves the promised set.
LEMMA OpenLevelKeeps ==
  ASSUME SparseSetInv, OpenLevel
  PROVE  /\ SparseSetInv'
         /\ PromisedSaved' = Append(PromisedSaved, PromisedValues)
         /\ PromisedValues' = PromisedValues /\ PromisedAnswer' = PromisedAnswer
<1> DEFINE n == Len(saved)
           stack == Append(saved, regs)
<1>1. /\ call = Idle /\ saved' = stack
      /\ dense' = dense /\ sparse' = sparse /\ layout' = layout
      /\ regs' = regs /\ call' = call /\ answer' = answer
  BY DEF OpenLevel, arrays
<1>2. /\ saved \in Seq(Regs) /\ regs \in Regs /\ IsCopy(dense, sparse, regs)
      /\ \A k \in DOMAIN saved : IsCopy(dense, sparse, saved[k]) /\ regs.size <= saved[k].size
      /\ \A j, k \in DOMAIN saved : j < k => saved[k].size <= saved[j].size
  BY DEF SparseSetInv, IsStack, IsCopy
<1>3. /\ n \in Nat /\ DOMAIN saved = 1 .. n
      /\ stack \in Seq(Regs) /\ Len(stack) = n + 1 /\ DOMAIN stack = 1 .. n + 1
      /\ \A k \in 1 .. n : stack[k] = saved[k]
      /\ stack[n + 1] = regs
  BY <1>2, SeqFacts
<1> HIDE DEF stack, n
<1>4. regs.size \in Nat
  BY <1>2 DEF Regs
<1>5. \A k \in DOMAIN stack : IsCopy(dense, sparse, stack[k]) /\ regs.size <= stack[k].size
  <2>1. \A k \in 1 .. n + 1 : k \in 1 .. n \/ k = n + 1
    BY <1>3
  <2>2. QED
    BY <2>1, <1>2, <1>3, <1>4
<1>6. \A j, k \in DOMAIN stack : j < k => stack[k].size <= stack[j].size
  <2>1. \A j, k \in 1 .. n + 1 : j < k => j \in 1 .. n /\ (k \in 1 .. n \/ k = n + 1)
    BY <1>3
  <2>2. QED
    BY <2>1, <1>2, <1>3
<1>7. IsStack(dense, sparse, regs, stack)
  BY <1>3, <1>5, <1>6, Zenon DEF IsStack
<1>8. SparseSetInv'
  BY <1>1, <1>7 DEF SparseSetInv
<1>9. SavedIn(dense, stack) = Append(SavedIn(dense, saved), PresentIn(dense, regs.size))
  <2> DEFINE f == SavedIn(dense, saved)
             g == SavedIn(dense, stack)
  <2>1. IsMap(f, n) /\ IsMap(g, n + 1)
    BY <1>2, <1>3, SavedInIsMap DEF n
  <2>2. \A k \in 1 .. n : k \in 1 .. n + 1
    BY <1>3
  <2>3. \A k \in 1 .. n : g[k] = f[k]
    BY <1>3, <2>2 DEF SavedIn
  <2>4. n + 1 \in 1 .. n + 1
    BY <1>3
  <2>5. g[n + 1] = PresentIn(dense, regs.size)
    BY <1>3, <2>4 DEF SavedIn
  <2> HIDE DEF f, g
  <2>6. g = Append(f, g[n + 1])
    BY <1>3, <2>1, <2>3, AppendToFunction
  <2>7. QED
    BY <2>5, <2>6 DEF f, g
<1>10. PromisedValues = PresentIn(dense, regs.size)
  BY <1>1, PromiseIs DEF Kept
<1>11. PromisedValues' = PromisedValues /\ PromisedAnswer' = PromisedAnswer
  BY <1>1, PromiseIs, PromiseIsNext
<1>12. QED
  BY <1>1, <1>8, <1>9, <1>10, <1>11, PromiseIs, PromiseIsNext

\* Closing a level brings back the set it saved, from the size alone.
LEMMA CloseLevelKeeps ==
  ASSUME SparseSetInv, CloseLevel
  PROVE  /\ SparseSetInv'
         /\ PromisedSaved # <<>>
         /\ PromisedValues' = PromisedSaved[Len(PromisedSaved)]
         /\ PromisedSaved' = SubSeq(PromisedSaved, 1, Len(PromisedSaved) - 1)
         /\ PromisedAnswer' = PromisedAnswer
<1> DEFINE n == Len(saved)
           h == Len(saved) - 1
           stack == SubSeq(saved, 1, h)
<1>1. /\ call = Idle /\ saved # <<>> /\ saved' = stack /\ regs' = saved[n]
      /\ dense' = dense /\ sparse' = sparse /\ layout' = layout
      /\ call' = call /\ answer' = answer
  BY DEF CloseLevel, arrays
<1>2. /\ saved \in Seq(Regs)
      /\ \A k \in DOMAIN saved : IsCopy(dense, sparse, saved[k]) /\ regs.size <= saved[k].size
      /\ \A j, k \in DOMAIN saved : j < k => saved[k].size <= saved[j].size
  BY DEF SparseSetInv, IsStack
<1>3. /\ n \in Nat /\ n > 0 /\ h \in 0 .. n /\ h \in Nat /\ n = h + 1
      /\ DOMAIN saved = 1 .. n /\ n \in 1 .. n
  <2>1. n \in Nat /\ DOMAIN saved = 1 .. n
    BY <1>2, SeqFacts
  <2>2. n # 0
    BY <1>1, <1>2
  <2>3. QED
    BY <2>1, <2>2
<1>4. /\ stack \in Seq(Regs) /\ Len(stack) = h /\ DOMAIN stack = 1 .. h
      /\ \A k \in 1 .. h : stack[k] = saved[k]
  BY <1>2, <1>3, SeqFacts
<1> HIDE DEF stack, n, h
<1>5. \A k \in 1 .. h : k \in DOMAIN saved /\ k < n
  BY <1>3
<1>6. IsStack(dense, sparse, regs', stack) /\ IsCopy(dense, sparse, regs')
  <2>1. \A k \in DOMAIN stack : IsCopy(dense, sparse, stack[k]) /\ regs'.size <= stack[k].size
    BY <1>1, <1>2, <1>3, <1>4, <1>5
  <2>2. \A j, k \in DOMAIN stack : j < k => stack[k].size <= stack[j].size
    BY <1>2, <1>4, <1>5
  <2>3. IsCopy(dense, sparse, regs')
    BY <1>1, <1>2, <1>3
  <2>4. QED
    BY <1>4, <2>1, <2>2, <2>3, Zenon DEF IsStack
<1>7. SparseSetInv'
  BY <1>1, <1>6 DEF SparseSetInv, CallInv
<1>8. /\ PromisedSaved = SavedIn(dense, saved) /\ PromisedSaved' = SavedIn(dense, stack)
      /\ PromisedValues' = PresentIn(dense, saved[n].size) /\ PromisedAnswer' = PromisedAnswer
  BY <1>1, PromiseIs, PromiseIsNext DEF Kept, AnswerOf
<1>9. SavedIn(dense, saved)[n] = PresentIn(dense, saved[n].size)
  BY <1>3 DEF SavedIn
<1>10. /\ SavedIn(dense, saved) # <<>> /\ Len(SavedIn(dense, saved)) = n
       /\ SavedIn(dense, stack) = SubSeq(SavedIn(dense, saved), 1, n - 1)
  <2> DEFINE f == SavedIn(dense, saved)
             g == SavedIn(dense, stack)
  <2>1. IsMap(f, n) /\ IsMap(g, h)
    BY <1>2, <1>4, SavedInIsMap DEF n
  <2>2. \A k \in 1 .. h : g[k] = f[k]
    BY <1>4, <1>5 DEF SavedIn
  <2> HIDE DEF f, g
  <2>3. n - 1 = h
    BY <1>3
  <2>4. f # <<>> /\ Len(f) = n /\ g = SubSeq(f, 1, Len(f) - 1)
    <3>1. /\ saved \in Seq(Regs) /\ saved # <<>> /\ IsMap(f, Len(saved)) /\ IsMap(g, Len(saved) - 1)
          /\ \A k \in 1 .. Len(saved) - 1 : g[k] = f[k]
      BY <1>1, <1>2, <2>1, <2>2, <2>3 DEF n
    <3>2. QED
      BY <3>1, MapOfFront DEF n
  <2>5. QED
    BY <2>4 DEF f, g
<1>11. QED
  BY <1>7, <1>8, <1>9, <1>10

\* The invariant says what the runs check of a sparse set.
LEMMA SparseSetInvImplies ==
  ASSUME SparseSetInv
  PROVE  RepresentationInv
<1>1. /\ IsArrays(dense, sparse) /\ IsCopy(dense, sparse, regs)
      /\ saved \in Seq(Regs) /\ \A k \in DOMAIN saved : IsCopy(dense, sparse, saved[k])
      /\ answer \in {"none", "changed", "unchanged", "inconsistent"}
  BY DEF SparseSetInv, IsStack
<1>2. call.loop \in {"idle", "values", "positions"}
  BY DEF SparseSetInv, CallInv, Idle, ValueCalls, PositionCalls
<1>3. SparseSetTypeOK
  <2>1. DOMAIN dense = 0 .. Cardinality(DOMAIN sparse) - 1
    BY <1>1, ArrayFacts
  <2>2. /\ DOMAIN sparse \subseteq Int /\ dense \in [DOMAIN dense -> DOMAIN sparse]
        /\ sparse \in [DOMAIN sparse -> DOMAIN dense]
    BY <1>1 DEF IsArrays
  <2>3. regs \in Regs
    BY <1>1 DEF IsCopy
  <2>4. QED
    BY <1>1, <1>2, <2>1, <2>2, <2>3 DEF SparseSetTypeOK
<1>4. ArraysAreInverse
  BY <1>1 DEF IsArrays, ArraysAreInverse
<1>5. \A r : IsCopy(dense, sparse, r) => TightBounds(r)
  BY DEF IsCopy, Tight, TightBounds, Present, PresentIn
<1>6. BoundsAreExact
  BY <1>1, <1>5, Zenon DEF BoundsAreExact
<1>7. QED
  BY <1>3, <1>4, <1>6 DEF RepresentationInv

\* Every step of a sparse set keeps the invariant and is one that the promise allows.
LEMMA SparseSetStep ==
  ASSUME SparseSetInv, SparseSetNext
  PROVE  SparseSetInv' /\ [Promise!Next]_(Promise!domainVars)
<1>1. SUFFICES SparseSetInv' /\ (layout' # "bounds" => [Promise!Next]_(Promise!domainVars))
  BY DEF SparseSetInv
<1>2. layout # "bounds"
  BY DEF SparseSetInv
<1>3. ASSUME NEW v \in Inputs, Remove(v)
      PROVE  SparseSetInv' /\ (layout' # "bounds" => Promise!Remove(v))
  BY <1>2, <1>3, RemoveKeeps DEF Promise!Remove, Promise!Shrink
<1>4. ASSUME NEW v \in Inputs, Fix(v)
      PROVE  SparseSetInv' /\ (layout' # "bounds" => Promise!Fix(v))
  BY <1>2, <1>4, FixKeeps DEF Promise!Fix, Promise!Shrink
<1>5. ASSUME NEW v \in Inputs, RemoveBelow(v)
      PROVE  SparseSetInv' /\ (layout' # "bounds" => Promise!RemoveBelow(v))
  <2>1. RemoveSide("below", v) /\ v \in Int /\ "below" \in Sides
    BY <1>5, SparseSetAssumption DEF RemoveBelow, Sides
  <2>2. /\ SparseSetInv' /\ PromisedSaved' = PromisedSaved
        /\ PromisedValues' = {w \in PromisedValues : w >= v}
        /\ PromisedAnswer' = IF PromisedValues' = PromisedValues THEN "unchanged" ELSE "changed"
    BY <2>1, RemoveSideKeeps
  <2>3. QED
    BY <1>2, <2>2 DEF Promise!RemoveBelow, Promise!Shrink
<1>6. ASSUME NEW v \in Inputs, RemoveAbove(v)
      PROVE  SparseSetInv' /\ (layout' # "bounds" => Promise!RemoveAbove(v))
  <2>1. RemoveSide("above", v) /\ v \in Int /\ "above" \in Sides
    BY <1>6, SparseSetAssumption DEF RemoveAbove, Sides
  <2>2. /\ SparseSetInv' /\ PromisedSaved' = PromisedSaved
        /\ PromisedValues' = {w \in PromisedValues : w <= v}
        /\ PromisedAnswer' = IF PromisedValues' = PromisedValues THEN "unchanged" ELSE "changed"
    BY <2>1, RemoveSideKeeps
  <2>3. QED
    BY <1>2, <2>2 DEF Promise!RemoveAbove, Promise!Shrink
<1>7. ASSUME ValueLoop \/ PositionLoop \/ PositionLoopEnds
      PROVE  SparseSetInv' /\ (layout' # "bounds" => UNCHANGED Promise!domainVars)
  <2>1. /\ SparseSetInv'
        /\ PromisedValues' = PromisedValues /\ PromisedSaved' = PromisedSaved
        /\ PromisedAnswer' = PromisedAnswer
    BY <1>7, ValueLoopKeeps, PositionLoopKeeps, PositionLoopEndsKeeps
  <2>2. QED
    BY <1>2, <2>1 DEF Promise!domainVars
<1>8. ASSUME OpenLevel
      PROVE  SparseSetInv' /\ (layout' # "bounds" => Promise!Save)
  BY <1>2, <1>8, OpenLevelKeeps DEF Promise!Save
<1>9. ASSUME CloseLevel
      PROVE  SparseSetInv' /\ (layout' # "bounds" => Promise!Restore)
  BY <1>2, <1>9, CloseLevelKeeps DEF Promise!Restore
<1>10. QED
  BY <1>3, <1>4, <1>5, <1>6, <1>7, <1>8, <1>9 DEF SparseSetNext, Promise!Next

-----------------------------------------------------------------------------
(* The bounds layout: what the trailed integers and the holes say.         *)

\* The holes between two bounds are finitely many.
LEMMA BetweenFacts ==
  ASSUME NEW h, NEW n \in Nat, NEW lo, NEW hi
  PROVE  /\ IsFiniteSet(Between(h, n, lo, hi)) /\ Cardinality(Between(h, n, lo, hi)) \in Nat
<1>1. IsFiniteSet(1 .. n)
  BY FS_Interval
<1>2. Between(h, n, lo, hi) \in SUBSET (1 .. n)
  BY DEF Between
<1>3. IsFiniteSet(Between(h, n, lo, hi))
  BY <1>1, <1>2, FS_Subset
<1>4. QED
  BY <1>3, FS_CardinalityType

\* Counting the holes on both sides of a cut.
LEMMA BetweenSplits ==
  ASSUME NEW h \in Seq(Int), NEW n \in Nat, n <= Len(h),
         NEW lo \in Int, NEW mid \in Int, NEW hi \in Int, lo <= mid, mid <= hi + 1
  PROVE  Cardinality(Between(h, n, lo, hi)) =
           Cardinality(Between(h, n, lo, mid - 1)) + Cardinality(Between(h, n, mid, hi))
<1> DEFINE A == Between(h, n, lo, mid - 1)
           B == Between(h, n, mid, hi)
<1>1. \A i \in 1 .. n : h[i] \in Int
  OBVIOUS
<1>2. Between(h, n, lo, hi) = A \cup B /\ A \cap B = {}
  BY <1>1 DEF Between
<1>3. /\ IsFiniteSet(A) /\ IsFiniteSet(B)
      /\ Cardinality(A) \in Nat /\ Cardinality(B) \in Nat
  BY BetweenFacts
<1> HIDE DEF A, B
<1>4. Cardinality(A \cup B) = Cardinality(A) + Cardinality(B) - Cardinality(A \cap B)
  BY <1>3, FS_Union
<1>5. Cardinality(A \cap B) = 0
  BY <1>2, FS_EmptySet
<1>6. QED
  BY <1>2, <1>3, <1>4, <1>5 DEF A, B

\* What a copy that agrees with the holes says, field by field.
LEMMA BoundsCopyFacts ==
  ASSUME NEW h \in Seq(Int), NEW r, IsBoundsCopy(h, r)
  PROVE  /\ r \in Bounds!Regs /\ r.holes_len \in Nat /\ r.empty \in BOOLEAN
         /\ r.active_holes \in Nat /\ r.min \in Int /\ r.max \in Int
         /\ r.holes_len <= Len(h)
         /\ \A i \in 1 .. r.holes_len : h[i] \in Int
         /\ HolesIn(h, r) \in SUBSET Int
         /\ \A v : v \in ValuesIn(h, r) <=>
              ~r.empty /\ v \in Int /\ r.min <= v /\ v <= r.max /\ v \notin HolesIn(h, r)
         /\ ~r.empty => r.min \in ValuesIn(h, r) /\ r.max \in ValuesIn(h, r)
<1>1. /\ r \in Bounds!Regs /\ r.holes_len \in Nat /\ r.empty \in BOOLEAN
      /\ r.active_holes \in Nat /\ r.min \in Int /\ r.max \in Int
  BY DEF IsBoundsCopy, Bounds!Regs
<1>2. r.holes_len <= Len(h)
  BY DEF IsBoundsCopy
<1>3. \A i \in 1 .. r.holes_len : h[i] \in Int
  BY <1>1, <1>2
<1>4. HolesIn(h, r) \in SUBSET Int
  BY <1>3 DEF HolesIn
<1>5. \A v : v \in ValuesIn(h, r) <=>
             ~r.empty /\ v \in Int /\ r.min <= v /\ v <= r.max /\ v \notin HolesIn(h, r)
  BY <1>1 DEF ValuesIn
<1>6. ~r.empty => r.min \in ValuesIn(h, r) /\ r.max \in ValuesIn(h, r)
  BY <1>1, <1>5 DEF IsBoundsCopy
<1>7. QED
  BY <1>1, <1>2, <1>3, <1>4, <1>5, <1>6

\* The cached count makes size the number of values.
LEMMA SizeCounts ==
  ASSUME NEW h \in Seq(Int), NEW r, IsBoundsCopy(h, r), ~r.empty
  PROVE  /\ IsFiniteSet(ValuesIn(h, r))
         /\ Cardinality(ValuesIn(h, r)) = r.max - r.min + 1 - r.active_holes
<1> DEFINE B == Between(h, r.holes_len, r.min, r.max)
           I == r.min .. r.max
           H == HolesIn(h, r)
           f == [i \in B |-> h[i]]
<1>1. /\ r.holes_len \in Nat /\ r.min \in Int /\ r.max \in Int /\ r.min <= r.max
      /\ \A i \in 1 .. r.holes_len : h[i] \in Int
      /\ \A i, j \in 1 .. r.holes_len : h[i] = h[j] => i = j
      /\ r.active_holes = Cardinality(B)
  BY BoundsCopyFacts DEF IsBoundsCopy
<1>2. IsFiniteSet(B) /\ Cardinality(B) \in Nat
  BY <1>1, BetweenFacts
<1>3. IsFiniteSet(I) /\ Cardinality(I) = r.max - r.min + 1
  <2>1. IsFiniteSet(I) /\ Cardinality(I) = IF r.min > r.max THEN 0 ELSE r.max - r.min + 1
    BY <1>1, FS_Interval, Zenon
  <2> HIDE DEF I
  <2>2. QED
    BY <1>1, <2>1
<1>4. f \in [B -> I \cap H]
  BY <1>1 DEF Between, HolesIn
<1>5. f \in Injection(B, I \cap H)
  BY <1>1, <1>4 DEF Between, Injection, IsInjective
<1>6. f \in Surjection(B, I \cap H)
  <2>1. \A v \in I \cap H : \E i \in B : f[i] = v
    BY <1>1 DEF Between, HolesIn
  <2>2. QED
    BY <1>4, <2>1 DEF Surjection
<1> HIDE DEF f, B, I, H
<1>7. Cardinality(I \cap H) = Cardinality(B)
  BY <1>2, <1>5, <1>6, FS_Bijection DEF ExistsBijection, Bijection
<1>8. IsFiniteSet(I \ H) /\ Cardinality(I \ H) = Cardinality(I) - Cardinality(I \cap H)
  BY <1>3, FS_Difference
<1>9. ValuesIn(h, r) = I \ H
  BY DEF ValuesIn, I, H
<1>10. QED
  BY <1>1, <1>2, <1>3, <1>7, <1>8, <1>9

\* set_bounds_min and set_bounds_max on a copy.
SetMinIn(h, r, target) ==
  LET kept == {v \in target .. r.max : v \notin HolesIn(h, r)}
  IN  IF kept = {} THEN [r EXCEPT !.empty = TRUE]
      ELSE [r EXCEPT !.active_holes = r.active_holes
                       - Cardinality(Between(h, r.holes_len, r.min, Least(kept) - 1)),
                     !.min = Least(kept)]
SetMaxIn(h, r, target) ==
  LET kept == {v \in r.min .. target : v \notin HolesIn(h, r)}
  IN  IF kept = {} THEN [r EXCEPT !.empty = TRUE]
      ELSE [r EXCEPT !.active_holes = r.active_holes
                       - Cardinality(Between(h, r.holes_len, Greatest(kept) + 1, r.max)),
                     !.max = Greatest(kept)]

\* set_empty leaves a copy with no values.
LEMMA SetEmptyEffect ==
  ASSUME NEW h \in Seq(Int), NEW r, IsBoundsCopy(h, r), NEW q, q = [r EXCEPT !.empty = TRUE]
  PROVE  IsBoundsCopy(h, q) /\ q.holes_len = r.holes_len /\ ValuesIn(h, q) = {}
<1>0. r \in Bounds!Regs
  BY BoundsCopyFacts
<1>1. /\ q \in Bounds!Regs /\ q.holes_len = r.holes_len /\ q.empty = TRUE
      /\ q.active_holes = r.active_holes /\ q.min = r.min /\ q.max = r.max
  BY <1>0 DEF Bounds!Regs
<1>2. QED
  BY <1>1 DEF IsBoundsCopy, ValuesIn

\* Moving the lower bound over holes keeps the count of those left exact.
LEMMA SetMinEffect ==
  ASSUME NEW h \in Seq(Int), NEW r, IsBoundsCopy(h, r), ~r.empty,
         NEW target \in Int, r.min < target
  PROVE  /\ IsBoundsCopy(h, SetMinIn(h, r, target))
         /\ SetMinIn(h, r, target).holes_len = r.holes_len
         /\ ValuesIn(h, SetMinIn(h, r, target)) = {v \in ValuesIn(h, r) : v >= target}
<1> DEFINE kept == {v \in target .. r.max : v \notin HolesIn(h, r)}
           q == SetMinIn(h, r, target)
<1>1. /\ r \in Bounds!Regs /\ r.holes_len \in Nat /\ r.empty = FALSE
      /\ r.active_holes \in Nat /\ r.min \in Int /\ r.max \in Int
      /\ r.holes_len <= Len(h) /\ HolesIn(h, r) \in SUBSET Int
      /\ \A v : v \in ValuesIn(h, r) <=>
           v \in Int /\ r.min <= v /\ v <= r.max /\ v \notin HolesIn(h, r)
  BY BoundsCopyFacts
<1>2. /\ r.min <= r.max /\ r.min \notin HolesIn(h, r) /\ r.max \notin HolesIn(h, r)
      /\ \A i, j \in 1 .. r.holes_len : h[i] = h[j] => i = j
      /\ r.active_holes = Cardinality(Between(h, r.holes_len, r.min, r.max))
  BY DEF IsBoundsCopy
<1>3. kept = {v \in ValuesIn(h, r) : v >= target}
  BY <1>1
<1>4. kept \in SUBSET Int /\ IsFiniteSet(kept)
  <2>1. IsFiniteSet(target .. r.max)
    BY <1>1, FS_Interval
  <2>2. kept \in SUBSET (target .. r.max) /\ kept \in SUBSET Int
    BY <1>1
  <2> HIDE DEF kept
  <2>3. QED
    BY <2>1, <2>2, FS_Subset
<1>5. CASE kept = {}
  <2>1. q = [r EXCEPT !.empty = TRUE]
    BY <1>5 DEF SetMinIn
  <2> HIDE DEF q, kept
  <2>2. QED
    BY <1>3, <1>5, <2>1, SetEmptyEffect DEF q
<1>6. CASE kept # {}
  <2> DEFINE new  == Least(kept)
             left == r.active_holes - Cardinality(Between(h, r.holes_len, r.min, new - 1))
  <2>1. q = [r EXCEPT !.active_holes = left, !.min = new]
    BY <1>6 DEF SetMinIn
  <2>2. new \in kept /\ \A v \in kept : new <= v
    <3> HIDE DEF kept
    <3>1. QED
      BY <1>4, <1>6, LeastIsLeast
  <2>3. new \in Int /\ target <= new /\ new <= r.max /\ new \notin HolesIn(h, r)
    BY <2>2
  <2> HIDE DEF new
  <2>4. left = Cardinality(Between(h, r.holes_len, new, r.max)) /\ left \in Nat
    <3>1. Cardinality(Between(h, r.holes_len, r.min, r.max)) =
            Cardinality(Between(h, r.holes_len, r.min, new - 1))
              + Cardinality(Between(h, r.holes_len, new, r.max))
      BY <1>1, <2>3, BetweenSplits
    <3>2. /\ Cardinality(Between(h, r.holes_len, r.min, new - 1)) \in Nat
          /\ Cardinality(Between(h, r.holes_len, new, r.max)) \in Nat
      BY <1>1, BetweenFacts
    <3>3. QED
      BY <1>2, <3>1, <3>2
  <2> HIDE DEF left, q
  <2>5. /\ q \in Bounds!Regs /\ q.holes_len = r.holes_len /\ q.empty = FALSE
        /\ q.active_holes = left /\ q.min = new /\ q.max = r.max
    BY <1>1, <2>1, <2>3, <2>4 DEF Bounds!Regs
  <2>6. HolesIn(h, q) = HolesIn(h, r)
    BY <2>5 DEF HolesIn
  <2>7. IsBoundsCopy(h, q)
    BY <1>1, <1>2, <2>3, <2>4, <2>5, <2>6 DEF IsBoundsCopy
  <2>8. \A v : v \in ValuesIn(h, q) <=> v \in kept
    <3>1. \A v : v \in ValuesIn(h, q) <=>
              v \in Int /\ new <= v /\ v <= r.max /\ v \notin HolesIn(h, r)
      BY <2>5, <2>6, <2>7, BoundsCopyFacts
    <3>2. QED
      BY <1>1, <2>2, <2>3, <3>1
  <2> HIDE DEF kept
  <2>9. ValuesIn(h, q) = kept
    BY <2>8
  <2>10. QED
    BY <1>3, <2>5, <2>7, <2>9 DEF q
<1>7. QED
  BY <1>5, <1>6

\* The mirror image for the maximum.
LEMMA SetMaxEffect ==
  ASSUME NEW h \in Seq(Int), NEW r, IsBoundsCopy(h, r), ~r.empty,
         NEW target \in Int, target < r.max
  PROVE  /\ IsBoundsCopy(h, SetMaxIn(h, r, target))
         /\ SetMaxIn(h, r, target).holes_len = r.holes_len
         /\ ValuesIn(h, SetMaxIn(h, r, target)) = {v \in ValuesIn(h, r) : v <= target}
<1> DEFINE kept == {v \in r.min .. target : v \notin HolesIn(h, r)}
           q == SetMaxIn(h, r, target)
<1>1. /\ r \in Bounds!Regs /\ r.holes_len \in Nat /\ r.empty = FALSE
      /\ r.active_holes \in Nat /\ r.min \in Int /\ r.max \in Int
      /\ r.holes_len <= Len(h) /\ HolesIn(h, r) \in SUBSET Int
      /\ \A v : v \in ValuesIn(h, r) <=>
           v \in Int /\ r.min <= v /\ v <= r.max /\ v \notin HolesIn(h, r)
  BY BoundsCopyFacts
<1>2. /\ r.min <= r.max /\ r.min \notin HolesIn(h, r) /\ r.max \notin HolesIn(h, r)
      /\ \A i, j \in 1 .. r.holes_len : h[i] = h[j] => i = j
      /\ r.active_holes = Cardinality(Between(h, r.holes_len, r.min, r.max))
  BY DEF IsBoundsCopy
<1>3. kept = {v \in ValuesIn(h, r) : v <= target}
  BY <1>1
<1>4. kept \in SUBSET Int /\ IsFiniteSet(kept)
  <2>1. IsFiniteSet(r.min .. target)
    BY <1>1, FS_Interval
  <2>2. kept \in SUBSET (r.min .. target) /\ kept \in SUBSET Int
    BY <1>1
  <2> HIDE DEF kept
  <2>3. QED
    BY <2>1, <2>2, FS_Subset
<1>5. CASE kept = {}
  <2>1. q = [r EXCEPT !.empty = TRUE]
    BY <1>5 DEF SetMaxIn
  <2> HIDE DEF q, kept
  <2>2. QED
    BY <1>3, <1>5, <2>1, SetEmptyEffect DEF q
<1>6. CASE kept # {}
  <2> DEFINE new  == Greatest(kept)
             left == r.active_holes - Cardinality(Between(h, r.holes_len, new + 1, r.max))
  <2>1. q = [r EXCEPT !.active_holes = left, !.max = new]
    BY <1>6 DEF SetMaxIn
  <2>2. new \in kept /\ \A v \in kept : v <= new
    <3> HIDE DEF kept
    <3>1. QED
      BY <1>4, <1>6, LeastIsLeast
  <2>3. new \in Int /\ new <= target /\ r.min <= new /\ new \notin HolesIn(h, r)
    BY <2>2
  <2> HIDE DEF new
  <2>4. left = Cardinality(Between(h, r.holes_len, r.min, new)) /\ left \in Nat
    <3>1. Cardinality(Between(h, r.holes_len, r.min, r.max)) =
            Cardinality(Between(h, r.holes_len, new + 1, r.max))
              + Cardinality(Between(h, r.holes_len, r.min, new))
      <4>1. /\ h \in Seq(Int) /\ r.holes_len \in Nat /\ r.holes_len <= Len(h)
            /\ r.min \in Int /\ new + 1 \in Int /\ r.max \in Int
            /\ r.min <= new + 1 /\ new + 1 <= r.max + 1 /\ (new + 1) - 1 = new
        BY <1>1, <1>2, <2>3
      <4> DEFINE mid == new + 1
      <4>2. mid \in Int /\ r.min <= mid /\ mid <= r.max + 1 /\ mid - 1 = new
        BY <4>1
      <4>3. mid = new + 1
        OBVIOUS
      <4> HIDE DEF mid
      <4>4. Cardinality(Between(h, r.holes_len, r.min, r.max)) =
              Cardinality(Between(h, r.holes_len, r.min, mid - 1))
                + Cardinality(Between(h, r.holes_len, mid, r.max))
        BY <4>1, <4>2, BetweenSplits
      <4>5. /\ Cardinality(Between(h, r.holes_len, r.min, mid - 1)) \in Nat
            /\ Cardinality(Between(h, r.holes_len, mid, r.max)) \in Nat
        BY <4>1, BetweenFacts
      <4>6. QED
        BY <4>2, <4>3, <4>4, <4>5
    <3>2. /\ Cardinality(Between(h, r.holes_len, new + 1, r.max)) \in Nat
          /\ Cardinality(Between(h, r.holes_len, r.min, new)) \in Nat
      BY <1>1, BetweenFacts
    <3>3. QED
      BY <1>2, <3>1, <3>2
  <2> HIDE DEF left, q
  <2>5. /\ q \in Bounds!Regs /\ q.holes_len = r.holes_len /\ q.empty = FALSE
        /\ q.active_holes = left /\ q.min = r.min /\ q.max = new
    BY <1>1, <2>1, <2>3, <2>4 DEF Bounds!Regs
  <2>6. HolesIn(h, q) = HolesIn(h, r)
    BY <2>5 DEF HolesIn
  <2>7. IsBoundsCopy(h, q)
    BY <1>1, <1>2, <2>3, <2>4, <2>5, <2>6 DEF IsBoundsCopy
  <2>8. \A v : v \in ValuesIn(h, q) <=> v \in kept
    <3>1. \A v : v \in ValuesIn(h, q) <=>
              v \in Int /\ r.min <= v /\ v <= new /\ v \notin HolesIn(h, r)
      BY <2>5, <2>6, <2>7, BoundsCopyFacts
    <3>2. QED
      BY <1>1, <2>2, <2>3, <3>1
  <2> HIDE DEF kept
  <2>9. ValuesIn(h, q) = kept
    BY <2>8
  <2>10. QED
    BY <1>3, <2>5, <2>7, <2>9 DEF q
<1>7. QED
  BY <1>5, <1>6

\* fix narrows both bounds onto a value that is present, where no hole is.
Narrowed(r, v) == [r EXCEPT !.min = v, !.max = v, !.active_holes = 0]

\* What fix leaves: one value and no active hole.
LEMMA NarrowEffect ==
  ASSUME NEW h \in Seq(Int), NEW r, IsBoundsCopy(h, r), NEW v \in ValuesIn(h, r),
         NEW q, q = Narrowed(r, v)
  PROVE  IsBoundsCopy(h, q) /\ q.holes_len = r.holes_len /\ ValuesIn(h, q) = {v}
<1>1. /\ r \in Bounds!Regs /\ r.holes_len \in Nat /\ r.empty = FALSE
      /\ r.holes_len <= Len(h) /\ v \in Int /\ v \notin HolesIn(h, r)
      /\ \A i \in 1 .. r.holes_len : h[i] \in Int
  BY BoundsCopyFacts
<1>2. /\ q \in Bounds!Regs /\ q.holes_len = r.holes_len /\ q.empty = FALSE
      /\ q.active_holes = 0 /\ q.min = v /\ q.max = v
  BY <1>1 DEF Bounds!Regs, Narrowed
<1>3. HolesIn(h, q) = HolesIn(h, r)
  BY <1>2 DEF HolesIn
<1>4. Between(h, r.holes_len, v, v) = {}
  <2>1. \A i \in 1 .. r.holes_len : h[i] # v
    BY <1>1 DEF HolesIn
  <2>2. QED
    BY <1>1, <2>1 DEF Between
<1>5. Cardinality(Between(h, r.holes_len, v, v)) = 0
  BY <1>4, FS_EmptySet
<1>6. \A i, j \in 1 .. r.holes_len : h[i] = h[j] => i = j
  BY DEF IsBoundsCopy
<1>7. IsBoundsCopy(h, q)
  BY <1>1, <1>2, <1>3, <1>5, <1>6 DEF IsBoundsCopy
<1>8. ValuesIn(h, q) = {v}
  BY <1>1, <1>2, <1>3 DEF ValuesIn
<1>9. QED
  BY <1>2, <1>7, <1>8

\* Two vectors of holes that agree on the prefix a copy sees.
Agree(h, g, n) == n <= Len(g) /\ \A i \in 1 .. n : g[i] = h[i]

\* A copy depends on the holes before its own count only.
LEMMA CopyOfPrefix ==
  ASSUME NEW h \in Seq(Int), NEW g \in Seq(Int), NEW r, IsBoundsCopy(h, r),
         Agree(h, g, r.holes_len)
  PROVE  IsBoundsCopy(g, r) /\ ValuesIn(g, r) = ValuesIn(h, r)
<1>1. r.holes_len <= Len(g) /\ \A i \in 1 .. r.holes_len : g[i] = h[i]
  BY DEF Agree
<1>2. HolesIn(g, r) = HolesIn(h, r)
  BY <1>1 DEF HolesIn
<1>3. \A lo, hi : Between(g, r.holes_len, lo, hi) = Between(h, r.holes_len, lo, hi)
  BY <1>1 DEF Between
<1>4. IsBoundsCopy(g, r)
  BY <1>1, <1>2, <1>3 DEF IsBoundsCopy
<1>5. QED
  BY <1>2, <1>4 DEF ValuesIn

\* What AddHole writes: a slot of the vector, and the two counts.
SlotAfter(h, n, v) == IF n = Len(h) THEN Append(h, v) ELSE [h EXCEPT ![n + 1] = v]
OneMore(r) == [r EXCEPT !.holes_len = r.holes_len + 1, !.active_holes = r.active_holes + 1]

\* Writing the slot after the visible prefix disturbs no earlier hole.
LEMMA SlotWritten ==
  ASSUME NEW h \in Seq(Int), NEW n \in Nat, n <= Len(h), NEW v \in Int,
         NEW g, g = SlotAfter(h, n, v)
  PROVE  g \in Seq(Int) /\ Agree(h, g, n) /\ n + 1 <= Len(g) /\ g[n + 1] = v
<1>1. CASE n = Len(h)
  <2>1. g = Append(h, v)
    BY <1>1 DEF SlotAfter
  <2>2. /\ Append(h, v) \in Seq(Int) /\ Len(Append(h, v)) = n + 1
        /\ Append(h, v)[n + 1] = v /\ \A i \in 1 .. n : Append(h, v)[i] = h[i]
    BY <1>1, SeqFacts
  <2>3. n <= n + 1 /\ n + 1 <= n + 1
    OBVIOUS
  <2>4. QED
    BY <2>1, <2>2, <2>3, Zenon DEF Agree
<1>2. CASE n # Len(h)
  <2>1. g = [h EXCEPT ![n + 1] = v] /\ n + 1 \in 1 .. Len(h) /\ n + 1 \in DOMAIN h
    BY <1>2 DEF SlotAfter
  <2>2. g \in Seq(Int) /\ Len(g) = Len(h)
    BY <2>1
  <2>3. g[n + 1] = v /\ \A i \in 1 .. n : g[i] = h[i]
    BY <2>1
  <2>4. QED
    BY <2>1, <2>2, <2>3 DEF Agree
<1>3. QED
  BY <1>1, <1>2

\* An interior removal is one hole more, within the bounds, that was not there.
LEMMA AddHoleEffect ==
  ASSUME NEW h \in Seq(Int), NEW g \in Seq(Int), NEW r, IsBoundsCopy(h, r),
         NEW v \in ValuesIn(h, r), v # r.min, v # r.max,
         Agree(h, g, r.holes_len), r.holes_len + 1 <= Len(g), g[r.holes_len + 1] = v,
         NEW q, q = OneMore(r)
  PROVE  IsBoundsCopy(g, q) /\ ValuesIn(g, q) = ValuesIn(h, r) \ {v}
<1> DEFINE n == r.holes_len
<1>1. /\ r \in Bounds!Regs /\ n \in Nat /\ r.empty = FALSE /\ r.active_holes \in Nat
      /\ r.min \in Int /\ r.max \in Int /\ v \in Int
      /\ r.min <= v /\ v <= r.max /\ v \notin HolesIn(h, r)
      /\ \A i \in 1 .. n : h[i] \in Int
  BY BoundsCopyFacts
<1>2. /\ r.min <= r.max /\ r.min \notin HolesIn(h, r) /\ r.max \notin HolesIn(h, r)
      /\ \A i, j \in 1 .. n : h[i] = h[j] => i = j
      /\ r.active_holes = Cardinality(Between(h, n, r.min, r.max))
  BY <1>1 DEF IsBoundsCopy
<1>3. /\ q \in Bounds!Regs /\ q.holes_len = n + 1 /\ q.empty = FALSE
      /\ q.active_holes = r.active_holes + 1 /\ q.min = r.min /\ q.max = r.max
  <2>1. r \in Bounds!Regs /\ n + 1 \in Nat /\ r.active_holes + 1 \in Nat /\ r.empty = FALSE
    BY <1>1
  <2> DEFINE m == n + 1
             k == r.active_holes + 1
  <2>2. q = [r EXCEPT !.holes_len = m, !.active_holes = k]
    BY DEF OneMore
  <2>3. m = n + 1 /\ k = r.active_holes + 1
    OBVIOUS
  <2> HIDE DEF m, k
  <2>4. QED
    BY <2>1, <2>2, <2>3 DEF Bounds!Regs
<1>4. /\ \A i \in 1 .. n : g[i] = h[i]
      /\ \A i \in 1 .. n + 1 : i \in 1 .. n \/ i = n + 1
      /\ \A i \in 1 .. n : i \in 1 .. n + 1 /\ i # n + 1
      /\ n + 1 \in 1 .. n + 1
      /\ g[n + 1] = v
  BY <1>1 DEF Agree
<1> HIDE DEF n
<1>5. HolesIn(g, q) = HolesIn(h, r) \cup {v}
  BY <1>3, <1>4 DEF HolesIn, n
<1>6. Between(g, n + 1, r.min, r.max) = Between(h, n, r.min, r.max) \cup {n + 1}
  BY <1>1, <1>4 DEF Between
<1>7. n + 1 \notin Between(h, n, r.min, r.max)
  BY <1>4 DEF Between
<1>8. Cardinality(Between(g, n + 1, r.min, r.max)) = r.active_holes + 1
  <2>1. IsFiniteSet(Between(h, n, r.min, r.max))
    BY <1>1, BetweenFacts
  <2>2. QED
    BY <1>2, <1>6, <1>7, <2>1, FS_AddElement
<1>9. \A i, j \in 1 .. n + 1 : g[i] = g[j] => i = j
  <2>1. \A i \in 1 .. n : h[i] # v
    BY <1>1 DEF HolesIn, n
  <2>2. QED
    BY <1>2, <1>4, <2>1
<1>10. IsBoundsCopy(g, q)
  BY <1>2, <1>3, <1>5, <1>8, <1>9 DEF IsBoundsCopy, n
<1>11. ValuesIn(g, q) = ValuesIn(h, r) \ {v}
  BY <1>1, <1>3, <1>5 DEF ValuesIn
<1>12. QED
  BY <1>10, <1>11

-----------------------------------------------------------------------------
(* The calls of the bounds layout.                                         *)

ValuesSaved(h, stack) == [k \in DOMAIN stack |-> ValuesIn(h, stack[k])]

\* The promise of the bounds layout in terms of the operators above.
LEMMA BoundsPromiseIs ==
  /\ Bounds!ValuesOf(regs) = ValuesIn(holes, regs)
  /\ Bounds!PromisedSaved = ValuesSaved(holes, saved)
  /\ \A v : Bounds!Contains(v) <=> v \in ValuesIn(holes, regs)
BY DEF Bounds!ValuesOf, Bounds!HolesOf, Bounds!PromisedSaved, Bounds!Contains,
       ValuesIn, HolesIn, ValuesSaved

\* The same of the next state.
LEMMA BoundsPromiseIsNext ==
  /\ Bounds!ValuesOf(regs)' = ValuesIn(holes', regs')
  /\ Bounds!PromisedSaved' = ValuesSaved(holes', saved')
BY DEF Bounds!ValuesOf, Bounds!HolesOf, Bounds!PromisedSaved, ValuesIn, HolesIn, ValuesSaved

\* The instance's own copy of the library's cardinality.
LEMMA CardinalityIs ==
  ASSUME NEW S
  PROVE  Bounds!Cardinality(S) = Cardinality(S)
BY DEF Bounds!Cardinality, Cardinality

\* The helpers of BoundsDomain at the present holes are the operators above.
LEMMA SettersAre ==
  ASSUME NEW target
  PROVE  /\ Bounds!SetMin(regs, target) = SetMinIn(holes, regs, target)
         /\ Bounds!SetMax(regs, target) = SetMaxIn(holes, regs, target)
         /\ Bounds!SetEmpty(regs) = [regs EXCEPT !.empty = TRUE]
<1>1. Bounds!HolesOf(regs) = HolesIn(holes, regs)
  BY DEF Bounds!HolesOf, HolesIn
<1>2. ASSUME NEW lo, NEW hi
      PROVE  Bounds!Crossed(regs, lo, hi) = Cardinality(Between(holes, regs.holes_len, lo, hi))
  BY CardinalityIs DEF Bounds!Crossed, Between
<1>3. Bounds!SetMin(regs, target) = SetMinIn(holes, regs, target)
  <2> DEFINE kept == {v \in target .. regs.max : v \notin HolesIn(holes, regs)}
             new  == CHOOSE v \in kept : \A w \in kept : v <= w
  <2>1. Bounds!SetMin(regs, target) =
          IF kept = {} THEN [regs EXCEPT !.empty = TRUE]
          ELSE [regs EXCEPT !.active_holes = regs.active_holes - Bounds!Crossed(regs, regs.min, new - 1),
                            !.min = new]
    BY <1>1 DEF Bounds!SetMin, Bounds!SetEmpty
  <2>2. new = Least(kept)
    BY DEF Least
  <2> HIDE DEF new
  <2>3. Bounds!Crossed(regs, regs.min, new - 1) = Cardinality(Between(holes, regs.holes_len, regs.min, new - 1))
    BY <1>2
  <2>4. SetMinIn(holes, regs, target) =
          IF kept = {} THEN [regs EXCEPT !.empty = TRUE]
          ELSE [regs EXCEPT !.active_holes = regs.active_holes
                              - Cardinality(Between(holes, regs.holes_len, regs.min, new - 1)),
                            !.min = new]
    BY <2>2 DEF SetMinIn
  <2> HIDE DEF kept
  <2>5. QED
    BY <2>1, <2>3, <2>4, Zenon
<1>4. Bounds!SetMax(regs, target) = SetMaxIn(holes, regs, target)
  <2> DEFINE kept == {v \in regs.min .. target : v \notin HolesIn(holes, regs)}
             new  == CHOOSE v \in kept : \A w \in kept : w <= v
  <2>1. Bounds!SetMax(regs, target) =
          IF kept = {} THEN [regs EXCEPT !.empty = TRUE]
          ELSE [regs EXCEPT !.active_holes = regs.active_holes - Bounds!Crossed(regs, new + 1, regs.max),
                            !.max = new]
    BY <1>1 DEF Bounds!SetMax, Bounds!SetEmpty
  <2>2. new = Greatest(kept)
    BY DEF Greatest
  <2> HIDE DEF new
  <2>3. Bounds!Crossed(regs, new + 1, regs.max) = Cardinality(Between(holes, regs.holes_len, new + 1, regs.max))
    BY <1>2
  <2>4. SetMaxIn(holes, regs, target) =
          IF kept = {} THEN [regs EXCEPT !.empty = TRUE]
          ELSE [regs EXCEPT !.active_holes = regs.active_holes
                              - Cardinality(Between(holes, regs.holes_len, new + 1, regs.max)),
                            !.max = new]
    BY <2>2 DEF SetMaxIn
  <2> HIDE DEF kept
  <2>5. QED
    BY <2>1, <2>3, <2>4, Zenon
<1>5. QED
  BY <1>3, <1>4 DEF Bounds!SetEmpty

\* Saved copies see a shorter prefix than the current one, so they survive a hole
\* being recorded after it.
LEMMA BoundsStackKept ==
  ASSUME NEW h \in Seq(Int), NEW g \in Seq(Int), NEW r, r.holes_len \in Nat,
         NEW stack, IsBoundsStack(h, r, stack), Agree(h, g, r.holes_len),
         NEW q, q.holes_len \in Nat, r.holes_len <= q.holes_len
  PROVE  IsBoundsStack(g, q, stack) /\ ValuesSaved(g, stack) = ValuesSaved(h, stack)
<1>1. \A k \in DOMAIN stack :
        /\ IsBoundsCopy(h, stack[k]) /\ stack[k].holes_len <= r.holes_len
        /\ stack[k].holes_len \in Nat
  BY BoundsCopyFacts DEF IsBoundsStack
<1>2. \A k \in DOMAIN stack : stack[k].holes_len <= q.holes_len
  BY <1>1
<1>3. \A k \in DOMAIN stack : Agree(h, g, stack[k].holes_len)
  BY <1>1 DEF Agree
<1>4. \A k \in DOMAIN stack :
        IsBoundsCopy(g, stack[k]) /\ ValuesIn(g, stack[k]) = ValuesIn(h, stack[k])
  BY <1>1, <1>3, CopyOfPrefix
<1>5. IsBoundsStack(g, q, stack)
  BY <1>2, <1>4, Zenon DEF IsBoundsStack
<1>6. ValuesSaved(g, stack) = ValuesSaved(h, stack)
  BY <1>4 DEF ValuesSaved
<1>7. QED
  BY <1>5, <1>6

\* What every call shares: the invariant in parts, and size.
LEMMA BoundsFacts ==
  ASSUME BoundsInv
  PROVE  /\ layout = "bounds" /\ call = Idle /\ holes \in Seq(Int)
         /\ IsBoundsCopy(holes, regs) /\ IsBoundsStack(holes, regs, saved)
         /\ regs.holes_len \in Nat /\ regs.empty \in BOOLEAN
         /\ regs.min \in Int /\ regs.max \in Int /\ regs.active_holes \in Nat
         /\ regs.holes_len <= Len(holes) /\ Agree(holes, holes, regs.holes_len)
         /\ \A v : v \in ValuesIn(holes, regs) <=>
              ~regs.empty /\ v \in Int /\ regs.min <= v /\ v <= regs.max
              /\ v \notin HolesIn(holes, regs)
         /\ ~regs.empty => /\ regs.min \in ValuesIn(holes, regs)
                           /\ regs.max \in ValuesIn(holes, regs)
         /\ IsFiniteSet(ValuesIn(holes, regs))
         /\ Bounds!SizeOf(regs) = Cardinality(ValuesIn(holes, regs))
<1>1. /\ layout = "bounds" /\ call = Idle /\ holes \in Seq(Int)
      /\ IsBoundsCopy(holes, regs) /\ IsBoundsStack(holes, regs, saved)
  BY DEF BoundsInv
<1>2. /\ regs.holes_len \in Nat /\ regs.empty \in BOOLEAN
      /\ regs.min \in Int /\ regs.max \in Int /\ regs.active_holes \in Nat
      /\ regs.holes_len <= Len(holes)
      /\ \A v : v \in ValuesIn(holes, regs) <=>
           ~regs.empty /\ v \in Int /\ regs.min <= v /\ v <= regs.max
           /\ v \notin HolesIn(holes, regs)
      /\ ~regs.empty => /\ regs.min \in ValuesIn(holes, regs)
                        /\ regs.max \in ValuesIn(holes, regs)
  BY <1>1, BoundsCopyFacts
<1>3. Agree(holes, holes, regs.holes_len)
  BY <1>2 DEF Agree
<1>4. /\ IsFiniteSet(ValuesIn(holes, regs))
      /\ Bounds!SizeOf(regs) = Cardinality(ValuesIn(holes, regs))
  <2>1. CASE regs.empty
    <3>1. ValuesIn(holes, regs) = {} /\ Bounds!SizeOf(regs) = 0
      BY <2>1 DEF ValuesIn, Bounds!SizeOf
    <3>2. QED
      BY <3>1, FS_EmptySet
  <2>2. CASE ~regs.empty
    BY <2>2, <1>1, SizeCounts DEF Bounds!SizeOf
  <2>3. QED
    BY <2>1, <2>2
<1>5. QED
  BY <1>1, <1>2, <1>3, <1>4

\* The holes stay, and the copy is replaced by one that sees as many of them.
LEMMA BoundsInvNext ==
  ASSUME BoundsInv, layout' = layout, call' = call, holes' = holes, saved' = saved,
         IsBoundsCopy(holes, regs'), regs'.holes_len = regs.holes_len,
         answer' \in {"none", "changed", "unchanged", "inconsistent"}
  PROVE  BoundsInv' /\ Bounds!PromisedSaved' = Bounds!PromisedSaved
<1>1. regs'.holes_len \in Nat /\ regs.holes_len <= regs'.holes_len
  BY BoundsFacts
<1>2. IsBoundsStack(holes, regs', saved)
  BY <1>1, BoundsFacts, BoundsStackKept
<1>3. BoundsInv'
  BY <1>2, BoundsFacts DEF BoundsInv
<1>4. QED
  BY <1>3, BoundsPromiseIs, BoundsPromiseIsNext

\* remove: the last value, either bound, an interior value, or nothing.
LEMMA BoundsRemoveKeeps ==
  ASSUME BoundsInv, NEW v, Bounds!Remove(v), layout' = layout, call' = call
  PROVE  /\ BoundsInv' /\ Bounds!PromisedSaved' = Bounds!PromisedSaved
         /\ Bounds!ValuesOf(regs)' = Bounds!ValuesOf(regs) \ {v}
         /\ answer' = IF Bounds!ValuesOf(regs)' = Bounds!ValuesOf(regs)
                      THEN "unchanged" ELSE "changed"
<1> DEFINE vals == ValuesIn(holes, regs)
<1>1. /\ Bounds!ValuesOf(regs) = vals
      /\ Bounds!ValuesOf(regs)' = ValuesIn(holes', regs')
      /\ Bounds!PromisedSaved = ValuesSaved(holes, saved)
      /\ Bounds!PromisedSaved' = ValuesSaved(holes', saved')
  BY BoundsPromiseIs, BoundsPromiseIsNext
<1>2. saved' = saved
  BY DEF Bounds!Remove
<1>3. CASE v \notin vals
  <2>1. holes' = holes /\ regs' = regs /\ answer' = "unchanged"
    BY <1>3, BoundsPromiseIs DEF Bounds!Remove
  <2>2. BoundsInv'
    BY <1>2, <2>1 DEF BoundsInv
  <2>3. QED
    BY <1>1, <1>2, <1>3, <2>1, <2>2
<1>4. CASE v \in vals
  <2>1. Bounds!RemovePresent(v) /\ answer' = "changed"
    BY <1>4, BoundsPromiseIs DEF Bounds!Remove
  <2>2. SUFFICES /\ BoundsInv' /\ Bounds!PromisedSaved' = Bounds!PromisedSaved
                 /\ ValuesIn(holes', regs') = vals \ {v}
    BY <1>1, <1>4, <2>1
  <2>3. /\ v \in Int /\ ~regs.empty /\ regs.min <= v /\ v <= regs.max
        /\ regs.min \in Int /\ regs.max \in Int /\ regs.holes_len \in Nat
        /\ \A w \in vals : w \in Int /\ regs.min <= w /\ w <= regs.max
    BY <1>4, BoundsFacts
  <2>4. CASE Bounds!SizeOf(regs) = 1
    <3>1. holes' = holes /\ regs' = [regs EXCEPT !.empty = TRUE]
      BY <2>1, <2>4, SettersAre DEF Bounds!RemovePresent
    <3>2. IsBoundsCopy(holes, regs') /\ regs'.holes_len = regs.holes_len
          /\ ValuesIn(holes, regs') = {}
      BY <3>1, BoundsFacts, SetEmptyEffect
    <3>3. vals = {v}
      <4>1. IsFiniteSet(vals) /\ Cardinality(vals) = 1
        BY <2>4, BoundsFacts
      <4>2. \E x : vals = {x}
        BY <4>1, FS_Singleton
      <4>3. QED
        BY <1>4, <4>2
    <3>4. BoundsInv' /\ Bounds!PromisedSaved' = Bounds!PromisedSaved
      BY <1>2, <2>1, <3>1, <3>2, BoundsInvNext
    <3>5. QED
      BY <3>1, <3>2, <3>3, <3>4
  <2>5. CASE Bounds!SizeOf(regs) # 1 /\ v = regs.min
    <3>1. holes' = holes /\ regs' = SetMinIn(holes, regs, v + 1)
      BY <2>1, <2>5, SettersAre DEF Bounds!RemovePresent
    <3>2. v + 1 \in Int /\ regs.min < v + 1
      BY <2>3, <2>5
    <3>3. /\ IsBoundsCopy(holes, regs') /\ regs'.holes_len = regs.holes_len
          /\ ValuesIn(holes, regs') = {w \in vals : w >= v + 1}
      BY <2>3, <3>1, <3>2, BoundsFacts, SetMinEffect
    <3>4. BoundsInv' /\ Bounds!PromisedSaved' = Bounds!PromisedSaved
      BY <1>2, <2>1, <3>1, <3>3, BoundsInvNext
    <3> HIDE DEF vals
    <3>5. {w \in vals : w >= v + 1} = vals \ {v}
      BY <2>3, <2>5
    <3>6. QED
      BY <3>1, <3>3, <3>4, <3>5
  <2>6. CASE Bounds!SizeOf(regs) # 1 /\ v # regs.min /\ v = regs.max
    <3>1. holes' = holes /\ regs' = SetMaxIn(holes, regs, v - 1)
      BY <2>1, <2>6, SettersAre DEF Bounds!RemovePresent
    <3>2. v - 1 \in Int /\ v - 1 < regs.max
      BY <2>3, <2>6
    <3>3. /\ IsBoundsCopy(holes, regs') /\ regs'.holes_len = regs.holes_len
          /\ ValuesIn(holes, regs') = {w \in vals : w <= v - 1}
      BY <2>3, <3>1, <3>2, BoundsFacts, SetMaxEffect
    <3>4. BoundsInv' /\ Bounds!PromisedSaved' = Bounds!PromisedSaved
      BY <1>2, <2>1, <3>1, <3>3, BoundsInvNext
    <3> HIDE DEF vals
    <3>5. {w \in vals : w <= v - 1} = vals \ {v}
      BY <2>3, <2>6
    <3>6. QED
      BY <3>1, <3>3, <3>4, <3>5
  <2>7. CASE Bounds!SizeOf(regs) # 1 /\ v # regs.min /\ v # regs.max
    <3>1. Bounds!AddHole(v)
      BY <2>1, <2>7 DEF Bounds!RemovePresent
    <3>2. holes' = SlotAfter(holes, regs.holes_len, v) /\ regs' = OneMore(regs)
      BY <3>1 DEF Bounds!AddHole, SlotAfter, OneMore
    <3>3. /\ holes' \in Seq(Int) /\ Agree(holes, holes', regs.holes_len)
          /\ regs.holes_len + 1 <= Len(holes') /\ holes'[regs.holes_len + 1] = v
      BY <2>3, <3>2, BoundsFacts, SlotWritten
    <3>4. IsBoundsCopy(holes', regs') /\ ValuesIn(holes', regs') = vals \ {v}
      <4>1. holes \in Seq(Int) /\ IsBoundsCopy(holes, regs)
        BY BoundsFacts
      <4> HIDE DEF vals
      <4>2. v \in ValuesIn(holes, regs) /\ vals = ValuesIn(holes, regs)
        BY <1>4 DEF vals
      <4>3. QED
        BY <4>2, <2>7, <3>2, <3>3, <4>1, AddHoleEffect
    <3>5. regs'.holes_len = regs.holes_len + 1
      <4>1. regs \in Bounds!Regs
        BY BoundsFacts DEF IsBoundsCopy
      <4>2. QED
        BY <3>2, <4>1 DEF Bounds!Regs, OneMore
    <3>6. /\ IsBoundsStack(holes', regs', saved)
          /\ ValuesSaved(holes', saved) = ValuesSaved(holes, saved)
      <4>1. regs'.holes_len \in Nat /\ regs.holes_len <= regs'.holes_len
        BY <2>3, <3>5
      <4>2. QED
        BY <2>3, <3>3, <4>1, BoundsFacts, BoundsStackKept
    <3>7. BoundsInv'
      BY <1>2, <2>1, <3>3, <3>4, <3>6, BoundsFacts DEF BoundsInv
    <3>8. QED
      BY <1>1, <1>2, <3>4, <3>6, <3>7
  <2>8. QED
    BY <2>4, <2>5, <2>6, <2>7
<1>5. QED
  BY <1>3, <1>4

\* fix leaves one value, or finds it absent.
LEMMA BoundsFixKeeps ==
  ASSUME BoundsInv, NEW v, Bounds!Fix(v), layout' = layout, call' = call
  PROVE  /\ BoundsInv' /\ Bounds!PromisedSaved' = Bounds!PromisedSaved
         /\ \/ /\ v \in Bounds!ValuesOf(regs) /\ Bounds!ValuesOf(regs)' = {v}
               /\ answer' = IF Bounds!ValuesOf(regs)' = Bounds!ValuesOf(regs)
                            THEN "unchanged" ELSE "changed"
            \/ /\ v \notin Bounds!ValuesOf(regs) /\ answer' = "inconsistent"
               /\ Bounds!ValuesOf(regs)' = Bounds!ValuesOf(regs)
<1> DEFINE vals == ValuesIn(holes, regs)
<1>1. /\ Bounds!ValuesOf(regs) = vals
      /\ Bounds!ValuesOf(regs)' = ValuesIn(holes', regs')
  BY BoundsPromiseIs, BoundsPromiseIsNext
<1>2. saved' = saved /\ holes' = holes
  BY DEF Bounds!Fix
<1>3. CASE v \notin vals
  <2>1. regs' = regs /\ answer' = "inconsistent"
    BY <1>3, BoundsPromiseIs DEF Bounds!Fix
  <2>2. BoundsInv' /\ Bounds!PromisedSaved' = Bounds!PromisedSaved
    BY <1>2, <2>1, BoundsFacts, BoundsInvNext
  <2>3. QED
    BY <1>1, <1>2, <1>3, <2>1, <2>2
<1>4. CASE v \in vals
  <2>1. /\ regs' = Narrowed(regs, v)
        /\ answer' = IF Bounds!SizeOf(regs) > 1 THEN "changed" ELSE "unchanged"
    BY <1>4, BoundsPromiseIs DEF Bounds!Fix, Narrowed
  <2>2. IsBoundsCopy(holes, regs') /\ regs'.holes_len = regs.holes_len
        /\ ValuesIn(holes, regs') = {v}
    <3>1. holes \in Seq(Int) /\ IsBoundsCopy(holes, regs)
      BY BoundsFacts
    <3>2. QED
      BY <1>4, <2>1, <3>1, NarrowEffect
  <2>3. BoundsInv' /\ Bounds!PromisedSaved' = Bounds!PromisedSaved
    BY <1>2, <2>1, <2>2, BoundsInvNext
  <2>4. Bounds!SizeOf(regs) > 1 <=> vals # {v}
    <3>1. IsFiniteSet(vals) /\ Bounds!SizeOf(regs) = Cardinality(vals)
      BY BoundsFacts
    <3>2. Cardinality(vals) \in Nat /\ Cardinality(vals) # 0
      BY <1>4, <3>1, FS_CardinalityType, FS_EmptySet
    <3>3. Cardinality(vals) = 1 <=> \E x : vals = {x}
      BY <3>1, FS_Singleton
    <3>4. (\E x : vals = {x}) <=> vals = {v}
      BY <1>4
    <3>5. QED
      BY <3>1, <3>2, <3>3, <3>4
  <2>5. QED
    BY <1>1, <1>2, <1>4, <2>1, <2>2, <2>3, <2>4
<1>5. QED
  BY <1>3, <1>4

\* remove_below keeps the values from the bound on.
LEMMA BoundsRemoveBelowKeeps ==
  ASSUME BoundsInv, NEW bound \in Int, Bounds!RemoveBelow(bound), layout' = layout, call' = call
  PROVE  /\ BoundsInv' /\ Bounds!PromisedSaved' = Bounds!PromisedSaved
         /\ Bounds!ValuesOf(regs)' = {v \in Bounds!ValuesOf(regs) : v >= bound}
         /\ answer' = IF Bounds!ValuesOf(regs)' = Bounds!ValuesOf(regs)
                      THEN "unchanged" ELSE "changed"
<1> DEFINE vals == ValuesIn(holes, regs)
<1>1. /\ Bounds!ValuesOf(regs) = vals
      /\ Bounds!ValuesOf(regs)' = ValuesIn(holes', regs')
  BY BoundsPromiseIs, BoundsPromiseIsNext
<1>2. saved' = saved /\ holes' = holes
  BY DEF Bounds!RemoveBelow
<1>3. /\ regs.min \in Int /\ regs.max \in Int
      /\ \A w \in vals : w \in Int /\ regs.min <= w /\ w <= regs.max
      /\ ~regs.empty => regs.min \in vals
  BY BoundsFacts
<1>4. Bounds!SizeOf(regs) = 0 <=> regs.empty
  <2>1. IsFiniteSet(vals) /\ Bounds!SizeOf(regs) = Cardinality(vals)
    BY BoundsFacts
  <2>2. regs.empty <=> vals = {}
    BY <1>3, BoundsFacts DEF ValuesIn
  <2>3. QED
    BY <2>1, <2>2, FS_EmptySet
<1>5. CASE Bounds!SizeOf(regs) = 0 \/ bound <= regs.min
  <2>1. regs' = regs /\ answer' = "unchanged"
    BY <1>3, <1>5 DEF Bounds!RemoveBelow
  <2>2. BoundsInv' /\ Bounds!PromisedSaved' = Bounds!PromisedSaved
    BY <1>2, <2>1, BoundsFacts, BoundsInvNext
  <2>3. regs.empty => vals = {}
    BY DEF ValuesIn
  <2> HIDE DEF vals
  <2>4. vals = {v \in vals : v >= bound}
    BY <1>3, <1>4, <1>5, <2>3
  <2>5. QED
    BY <1>1, <1>2, <2>1, <2>2, <2>4 DEF vals
<1>6. CASE Bounds!SizeOf(regs) # 0 /\ bound > regs.min
  <2>1. /\ answer' = "changed" /\ ~regs.empty
        /\ regs' = IF bound > regs.max THEN [regs EXCEPT !.empty = TRUE]
                   ELSE SetMinIn(holes, regs, bound)
    BY <1>3, <1>4, <1>6, SettersAre DEF Bounds!RemoveBelow
  <2>2. /\ IsBoundsCopy(holes, regs') /\ regs'.holes_len = regs.holes_len
        /\ ValuesIn(holes, regs') = {v \in vals : v >= bound}
    <3>1. CASE bound > regs.max
      <4>1. /\ IsBoundsCopy(holes, regs') /\ regs'.holes_len = regs.holes_len
            /\ ValuesIn(holes, regs') = {}
        BY <2>1, <3>1, BoundsFacts, SetEmptyEffect
      <4> HIDE DEF vals
      <4>2. {v \in vals : v >= bound} = {}
        BY <1>3, <3>1
      <4>3. QED
        BY <4>1, <4>2
    <3>2. CASE ~(bound > regs.max)
      <4>1. regs' = SetMinIn(holes, regs, bound) /\ regs.min < bound
        BY <1>3, <1>6, <2>1, <3>2
      <4>2. QED
        <5>1. holes \in Seq(Int) /\ IsBoundsCopy(holes, regs) /\ ~regs.empty
          BY <2>1, BoundsFacts
        <5>2. vals = ValuesIn(holes, regs)
          OBVIOUS
        <5> HIDE DEF vals
        <5>3. /\ IsBoundsCopy(holes, SetMinIn(holes, regs, bound))
              /\ SetMinIn(holes, regs, bound).holes_len = regs.holes_len
              /\ ValuesIn(holes, SetMinIn(holes, regs, bound)) =
                   {v \in ValuesIn(holes, regs) : v >= bound}
          BY <4>1, <5>1, SetMinEffect
        <5>4. QED
          BY <4>1, <5>2, <5>3
    <3>3. QED
      BY <3>1, <3>2
  <2>3. BoundsInv' /\ Bounds!PromisedSaved' = Bounds!PromisedSaved
    BY <1>2, <2>1, <2>2, BoundsInvNext
  <2> HIDE DEF vals
  <2>4. {v \in vals : v >= bound} # vals
    BY <1>3, <1>6, <2>1
  <2>5. QED
    BY <1>1, <1>2, <2>1, <2>2, <2>3, <2>4 DEF vals
<1>7. QED
  BY <1>3, <1>5, <1>6

\* remove_above keeps the values up to the bound.
LEMMA BoundsRemoveAboveKeeps ==
  ASSUME BoundsInv, NEW bound \in Int, Bounds!RemoveAbove(bound), layout' = layout, call' = call
  PROVE  /\ BoundsInv' /\ Bounds!PromisedSaved' = Bounds!PromisedSaved
         /\ Bounds!ValuesOf(regs)' = {v \in Bounds!ValuesOf(regs) : v <= bound}
         /\ answer' = IF Bounds!ValuesOf(regs)' = Bounds!ValuesOf(regs)
                      THEN "unchanged" ELSE "changed"
<1> DEFINE vals == ValuesIn(holes, regs)
<1>1. /\ Bounds!ValuesOf(regs) = vals
      /\ Bounds!ValuesOf(regs)' = ValuesIn(holes', regs')
  BY BoundsPromiseIs, BoundsPromiseIsNext
<1>2. saved' = saved /\ holes' = holes
  BY DEF Bounds!RemoveAbove
<1>3. /\ regs.min \in Int /\ regs.max \in Int
      /\ \A w \in vals : w \in Int /\ regs.min <= w /\ w <= regs.max
      /\ ~regs.empty => regs.max \in vals
  BY BoundsFacts
<1>4. Bounds!SizeOf(regs) = 0 <=> regs.empty
  <2>1. IsFiniteSet(vals) /\ Bounds!SizeOf(regs) = Cardinality(vals)
    BY BoundsFacts
  <2>2. regs.empty <=> vals = {}
    BY <1>3, BoundsFacts DEF ValuesIn
  <2>3. QED
    BY <2>1, <2>2, FS_EmptySet
<1>5. CASE Bounds!SizeOf(regs) = 0 \/ bound >= regs.max
  <2>1. regs' = regs /\ answer' = "unchanged"
    BY <1>3, <1>5 DEF Bounds!RemoveAbove
  <2>2. BoundsInv' /\ Bounds!PromisedSaved' = Bounds!PromisedSaved
    BY <1>2, <2>1, BoundsFacts, BoundsInvNext
  <2>3. regs.empty => vals = {}
    BY DEF ValuesIn
  <2> HIDE DEF vals
  <2>4. vals = {v \in vals : v <= bound}
    BY <1>3, <1>4, <1>5, <2>3
  <2>5. QED
    BY <1>1, <1>2, <2>1, <2>2, <2>4 DEF vals
<1>6. CASE Bounds!SizeOf(regs) # 0 /\ bound < regs.max
  <2>1. /\ answer' = "changed" /\ ~regs.empty
        /\ regs' = IF bound < regs.min THEN [regs EXCEPT !.empty = TRUE]
                   ELSE SetMaxIn(holes, regs, bound)
    BY <1>3, <1>4, <1>6, SettersAre DEF Bounds!RemoveAbove
  <2>2. /\ IsBoundsCopy(holes, regs') /\ regs'.holes_len = regs.holes_len
        /\ ValuesIn(holes, regs') = {v \in vals : v <= bound}
    <3>1. CASE bound < regs.min
      <4>1. /\ IsBoundsCopy(holes, regs') /\ regs'.holes_len = regs.holes_len
            /\ ValuesIn(holes, regs') = {}
        BY <2>1, <3>1, BoundsFacts, SetEmptyEffect
      <4> HIDE DEF vals
      <4>2. {v \in vals : v <= bound} = {}
        BY <1>3, <3>1
      <4>3. QED
        BY <4>1, <4>2
    <3>2. CASE ~(bound < regs.min)
      <4>1. regs' = SetMaxIn(holes, regs, bound) /\ bound < regs.max
        BY <1>6, <2>1, <3>2
      <4>2. QED
        <5>1. holes \in Seq(Int) /\ IsBoundsCopy(holes, regs) /\ ~regs.empty
          BY <2>1, BoundsFacts
        <5>2. vals = ValuesIn(holes, regs)
          OBVIOUS
        <5> HIDE DEF vals
        <5>3. /\ IsBoundsCopy(holes, SetMaxIn(holes, regs, bound))
              /\ SetMaxIn(holes, regs, bound).holes_len = regs.holes_len
              /\ ValuesIn(holes, SetMaxIn(holes, regs, bound)) =
                   {v \in ValuesIn(holes, regs) : v <= bound}
          BY <4>1, <5>1, SetMaxEffect
        <5>4. QED
          BY <4>1, <5>2, <5>3
    <3>3. QED
      BY <3>1, <3>2
  <2>3. BoundsInv' /\ Bounds!PromisedSaved' = Bounds!PromisedSaved
    BY <1>2, <2>1, <2>2, BoundsInvNext
  <2> HIDE DEF vals
  <2>4. {v \in vals : v <= bound} # vals
    BY <1>3, <1>6, <2>1
  <2>5. QED
    BY <1>1, <1>2, <2>1, <2>2, <2>3, <2>4 DEF vals
<1>7. QED
  BY <1>3, <1>5, <1>6

\* Opening a level saves the promised set.
LEMMA PushLevelKeeps ==
  ASSUME BoundsInv, Bounds!PushLevel, layout' = layout, call' = call
  PROVE  /\ BoundsInv' /\ answer' = answer
         /\ Bounds!PromisedSaved' = Append(Bounds!PromisedSaved, Bounds!ValuesOf(regs))
         /\ Bounds!ValuesOf(regs)' = Bounds!ValuesOf(regs)
<1> DEFINE n == Len(saved)
           stack == Append(saved, regs)
<1>1. saved' = stack /\ holes' = holes /\ regs' = regs /\ answer' = answer
  BY DEF Bounds!PushLevel
<1>2. /\ saved \in Seq(Bounds!Regs) /\ regs \in Bounds!Regs /\ IsBoundsCopy(holes, regs)
      /\ \A k \in DOMAIN saved :
           IsBoundsCopy(holes, saved[k]) /\ saved[k].holes_len <= regs.holes_len
      /\ \A j, k \in DOMAIN saved : j < k => saved[j].holes_len <= saved[k].holes_len
      /\ regs.holes_len \in Nat
  BY BoundsFacts DEF IsBoundsStack, IsBoundsCopy
<1>3. /\ n \in Nat /\ DOMAIN saved = 1 .. n
      /\ stack \in Seq(Bounds!Regs) /\ Len(stack) = n + 1 /\ DOMAIN stack = 1 .. n + 1
      /\ \A k \in 1 .. n : stack[k] = saved[k]
      /\ stack[n + 1] = regs
  BY <1>2, SeqFacts
<1> HIDE DEF stack, n
<1>4. \A k \in DOMAIN stack :
        IsBoundsCopy(holes, stack[k]) /\ stack[k].holes_len <= regs.holes_len
  <2>1. \A k \in 1 .. n + 1 : k \in 1 .. n \/ k = n + 1
    BY <1>3
  <2>2. QED
    BY <2>1, <1>2, <1>3
<1>5. \A j, k \in DOMAIN stack : j < k => stack[j].holes_len <= stack[k].holes_len
  <2>1. \A j, k \in 1 .. n + 1 : j < k => j \in 1 .. n /\ (k \in 1 .. n \/ k = n + 1)
    BY <1>3
  <2>2. QED
    BY <2>1, <1>2, <1>3
<1>6. IsBoundsStack(holes, regs, stack)
  BY <1>3, <1>4, <1>5, Zenon DEF IsBoundsStack
<1>7. BoundsInv'
  BY <1>1, <1>6 DEF BoundsInv
<1>8. ValuesSaved(holes, stack) = Append(ValuesSaved(holes, saved), ValuesIn(holes, regs))
  <2> DEFINE f == ValuesSaved(holes, saved)
             g == ValuesSaved(holes, stack)
  <2>1. IsMap(f, n) /\ IsMap(g, n + 1)
    BY <1>3 DEF IsMap, ValuesSaved
  <2>2. \A k \in 1 .. n : k \in 1 .. n + 1
    BY <1>3
  <2>3. \A k \in 1 .. n : g[k] = f[k]
    BY <1>3, <2>2 DEF ValuesSaved
  <2>4. n + 1 \in 1 .. n + 1
    BY <1>3
  <2>5. g[n + 1] = ValuesIn(holes, regs)
    BY <1>3, <2>4 DEF ValuesSaved
  <2> HIDE DEF f, g
  <2>6. g = Append(f, g[n + 1])
    BY <1>3, <2>1, <2>3, AppendToFunction
  <2>7. QED
    BY <2>5, <2>6 DEF f, g
<1>9. QED
  BY <1>1, <1>7, <1>8, BoundsPromiseIs, BoundsPromiseIsNext

\* Closing a level brings back the set it saved, from holes that newer levels
\* have appended to but not overwritten.
LEMMA PopLevelKeeps ==
  ASSUME BoundsInv, Bounds!PopLevel, layout' = layout, call' = call
  PROVE  /\ BoundsInv' /\ answer' = answer
         /\ Bounds!PromisedSaved # <<>>
         /\ Bounds!ValuesOf(regs)' = Bounds!PromisedSaved[Len(Bounds!PromisedSaved)]
         /\ Bounds!PromisedSaved' =
              SubSeq(Bounds!PromisedSaved, 1, Len(Bounds!PromisedSaved) - 1)
<1> DEFINE n == Len(saved)
           h == Len(saved) - 1
           stack == SubSeq(saved, 1, h)
<1>1. /\ saved # <<>> /\ saved' = stack /\ regs' = saved[n]
      /\ holes' = holes /\ answer' = answer
  BY DEF Bounds!PopLevel
<1>2. /\ saved \in Seq(Bounds!Regs)
      /\ \A k \in DOMAIN saved :
           IsBoundsCopy(holes, saved[k]) /\ saved[k].holes_len <= regs.holes_len
      /\ \A j, k \in DOMAIN saved : j < k => saved[j].holes_len <= saved[k].holes_len
  BY BoundsFacts DEF IsBoundsStack
<1>3. /\ n \in Nat /\ n > 0 /\ h \in 0 .. n /\ h \in Nat /\ n = h + 1
      /\ DOMAIN saved = 1 .. n /\ n \in 1 .. n
  <2>1. n \in Nat /\ DOMAIN saved = 1 .. n
    BY <1>2, SeqFacts
  <2>2. n # 0
    BY <1>1, <1>2
  <2>3. QED
    BY <2>1, <2>2
<1>4. /\ stack \in Seq(Bounds!Regs) /\ Len(stack) = h /\ DOMAIN stack = 1 .. h
      /\ \A k \in 1 .. h : stack[k] = saved[k]
  BY <1>2, <1>3, SeqFacts
<1> HIDE DEF stack, n, h
<1>5. \A k \in 1 .. h : k \in DOMAIN saved /\ k < n
  BY <1>3
<1>6. IsBoundsStack(holes, regs', stack) /\ IsBoundsCopy(holes, regs')
  <2>1. \A k \in DOMAIN stack :
          IsBoundsCopy(holes, stack[k]) /\ stack[k].holes_len <= regs'.holes_len
    BY <1>1, <1>2, <1>3, <1>4, <1>5
  <2>2. \A j, k \in DOMAIN stack : j < k => stack[j].holes_len <= stack[k].holes_len
    BY <1>2, <1>4, <1>5
  <2>3. IsBoundsCopy(holes, regs')
    BY <1>1, <1>2, <1>3
  <2>4. QED
    BY <1>4, <2>1, <2>2, <2>3, Zenon DEF IsBoundsStack
<1>7. BoundsInv'
  BY <1>1, <1>6 DEF BoundsInv
<1>8. ValuesSaved(holes, saved)[n] = ValuesIn(holes, saved[n])
  BY <1>3 DEF ValuesSaved
<1>9. /\ ValuesSaved(holes, saved) # <<>> /\ Len(ValuesSaved(holes, saved)) = n
      /\ ValuesSaved(holes, stack) = SubSeq(ValuesSaved(holes, saved), 1, n - 1)
  <2> DEFINE f == ValuesSaved(holes, saved)
             g == ValuesSaved(holes, stack)
  <2>1. IsMap(f, n) /\ IsMap(g, h)
    BY <1>3, <1>4 DEF IsMap, ValuesSaved
  <2>2. \A k \in 1 .. h : g[k] = f[k]
    BY <1>4, <1>5 DEF ValuesSaved
  <2> HIDE DEF f, g
  <2>3. n - 1 = h
    BY <1>3
  <2>4. f # <<>> /\ Len(f) = n /\ g = SubSeq(f, 1, Len(f) - 1)
    <3>1. /\ saved \in Seq(Bounds!Regs) /\ saved # <<>>
          /\ IsMap(f, Len(saved)) /\ IsMap(g, Len(saved) - 1)
          /\ \A k \in 1 .. Len(saved) - 1 : g[k] = f[k]
      BY <1>1, <1>2, <2>1, <2>2, <2>3 DEF n
    <3>2. QED
      BY <3>1, MapOfFront DEF n
  <2>5. QED
    BY <2>4 DEF f, g
<1>10. QED
  BY <1>1, <1>7, <1>8, <1>9, BoundsPromiseIs, BoundsPromiseIsNext

\* The invariant says what the runs check of a bounds domain.
LEMMA BoundsInvImplies ==
  ASSUME BoundsInv
  PROVE  Bounds!RepresentationInv
<1>1. /\ holes \in Seq(Int) /\ IsBoundsCopy(holes, regs)
      /\ saved \in Seq(Bounds!Regs) /\ \A k \in DOMAIN saved : IsBoundsCopy(holes, saved[k])
      /\ answer \in {"none", "changed", "unchanged", "inconsistent"}
  BY DEF BoundsInv, IsBoundsStack
<1>2. Bounds!TypeOK
  BY <1>1 DEF Bounds!TypeOK, IsBoundsCopy
<1>3. ASSUME NEW r, IsBoundsCopy(holes, r)
      PROVE  /\ Bounds!ValuesOf(r) = ValuesIn(holes, r)
             /\ Bounds!CountIsExact(r)
             /\ ~r.empty => r.min \in Bounds!ValuesOf(r) /\ r.max \in Bounds!ValuesOf(r)
  <2>1. Bounds!ValuesOf(r) = ValuesIn(holes, r)
    BY DEF Bounds!ValuesOf, Bounds!HolesOf, ValuesIn, HolesIn
  <2>2. Bounds!SizeOf(r) = Cardinality(ValuesIn(holes, r))
    <3>1. CASE r.empty
      <4>1. ValuesIn(holes, r) = {} /\ Bounds!SizeOf(r) = 0
        BY <3>1 DEF ValuesIn, Bounds!SizeOf
      <4>2. QED
        BY <4>1, FS_EmptySet
    <3>2. CASE ~r.empty
      BY <1>1, <1>3, <3>2, SizeCounts DEF Bounds!SizeOf
    <3>3. QED
      BY <3>1, <3>2
  <2>3. ~r.empty => r.min \in ValuesIn(holes, r) /\ r.max \in ValuesIn(holes, r)
    BY <1>1, <1>3, BoundsCopyFacts
  <2>4. QED
    BY <2>1, <2>2, <2>3, CardinalityIs DEF Bounds!CountIsExact
<1>4. Bounds!SizeIsExact
  BY <1>1, <1>3 DEF Bounds!SizeIsExact
<1>5. Bounds!BoundsArePresent
  BY <1>1, <1>3 DEF Bounds!BoundsArePresent
<1>6. QED
  BY <1>2, <1>4, <1>5 DEF Bounds!RepresentationInv

\* Every call of the bounds layout keeps the invariant and is one the promise allows.
LEMMA BoundsStep ==
  ASSUME BoundsInv, Bounds!Next, UNCHANGED <<arrays, call>>
  PROVE  BoundsInv' /\ [Promise!Next]_(Promise!domainVars)
<1>1. layout' = layout /\ call' = call /\ layout = "bounds"
  BY DEF arrays, BoundsInv
<1>2. ASSUME NEW v \in Inputs, Bounds!Remove(v)
      PROVE  BoundsInv' /\ Promise!Remove(v)
  BY <1>1, <1>2, BoundsRemoveKeeps DEF Promise!Remove, Promise!Shrink
<1>3. ASSUME NEW v \in Inputs, Bounds!Fix(v)
      PROVE  BoundsInv' /\ Promise!Fix(v)
  BY <1>1, <1>3, BoundsFixKeeps DEF Promise!Fix, Promise!Shrink
<1>4. ASSUME NEW v \in Inputs, Bounds!RemoveBelow(v)
      PROVE  BoundsInv' /\ Promise!RemoveBelow(v)
  <2>1. v \in Int
    BY SparseSetAssumption
  <2>2. QED
    BY <1>1, <1>4, <2>1, BoundsRemoveBelowKeeps DEF Promise!RemoveBelow, Promise!Shrink
<1>5. ASSUME NEW v \in Inputs, Bounds!RemoveAbove(v)
      PROVE  BoundsInv' /\ Promise!RemoveAbove(v)
  <2>1. v \in Int
    BY SparseSetAssumption
  <2>2. QED
    BY <1>1, <1>5, <2>1, BoundsRemoveAboveKeeps DEF Promise!RemoveAbove, Promise!Shrink
<1>6. ASSUME Bounds!PushLevel
      PROVE  BoundsInv' /\ Promise!Save
  BY <1>1, <1>6, PushLevelKeeps DEF Promise!Save
<1>7. ASSUME Bounds!PopLevel
      PROVE  BoundsInv' /\ Promise!Restore
  BY <1>1, <1>7, PopLevelKeeps DEF Promise!Restore
<1>8. QED
  BY <1>2, <1>3, <1>4, <1>5, <1>6, <1>7 DEF Bounds!Next, Promise!Next

-----------------------------------------------------------------------------
(* One interface, three layouts.                                           *)

\* from_bounds_range: a range without holes.
LEMMA BoundsInitInv ==
  ASSUME NewBoundsDomain
  PROVE  /\ BoundsInv
         /\ Bounds!ValuesOf(regs) \in SUBSET Universe /\ Bounds!ValuesOf(regs) # {}
<1>1. PICK lo \in Universe, hi \in Universe :
        /\ lo <= hi /\ lo .. hi \subseteq Universe
        /\ regs = [holes_len |-> 0, empty |-> FALSE, active_holes |-> 0, min |-> lo, max |-> hi]
  BY DEF NewBoundsDomain, Bounds!Init
<1>2. lo \in Int /\ hi \in Int
  BY SparseSetAssumption
<1>3. /\ holes = <<>> /\ saved = <<>> /\ answer = "none"
      /\ layout = "bounds" /\ call = Idle
  BY DEF NewBoundsDomain, Bounds!Init
<1>4. /\ regs \in Bounds!Regs /\ regs.holes_len = 0 /\ regs.active_holes = 0
      /\ ~regs.empty /\ regs.min = lo /\ regs.max = hi
  BY <1>1, <1>2 DEF Bounds!Regs
<1>5. 1 .. regs.holes_len = {}
  BY <1>4
<1>6. /\ HolesIn(holes, regs) = {}
      /\ Between(holes, regs.holes_len, regs.min, regs.max) = {}
  BY <1>5 DEF HolesIn, Between
<1>7. Cardinality({}) = 0
  BY FS_EmptySet
<1>8. holes \in Seq(Int) /\ Len(holes) = 0
  BY <1>3
<1>9. IsBoundsCopy(holes, regs)
  <2>1. regs.active_holes = Cardinality(Between(holes, regs.holes_len, regs.min, regs.max))
    BY <1>4, <1>6, <1>7
  <2>2. regs.holes_len <= Len(holes)
    BY <1>4, <1>8
  <2>3. \A i, j \in 1 .. regs.holes_len : holes[i] = holes[j] => i = j
    BY <1>5
  <2>4. regs.min <= regs.max /\ regs.min \notin HolesIn(holes, regs)
        /\ regs.max \notin HolesIn(holes, regs)
    BY <1>1, <1>4, <1>6
  <2>5. QED
    BY <1>4, <2>1, <2>2, <2>3, <2>4, Zenon DEF IsBoundsCopy
<1>10. IsBoundsStack(holes, regs, saved)
  BY <1>3 DEF IsBoundsStack
<1>11. ValuesIn(holes, regs) = lo .. hi
  BY <1>4, <1>6 DEF ValuesIn
<1>12. lo .. hi # {}
  BY <1>1, <1>2
<1>13. Bounds!ValuesOf(regs) = ValuesIn(holes, regs)
  BY DEF Bounds!ValuesOf, Bounds!HolesOf, ValuesIn, HolesIn
<1>14. QED
  BY <1>1, <1>3, <1>8, <1>9, <1>10, <1>11, <1>12, <1>13 DEF BoundsInv

\* The invariant of a domain in whatever layout: it holds when a domain is created,
\* every call keeps it, and every call is one that the promise allows.
LEMMA DomainInitInv ==
  ASSUME NewDomain
  PROVE  DomainInv /\ Promise!Init
<1>1. CASE NewBoundsDomain
  <2>1. /\ BoundsInv
        /\ Bounds!ValuesOf(regs) \in SUBSET Universe /\ Bounds!ValuesOf(regs) # {}
    BY <1>1, BoundsInitInv
  <2>2. layout = "bounds" /\ saved = <<>> /\ answer = "none"
    BY <1>1 DEF NewBoundsDomain, Bounds!Init
  <2>3. Bounds!PromisedSaved = <<>>
    BY <2>2 DEF Bounds!PromisedSaved
  <2>4. QED
    BY <2>1, <2>2, <2>3 DEF DomainInv, Promise!Init
<1>2. CASE NewSparseSetDomain
  <2>1. /\ SparseSetInv
        /\ PresentIn(dense, regs.size) \in SUBSET Universe /\ PresentIn(dense, regs.size) # {}
    BY <1>2, SparseSetInitInv DEF NewSparseSetDomain
  <2>2. saved = <<>> /\ answer = "none" /\ call = Idle
    BY <1>2 DEF NewSparseSetDomain, SparseSetInit
  <2>3. layout # "bounds"
    BY <2>1 DEF SparseSetInv
  <2>4. PromisedValues = PresentIn(dense, regs.size)
    BY <2>2 DEF PromisedValues, PresentValues, Present, PresentIn
  <2>5. PromisedSaved = <<>> /\ PromisedAnswer = "none"
    BY <2>2 DEF PromisedSaved, PromisedAnswer
  <2>6. QED
    BY <2>1, <2>2, <2>3, <2>4, <2>5 DEF DomainInv, Promise!Init
<1>3. QED
  BY <1>1, <1>2 DEF NewDomain

\* Every step keeps the invariant and is one that the promise allows, or a stutter of it.
LEMMA DomainStep ==
  ASSUME DomainInv, [DomainNext]_domainVars
  PROVE  DomainInv' /\ [Promise!Next]_(Promise!domainVars)
<1>1. CASE BoundsCall
  <2>1. BoundsInv
    BY <1>1 DEF BoundsCall, DomainInv
  <2>2. BoundsInv' /\ [Promise!Next]_(Promise!domainVars)
    BY <1>1, <2>1, BoundsStep DEF BoundsCall
  <2>3. QED
    BY <2>2 DEF DomainInv, BoundsInv
<1>2. CASE SparseSetCall
  <2>1. SparseSetInv
    BY <1>2 DEF SparseSetCall, DomainInv
  <2>2. SparseSetInv' /\ [Promise!Next]_(Promise!domainVars)
    BY <1>2, <2>1, SparseSetStep DEF SparseSetCall
  <2>3. QED
    BY <2>2 DEF DomainInv, SparseSetInv
<1>3. CASE UNCHANGED domainVars
  <2>1. /\ layout' = layout /\ dense' = dense /\ sparse' = sparse /\ regs' = regs
        /\ saved' = saved /\ call' = call /\ answer' = answer /\ holes' = holes
    BY <1>3 DEF domainVars, sparseSetVars, arrays
  <2>2. DomainInv'
    BY <2>1 DEF DomainInv, BoundsInv, SparseSetInv
  <2>3. /\ PromisedValues' = PromisedValues /\ PromisedSaved' = PromisedSaved
        /\ PromisedAnswer' = PromisedAnswer
        /\ Bounds!ValuesOf(regs)' = Bounds!ValuesOf(regs)
        /\ Bounds!PromisedSaved' = Bounds!PromisedSaved
    BY <2>1 DEF PromisedValues, PresentValues, Present, PromisedSaved, PromisedAnswer,
                Bounds!ValuesOf, Bounds!HolesOf, Bounds!PromisedSaved
  <2>4. QED
    BY <2>1, <2>2, <2>3 DEF Promise!domainVars
<1>4. QED
  BY <1>1, <1>2, <1>3 DEF DomainNext

\* What is stored twice agrees, for every universe, every input and any number of
\* open levels: the arrays of a sparse set are inverse permutations between any two
\* iterations of its loops, its cached bounds are the extremes of the set that its
\* size delimits, and the hole count of a bounds domain answers size exactly, now
\* and in every copy that a pop can bring back (src/domains/int.rs).
THEOREM RepresentationsAgree == DomainSpec => []RepresentationAgrees
<1>1. NewDomain => DomainInv
  BY DomainInitInv
<1>2. DomainInv /\ [DomainNext]_domainVars => DomainInv'
  BY DomainStep
<1>3. DomainInv => RepresentationAgrees
  <2>1. CASE layout = "bounds"
    BY <2>1, BoundsInvImplies DEF DomainInv, RepresentationAgrees
  <2>2. CASE layout # "bounds"
    BY <2>2, SparseSetInvImplies DEF DomainInv, RepresentationAgrees
  <2>3. QED
    BY <2>1, <2>2
<1>4. QED
  BY <1>1, <1>2, <1>3, PTL DEF DomainSpec

\* Whatever it is stored in, a domain behaves as the set with a stack of saved sets
\* that its callers rely on: a whole removal loop is one step, closing a level brings
\* back the exact set of values although neither the arrays nor the vector of holes is
\* restored, and every call answers exactly whether it changed something.
THEOREM DomainsKeepTheirPromise == DomainSpec => ImplementsDomain
<1>1. NewDomain => DomainInv /\ Promise!Init
  BY DomainInitInv
<1>2. DomainInv /\ [DomainNext]_domainVars => DomainInv' /\ [Promise!Next]_(Promise!domainVars)
  BY DomainStep
<1>3. QED
  BY <1>1, <1>2, PTL DEF DomainSpec, ImplementsDomain, Promise!Spec
=============================================================================
