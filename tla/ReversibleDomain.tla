-------------------------- MODULE ReversibleDomain --------------------------
(***************************************************************************)
(* What a trailed integer domain promises, whatever it is stored in: a set *)
(* of values that the filtering calls shrink, an exact answer from each    *)
(* call, and a stack of saved sets that closing a level brings back.       *)
(***************************************************************************)
EXTENDS Integers, Sequences

CONSTANTS
  Universe,    \* values a domain can be created over
  Inputs       \* values and bounds the filtering calls can be given

VARIABLES
  vals,        \* the values present
  saved,       \* one set per open level, outermost first
  answer       \* what the last call returned

domainVars == <<vals, saved, answer>>

Answers == {"none", "changed", "unchanged", "inconsistent"}

Init ==
  /\ vals \in SUBSET Universe /\ vals # {}
  /\ saved = <<>>
  /\ answer = "none"

Shrink(kept) ==
  /\ vals' = kept
  /\ answer' = IF kept = vals THEN "unchanged" ELSE "changed"
  /\ UNCHANGED saved

Remove(v)      == Shrink(vals \ {v})
RemoveBelow(b) == Shrink({v \in vals : v >= b})
RemoveAbove(b) == Shrink({v \in vals : v <= b})

Fix(v) ==
  \/ v \in vals /\ Shrink({v})
  \/ v \notin vals /\ answer' = "inconsistent" /\ UNCHANGED <<vals, saved>>

Save    == saved' = Append(saved, vals) /\ UNCHANGED <<vals, answer>>

Restore ==
  /\ saved # <<>>
  /\ vals' = saved[Len(saved)]
  /\ saved' = SubSeq(saved, 1, Len(saved) - 1)
  /\ UNCHANGED answer

Next ==
  \/ \E v \in Inputs : Remove(v) \/ Fix(v) \/ RemoveBelow(v) \/ RemoveAbove(v)
  \/ Save \/ Restore

Spec == Init /\ [][Next]_domainVars
=============================================================================
