--------------------------- MODULE ReversibleState ---------------------------
(***************************************************************************)
(* What a trail promises: a store of cells with a stack of saved copies.   *)
(* Opening a level saves the whole store, closing it brings it back.       *)
(***************************************************************************)
EXTENDS Integers, Sequences

CONSTANTS Cells, Values

VARIABLES
  current,   \* the present value of every allocated cell
  saved      \* one copy of the store per open level, outermost first

stateVars == <<current, saved>>

Init == current = [c \in {} |-> 0] /\ saved = <<>>

NewCell ==
  /\ saved = <<>>
  /\ \E c \in Cells \ DOMAIN current, v \in Values :
       current' = [d \in DOMAIN current \cup {c} |-> IF d = c THEN v ELSE current[d]]
  /\ UNCHANGED saved

Write ==
  /\ \E c \in DOMAIN current, v \in Values : current' = [current EXCEPT ![c] = v]
  /\ UNCHANGED saved

Save ==
  /\ saved' = Append(saved, current)
  /\ UNCHANGED current

Restore ==
  /\ saved # <<>>
  /\ current' = saved[Len(saved)]
  /\ saved' = SubSeq(saved, 1, Len(saved) - 1)

Next == NewCell \/ Write \/ Save \/ Restore
Spec == Init /\ [][Next]_stateVars
=============================================================================
