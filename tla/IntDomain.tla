----------------------------- MODULE IntDomain -----------------------------
(***************************************************************************)
(* struct Domain of src/domains/int.rs: one interface, three layouts.  The *)
(* constructors choose the layout from the root's shape (a wide range gets *)
(* bounds; how wide is left open), and every call dispatches on it.        *)
(*                                                                         *)
(* The trailed integers regs and their copies are shared by the layouts.   *)
(***************************************************************************)
EXTENDS SparseSetDomain

VARIABLE holes   \* the vector of removed interior values of the bounds layout

Bounds == INSTANCE BoundsDomain

domainVars == <<sparseSetVars, holes>>

NewBoundsDomain ==
  /\ Bounds!Init
  /\ layout = "bounds" /\ dense = <<>> /\ sparse = <<>> /\ call = Idle

NewSparseSetDomain == SparseSetInit /\ holes = <<>>

NewDomain == NewBoundsDomain \/ NewSparseSetDomain

BoundsCall    == layout = "bounds" /\ Bounds!Next /\ UNCHANGED <<arrays, call>>
SparseSetCall == layout # "bounds" /\ SparseSetNext /\ UNCHANGED holes

DomainNext == BoundsCall \/ SparseSetCall
DomainSpec == NewDomain /\ [][DomainNext]_domainVars

-----------------------------------------------------------------------------
(* Properties.                                                             *)

\* What is stored twice agrees: the two arrays of a sparse set and its cached
\* bounds ("meaningful only while size > 0"), the cached hole count of a bounds
\* domain and its bounds, now and in every copy that a pop can bring back.
RepresentationAgrees ==
  IF layout = "bounds" THEN Bounds!RepresentationInv ELSE RepresentationInv

\* The domain is a set with a stack of saved sets, whatever it is stored in:
\* arrays that are permuted and hole vectors that are overwritten without ever
\* being restored do not show, and every call answers exactly whether it changed
\* something.
Promise == INSTANCE ReversibleDomain WITH
  vals   <- IF layout = "bounds" THEN Bounds!ValuesOf(regs) ELSE PromisedValues,
  saved  <- IF layout = "bounds" THEN Bounds!PromisedSaved ELSE PromisedSaved,
  answer <- IF layout = "bounds" THEN answer ELSE PromisedAnswer
ImplementsDomain == Promise!Spec
=============================================================================
