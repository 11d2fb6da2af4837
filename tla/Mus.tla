-------------------------------- MODULE Mus --------------------------------
(***************************************************************************)
(* Why a model has no solution: src/mus.rs.                                *)
(*                                                                         *)
(* Each candidate constraint hangs on a selector; one learning engine tells*)
(* which sets of selectors are inconsistent, by resolve_assumptions, and   *)
(* of an inconsistent set a participating part that is itself inconsistent *)
(* (see Learning).  extract_mus reports one minimal inconsistent set,      *)
(* enumerate_mus (MARCO) all of them and all maximal consistent sets.      *)
(*                                                                         *)
(* The root, which no selector guards, may be inconsistent by itself: the  *)
(* propagation of init may refute it or leave that to search.  Only        *)
(* enumerate_mus then asks for it.                                         *)
(*                                                                         *)
(* Every call of the engine may be interrupted once the stop is raised.    *)
(***************************************************************************)
EXTENDS Naturals, FiniteSets

CONSTANTS
  ExtractSizes, EnumerateSizes,  \* numbers of selectors that the root leaves free
  FoundLimits                    \* the limits of enumerate_mus, a number of found sets

ASSUME MusAssumption ==
  ExtractSizes \subseteq Nat /\ EnumerateSizes \subseteq Nat /\ FoundLimits \subseteq Nat

VARIABLES
  selectors,   \* sel_of, as 1 .. n
  conflicts,   \* the inconsistent sets of selectors
  request,     \* "extract" or "enumerate"
  found_limit, \* limit
  mus_stop,    \* the stop flag
  stage,       \* what the operation does next
  working,     \* the seed, or the candidates being trimmed
  blocks,      \* the clauses of the map solver
  muses, msses,
  complete,
  verdicts     \* extract_mus: "none", "sat", "mus", "interrupted"

inputs == <<selectors, conflicts, request, found_limit>>
musVars == <<inputs, mus_stop, stage, working, blocks, muses, msses, complete, verdicts>>

\* More constraints leave an inconsistent set inconsistent.
UpwardClosed(F) == \A S \in F : \A i \in selectors : S \cup {i} \in F

MusInit ==
  /\ request \in {"extract", "enumerate"}
  /\ \E n \in IF request = "extract" THEN ExtractSizes ELSE EnumerateSizes : selectors = 1 .. n
  /\ found_limit \in IF request = "extract" THEN {0} ELSE FoundLimits
  /\ conflicts \in {F \in SUBSET SUBSET selectors : UpwardClosed(F)}
  /\ mus_stop = FALSE
  /\ stage = "root" /\ working = selectors
  /\ blocks = {} /\ muses = {} /\ msses = {} /\ complete = FALSE
  /\ verdicts = "none"

Inconsistent(S) == S \in conflicts
Cores(S) == (SUBSET S) \cap conflicts

-----------------------------------------------------------------------------
(* The pure parts.                                                         *)

Grew_Never(added) == FALSE
\* The background is tested only when it has just grown.
Grew(added) == added # {}

\* Candidates are kept sorted and split in the middle.
FirstHalf(cand) == {i \in cand : Cardinality({j \in cand : j <= i}) <= Cardinality(cand) \div 2}

Questions == [background : SUBSET selectors, grew : BOOLEAN, cand : SUBSET selectors]
Question(b, g, c) == [background |-> b, grew |-> g, cand |-> c]

\* The least part of the candidates, by halves, that is inconsistent with the
\* background, when the engine refutes the sets of refuted.
QuickXplain(refuted, candidates) ==
  LET least[q \in Questions] ==
        IF q.cand = {} \/ (q.grew /\ q.background \in refuted) THEN {}
        ELSE IF Cardinality(q.cand) = 1 THEN q.cand
        ELSE LET c1 == FirstHalf(q.cand)
                 d2 == least[Question(q.background \cup c1, Grew(c1), q.cand \ c1)]
             IN  d2 \cup least[Question(q.background \cup d2, Grew(d2), c1)]
  IN  least[Question({}, FALSE, candidates)]

\* What the engine may refute while the candidates are minimised: what is inconsistent,
\* unless the root is.  Then each refutation may be one of the root itself, after which
\* any other set may come out with a spurious model; the first one asked about does not.
Refutable(candidates) ==
  IF ~Inconsistent({}) THEN {conflicts}
  ELSE {conflicts \ missed : missed \in SUBSET (SUBSET candidates \ {{}, FirstHalf(candidates)})}

\* Each absent selector, in turn, is kept while the set stays consistent.
Grow(seed) ==
  LET kept[i \in 0 .. Cardinality(selectors)] ==
        IF i = 0 THEN seed
        ELSE kept[i - 1] \cup (IF i \in seed \/ Inconsistent(kept[i - 1] \cup {i}) THEN {} ELSE {i})
  IN  kept[Cardinality(selectors)]

\* A map clause asks for a selector of in, or for the absence of one of out.
Allowed(seed, clause) == seed \cap clause.in # {} \/ clause.out \ seed # {}
Seeds == {seed \in SUBSET selectors : \A b \in blocks : Allowed(seed, b)}

BlockSubsets(mss)   == [in |-> selectors \ mss, out |-> {}]
BlockSupersets(mus) == [in |-> {}, out |-> mus]

-----------------------------------------------------------------------------
(* The steps, one for each group of engine calls.                          *)

End == stage' = "done" /\ UNCHANGED working

\* init: its propagation refutes the root.
RootRefuted ==
  /\ stage = "root" /\ Inconsistent({}) /\ End
  /\ muses' = {{}} /\ complete' = (request = "enumerate")
  /\ verdicts' = IF request = "extract" THEN "mus" ELSE verdicts
  /\ UNCHANGED <<inputs, mus_stop, blocks, msses>>

\* It does not, be the root consistent or not.
RootUnrefuted ==
  /\ stage = "root" /\ stage' = (IF request = "extract" THEN "solve" ELSE "check")
  /\ UNCHANGED <<inputs, mus_stop, working, blocks, muses, msses, complete, verdicts>>

\* enumerate_mus asks the fresh engine for the root alone.
CheckRoot ==
  /\ stage = "check"
  /\ IF Inconsistent({}) THEN End /\ muses' = {{}} /\ complete' = TRUE
     ELSE stage' = "map" /\ UNCHANGED <<working, muses, complete>>
  /\ UNCHANGED <<inputs, mus_stop, blocks, msses, verdicts>>

\* extract_mus assumes every selector.  An empty core refutes the root.
SolveAll ==
  /\ stage = "solve"
  /\ \/ ~Inconsistent(working) /\ End /\ verdicts' = "sat" /\ UNCHANGED muses
     \/ {} \in Cores(working) /\ End /\ verdicts' = "mus" /\ muses' = {{}}
     \/ working' \in Cores(working) \ {{}} /\ stage' = "trim" /\ UNCHANGED <<muses, verdicts>>
  /\ UNCHANGED <<inputs, mus_stop, blocks, msses, complete>>

\* The loop of enumerate_mus: the limit, then the map.  Its solver gives any model.
NextSeed ==
  /\ stage = "map"
  /\ LET full == Cardinality(muses) + Cardinality(msses) >= found_limit
     IN  \/ full /\ End /\ UNCHANGED complete
         \/ ~full /\ Seeds = {} /\ End /\ complete' = TRUE
         \/ ~full /\ working' \in Seeds /\ stage' = "seed" /\ UNCHANGED complete
  /\ UNCHANGED <<inputs, mus_stop, blocks, muses, msses, verdicts>>

GrowSeed_Unblocked ==
  /\ stage = "seed" /\ ~Inconsistent(working)
  /\ msses' = msses \cup {Grow(working)}
  /\ stage' = "map"
  /\ UNCHANGED <<inputs, mus_stop, working, blocks, muses, complete, verdicts>>
GrowSeed ==
  /\ stage = "seed" /\ ~Inconsistent(working)
  /\ LET mss == Grow(working)
     IN  msses' = msses \cup {mss} /\ blocks' = blocks \cup {BlockSubsets(mss)}
  /\ stage' = "map"
  /\ UNCHANGED <<inputs, mus_stop, working, muses, complete, verdicts>>

ShrinkSeed ==
  /\ stage = "seed" /\ Inconsistent(working) /\ stage' = "trim"
  /\ UNCHANGED <<inputs, mus_stop, working, blocks, muses, msses, complete, verdicts>>

\* refine: each refutation reports the part that took part in it, until none shrinks.
Trim ==
  /\ stage = "trim"
  /\ working' \in Cores(working)
  /\ stage' = IF Cardinality(working') < Cardinality(working) THEN "trim" ELSE "minimise"
  /\ UNCHANGED <<inputs, mus_stop, blocks, muses, msses, complete, verdicts>>

Minimise ==
  /\ stage = "minimise"
  /\ \E refuted \in Refutable(working) :
       LET mus == QuickXplain(refuted, working)
       IN /\ muses' = muses \cup {mus}
          /\ IF request = "extract"
             THEN stage' = "done" /\ verdicts' = "mus" /\ UNCHANGED blocks
             ELSE /\ stage' = "map" /\ blocks' = blocks \cup {BlockSupersets(mus)}
                  /\ UNCHANGED verdicts
  /\ UNCHANGED <<inputs, mus_stop, working, msses, complete>>

\* A stop is noticed in any call of the engine or of the map solver; what was
\* found before it is kept and never called complete.
Interrupt ==
  /\ mus_stop /\ stage # "done" /\ End
  /\ verdicts' = IF request = "extract" THEN "interrupted" ELSE verdicts
  /\ UNCHANGED <<inputs, mus_stop, blocks, muses, msses, complete>>

RaiseMusStop ==
  /\ ~mus_stop /\ stage # "done" /\ mus_stop' = TRUE
  /\ UNCHANGED <<inputs, stage, working, blocks, muses, msses, complete, verdicts>>

MusStep == \/ RootRefuted \/ RootUnrefuted \/ CheckRoot \/ SolveAll \/ NextSeed
           \/ GrowSeed \/ ShrinkSeed \/ Trim \/ Minimise \/ Interrupt
MusNext == MusStep \/ RaiseMusStop
MusSpec == MusInit /\ [][MusNext]_musVars

\* Weak fairness of MusStep, which is enabled until the operation is done.
MusFairness == []<>(stage = "done") \/ []<><<MusStep>>_musVars

-----------------------------------------------------------------------------
(* Properties.                                                             *)

Minimal(S) == Inconsistent(S) /\ \A i \in S : ~Inconsistent(S \ {i})
Maximal(S) == ~Inconsistent(S) /\ \A i \in selectors \ S : Inconsistent(S \cup {i})

\* An extraction never asks for the root alone.
RootUnasked == request = "extract" /\ Inconsistent({})

\* Every reported set is inconsistent and minimal, or maximal and consistent, whatever
\* part of the candidates each refutation happened to name; and "complete" means the
\* whole landscape, never a partial one that a stop or the limit cut short.  Only an
\* extraction over an inconsistent root may report a set that is not minimal.
LandscapeIsExact ==
  /\ \A S \in muses : Inconsistent(S) /\ (RootUnasked \/ Minimal(S))
  /\ \A S \in msses : Maximal(S)
  /\ complete => /\ muses = {S \in SUBSET selectors : Minimal(S)}
                 /\ msses = {S \in SUBSET selectors : Maximal(S)}
  /\ verdicts = "sat" => ~Inconsistent(selectors)
  /\ verdicts = "mus" => muses # {}

\* The blocked regions cover every seed in the end: the enumeration exhausts its
\* map, and the trimming its candidates, without a stop or a limit.
DiagnosisEnds == (stage = "root") ~> (stage = "done")
=============================================================================
