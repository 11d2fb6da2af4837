---------------------------- MODULE MCPortfolio ----------------------------
(* Small instances of Portfolio for TLC.                                   *)
EXTENDS Portfolio, TLC

CONSTANTS p1, p2, p3, p4

PointSymmetry == Permutations({p1, p2, p3, p4} \cap Points)

\* Without an explicit search policy worker Zero is like the other proving workers.
SplitSymmetry == PointSymmetry \cup Permutations(Regular)
=============================================================================
