----------------------------- MODULE MCJobHistory -----------------------------
(***************************************************************************)
(* Small instance of JobHistory: three job ids, so that the counter wraps  *)
(* within MaxIssued templates; a chain a1 - a2 with a fork b2 at the same  *)
(* height; two submissions; difficulties on both sides of NetworkDiff.     *)
(***************************************************************************)
EXTENDS JobHistory, TLC
CONSTANTS a1, a2, b2, s1, s2

MCBlocks       == {a1, a2, b2}
MCHeight       == a1 :> 1 @@ a2 :> 2 @@ b2 :> 2
MCSubmission   == {s1, s2}
MCDifficulties == {1, 2}
MCSymmetry     == Permutations(MCSubmission)
===============================================================================
