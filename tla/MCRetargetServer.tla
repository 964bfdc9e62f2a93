--------------------------- MODULE MCRetargetServer ---------------------------
(***************************************************************************)
(* A small instance of RetargetServer: one connection, since a retarget    *)
(* concerns one client only, and no banning.  Times of 0 and 1 seconds are *)
(* too short, 3 is too long; the limits are close enough for every         *)
(* retarget to meet them.                                                  *)
(***************************************************************************)
EXTENDS RetargetServer
CONSTANTS c1, ip1

MCVarDiffs == MinDiff .. MaxDiff
===============================================================================
