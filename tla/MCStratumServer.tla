--------------------------- MODULE MCStratumServer ----------------------------
(***************************************************************************)
(* Small instances of StratumServer: two connections from one address,     *)
(* which share its ban and the extranonce counter, at one difficulty.      *)
(* What a retarget changes is checked in MCRetargetServer.                 *)
(***************************************************************************)
EXTENDS StratumServer
CONSTANTS c1, c2, ip1
===============================================================================
