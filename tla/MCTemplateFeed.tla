---------------------------- MODULE MCTemplateFeed ----------------------------
(***************************************************************************)
(* Small instances of TemplateFeed: two daemons that can follow different  *)
(* branches of the fork a2 / b2 - b3 over a1, two requests in flight, one       *)
(* miner.  Miners do not interact, so one shows what each of them sees.    *)
(***************************************************************************)
EXTENDS TemplateFeed, TLC
CONSTANTS a1, a2, b2, b3, d1, d2, c1, c2, m1

MCBlocks     == {a1, a2, b2, b3}
MCFork       == {a1, a2, b2}
MCHeight     == a1 :> 1 @@ a2 :> 2 @@ b2 :> 2 @@ b3 :> 3
MCForkHeight == a1 :> 1 @@ a2 :> 2 @@ b2 :> 2
MCSubmission == {}
MCSymmetry   == Permutations({d1, d2}) \cup Permutations({c1, c2})
===============================================================================
