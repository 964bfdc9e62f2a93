---------------------------- MODULE MCPayoutLedger ----------------------------
(***************************************************************************)
(* Small instances of PayoutLedger: a1 and b1 compete for one height.  The *)
(* development fee is the example configuration's.  The finder is credited *)
(* all that the coinbase pays to the pool, so with Fee > 0 the wallet      *)
(* needs its float to pay for the first block.                             *)
(***************************************************************************)
EXTENDS PayoutLedger, TLC
CONSTANTS a1, b1, d1, d2, dev, rig

MCFork       == a1 :> 1 @@ b1 :> 1
MCRecipients == dev :> 2
===============================================================================
