------------------------------- MODULE Coinbase --------------------------------
(***************************************************************************)
(* Where the reward of a block goes: the outputs of the coinbase           *)
(* (transactions.js) and the credit of the finder (portal_bridge.js).      *)
(* BlockAssembly has the outputs of payees that come before them.          *)
(***************************************************************************)
EXTENDS Integers, Functions

CONSTANTS
  RewardRecipients,  \* options.rewardRecipients with good addresses: percentages
  DevFee             \* percent: DEV_FEE of portal_bridge.js

ASSUME CoinbaseAssumption ==
  RewardRecipients \in [DOMAIN RewardRecipients -> 0 .. 100] /\ DevFee \in 0 .. 100

\* SetupRecipients divides by 100, the coinbase takes the floor.
RecipientReward(percent, reward) == (percent * reward) \div 100

\* The first output: what the recipients leave of the reward.
RewardToPool(reward) ==
  reward - SumFunction([i \in DOMAIN RewardRecipients |->
                          RecipientReward(RewardRecipients[i], reward)])

\* amount_tfx of the finder's payout: a share of the whole reward, not of what
\* the pool's output holds.
CreditFor(reward) == ((100 - DevFee) * reward) \div 100
===============================================================================
