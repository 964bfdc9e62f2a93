------------------------------ MODULE ShareRules ------------------------------
(***************************************************************************)
(* How processShare (engine/lib/jobManager.js) weighs a share: against the *)
(* network's target, the client's difficulty, and the difficulty the       *)
(* client had before its last change.  Difficulties are in the smallest    *)
(* unit the pool hands out; 0 stands for a difficulty not yet set.         *)
(***************************************************************************)
EXTENDS Naturals

CONSTANT NetworkDiff    \* a share of at least this difficulty solves the block

ASSUME ShareRulesAssumption == NetworkDiff \in Nat

IsBlockSolution(shareDiff) == shareDiff >= NetworkDiff

\* shareDiff / difficulty < 0.99 fails
NearlyMeets(shareDiff, difficulty) == 100 * shareDiff >= 99 * difficulty

MeetsPrevious(shareDiff, previousDifficulty) ==
  previousDifficulty # 0 /\ shareDiff >= previousDifficulty

\* The share reaches the miner's difficulty, or the one before the retarget.
MeetsDifficulty(shareDiff, difficulty, previousDifficulty) ==
  NearlyMeets(shareDiff, difficulty) \/ MeetsPrevious(shareDiff, previousDifficulty)

\* A registered share counts.
Accepted(shareDiff, difficulty, previousDifficulty) ==
  IsBlockSolution(shareDiff) \/ MeetsDifficulty(shareDiff, difficulty, previousDifficulty)

\* The difficulty the share event of an accepted share carries.
CreditedDifficulty(shareDiff, difficulty, previousDifficulty) ==
  IF IsBlockSolution(shareDiff) \/ NearlyMeets(shareDiff, difficulty)
  THEN difficulty ELSE previousDifficulty
===============================================================================
