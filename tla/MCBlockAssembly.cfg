SPECIFICATION AssemblySpec
CONSTANTS
  RewardRecipients <- MCRecipients
  DevFee = 1
  Word = 16
  AccSize = 33554432
  Templates <- MCAffordable
  PoolAddresses <- MCAddresses
  NonceSizes = {3, 4, 5}
INVARIANT AssemblyTypeOK
 
INVARIANT RootAgrees
 
INVARIANT NodeReadsBlock
 
CHECK_DEADLOCK FALSE
