SPECIFICATION LedgerSpec
CONSTANTS
  a1 = a1
  b1 = b1
  d1 = d1
  d2 = d2
  dev = dev
  NoBlock = NoBlock
  rig = rig
  Accounts = {rig}
  Unknown = Unknown
  Blocks = {a1, b1}
  Height <- MCFork
  Payable = {a1, b1}
  Daemons = {d1, d2}
  MaxFaults = 1
  Reward = 100
  RewardRecipients <- MCRecipients
  DevFee = 2
  Fee = 1
  Float = 200
INVARIANT SentOnce
