SPECIFICATION RetargetSpec
CONSTANTS
  c1 = c1
  ip1 = ip1
  Nobody = Nobody
  NoBan = NoBan
  Conns = {c1}
  Addrs = {ip1}
  PortDiff = 3
  VarDiffs <- MCVarDiffs
  BanningEnabled = FALSE
  CheckThreshold = 2
  InvalidPercent = 50
  BanTime = 1
  Second = 3
  NoncesFrom = 1
  MaxSubmits = 2
  MaxSubscribes = 2
  MaxAuths = 1
  NetworkDiff = 100
  TargetTime = 2
  RetargetTime = 1
  VariancePercent = 25
  MinDiff = 2
  MaxDiff = 4
  X2Mode = FALSE
  MaxGap = 3
INVARIANT HonestShareCounts
INVARIANT RingIsWindow
PROPERTY ServerImplemented
