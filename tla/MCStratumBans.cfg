SPECIFICATION FairServerSpec
CONSTANTS
  c1 = c1
  c2 = c2
  ip1 = ip1
  Nobody = Nobody
  NoBan = NoBan
  Conns = {c1, c2}
  Addrs = {ip1}
  PortDiff = 4
  VarDiffs = {}
  BanningEnabled = TRUE
  CheckThreshold = 2
  InvalidPercent = 50
  BanTime = 1
  Second = 3
  NoncesFrom = 1
  MaxSubmits = 2
  MaxSubscribes = 2
  MaxAuths = 1
  NetworkDiff = 100
INVARIANT ServerTypeOK
INVARIANT NoncesDistinct
 
PROPERTY BansPurged
PROPERTY IdleDropped
