SPECIFICATION FairStartupSpec
CONSTANTS
  d1 = d1
  d2 = d2
  Daemons = {d1, d2}
  First = d1
  MaxReports = 2
  MaxSent = 4
  MaxFaults = 2
  PayloadLen <- MCPayloadLen
INVARIANT StartupTypeOK
INVARIANT HandledInOrder
INVARIANT NothingLeftUnread
INVARIANT VerackIsCurrent
 
INVARIANT WaitsForSync
PROPERTY HandshakeCompletes
PROPERTY StartsUnlessFault
CHECK_DEADLOCK FALSE
