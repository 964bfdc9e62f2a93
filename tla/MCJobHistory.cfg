SPECIFICATION HistSpec
CONSTANTS
  a1 = a1
  a2 = a2
  b2 = b2
  s1 = s1
  s2 = s2
  NoJob = NoJob
  JobIdLimit = 3
  NetworkDiff = 2
  MaxIssued = 5
  Blocks <- MCBlocks
  Height <- MCHeight
  Submission <- MCSubmission
  Difficulties <- MCDifficulties
INVARIANT HistTypeOK
INVARIANT CurrentJobRegistered
INVARIANT HistInv
INVARIANT IdsUnambiguous
 
