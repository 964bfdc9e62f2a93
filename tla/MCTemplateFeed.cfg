SPECIFICATION FeedSpec
SYMMETRY MCSymmetry
CONSTANTS
  a1 = a1
  a2 = a2
  b2 = b2
  b3 = b3
  d1 = d1
  d2 = d2
  c1 = c1
  c2 = c2
  m1 = m1
  NoJob = NoJob
  Sent = Sent
  Done = Done
  JobIdLimit = 3
  NetworkDiff = 1
  Blocks <- MCBlocks
  Height <- MCHeight
  Submission <- MCSubmission
  Miners = {m1}
  Daemons = {d1, d2}
  Calls = {c1, c2}
  MaxFailures = 0
INVARIANT FeedTypeOK
INVARIANT WorkHonoured
PROPERTY OnlyRefreshGoesBack
