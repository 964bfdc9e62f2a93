SPECIFICATION FairFeedSpec
CONSTANTS
  a1 = a1
  a2 = a2
  b2 = b2
  b3 = b3
  d1 = d1
  d2 = d2
  c1 = c1
  c2 = c2
  m1 = m1
  NoJob = NoJob
  Sent = Sent
  Done = Done
  JobIdLimit = 2
  NetworkDiff = 1
  Blocks <- MCFork
  Height <- MCForkHeight
  Submission <- MCSubmission
  Miners = {}
  Daemons = {d1, d2}
  Calls = {c1, c2}
  MaxFailures = 1
PROPERTY CatchesUp
PROPERTY RebroadcastGoesOn
