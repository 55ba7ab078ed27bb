SPECIFICATION FairSpec
CONSTANTS
  r1 = r1
  k1 = k1
  k2 = k2
  Recs = {r1}
  Releases = {k1, k2}
  Covers <- CoversAll
  Wanted = {}
  Peers = {p1}
  NoRec = NoRec
  NoPeer = NoPeer
  Configs = {"ok"}
  MaxRetries = 0
  MaxChecks = 1
  Limit = 1
  MaxJobs = 2
  MaxApprovals = 1
  MaxFaults = 0
INVARIANTS ActionFollows
PROPERTIES JobsSettle
CHECK_DEADLOCK FALSE
