SPECIFICATION Spec
CONSTANTS
  r1 = r1
  k1 = k1
  k2 = k2
  Recs = {r1}
  Releases = {k1}
  Covers <- CoversOne
  Wanted = {k1}
  Peers = {p1}
  NoRec = NoRec
  NoPeer = NoPeer
  Configs = {"ok", "nolidarr", "unlinked"}
  MaxRetries = 1
  MaxChecks = 1
  Limit = 2
  MaxJobs = 2
  MaxApprovals = 1
  MaxFaults = 1
INVARIANTS RetryBudget RetrySkipsFailed NoSecondDownload AddedIsReal
CHECK_DEADLOCK FALSE
