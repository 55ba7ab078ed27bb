CONSTANTS
  Recs = {r1}
  Albums = {}
  AutoRecs = {}
  Lidarrs = {l1, l2}
  Slskds = {}
  NoTarget = none
  MaxFaults = 1
SPECIFICATION FairSpec
INVARIANTS OneAlertPerApproval
PROPERTIES WaitingResolves
