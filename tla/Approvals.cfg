CONSTANTS
  Recs = {r1}
  Albums = {}
  AutoRecs = {}
  Lidarrs = {l}
  Slskds = {s}
  NoTarget = none
  MaxFaults = 1
SPECIFICATION Spec
INVARIANTS NoLostUpdate WaitingIsRetried SlskdFollowed
PROPERTIES DecisionsStand RetryKeepsFollowUp
