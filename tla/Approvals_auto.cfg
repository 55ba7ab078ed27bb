CONSTANTS
  Recs = {r1}
  Albums = {r1}
  AutoRecs = {r1}
  Lidarrs = {l1, l2}
  Slskds = {}
  NoTarget = none
  MaxFaults = 0
SPECIFICATION Spec
INVARIANTS AddedMeansAdded
