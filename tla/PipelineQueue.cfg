CONSTANTS
  Users = {u1, u2}
  Admins = {u2}
  NoUser = nobody
  Outcomes = {"ok", "failed", "lost"}
  MaxRuns = 2
  MaxBoots = 1
SPECIFICATION Spec
INVARIANTS SingleFlight CancelHonoured RowsSettled
PROPERTIES SweepSparesLiveRuns
CHECK_DEADLOCK FALSE
