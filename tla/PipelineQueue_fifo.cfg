CONSTANTS
  Users = {u1, u2, u3}
  Admins = {u3}
  NoUser = nobody
  Outcomes = {"ok"}
  MaxRuns = 3
  MaxBoots = 0
SPECIFICATION FairSpec
PROPERTIES QueueDrains ImplementsRunService
CHECK_DEADLOCK FALSE
