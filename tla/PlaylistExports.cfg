CONSTANTS
  Targets = {t1, t2}
  Accounts = {a1, a2}
  Callers = {cron, user}
  None = none
  MaxGens = 2
  MaxForgotten = 1
  MaxFaults = 1
SPECIFICATION FairSpec
INVARIANTS OneRemote Accounted RightAccount CompletedIsExported
PROPERTIES LockReleased
CHECK_DEADLOCK FALSE
