CONSTANTS
  Recs = {1, 2}
  Tasks = {a, b, c}
  NoTask = none
SPECIFICATION FairSpec
INVARIANTS MutualExclusion
PROPERTIES ImplementsTicketLock EveryCallEnds
CHECK_DEADLOCK FALSE
