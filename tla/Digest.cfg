SPECIFICATION FairSpec
CONSTANTS
  Channels = {ch1, ch2}
  Items = {i1}
  Ticks = {k1, k2}
  Window = 1
  None = none
  MaxTime = 2
  MaxFaults = 1
INVARIANTS NothingSkipped NoReplay
PROPERTIES EventuallyTold
CHECK_DEADLOCK FALSE
