SPECIFICATION Spec
CONSTANTS
  Global = {}
  Own = {u}
  Albumed = {u}
  Artists = {a}
  Crons = {c}
  Admins = {d}
  None = none
  MaxChanges = 1
  MaxFaults = 1
INVARIANTS CompletedIsTrue CopyIsTrue NobodyStuck
PROPERTIES MatchesKept
