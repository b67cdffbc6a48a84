CONSTANTS
  Devices = {d1}
  Configs = {c1, c2}
  Absent = Absent
  IfIndexes = {i1, i2}
  NetOff = NetOff
  NoHandler = NoHandler
  DefaultRetry = 1
  CoarseClock = FALSE
  MaxCalls = 5
SPECIFICATION FairSpec
INVARIANTS StaleIsFlagged FailedIsDown NotForgotten
PROPERTY Settles
\* The event loop may be idle for ever once the environment is silent.
CHECK_DEADLOCK FALSE
