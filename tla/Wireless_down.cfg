CONSTANTS
  Devices = {d1}
  Configs = {c1, c2}
  Absent = Absent
  IfIndexes = {i1}
  NetOff = NetOff
  NoHandler = NoHandler
  DefaultRetry = 1
  CoarseClock = FALSE
  MaxCalls = 2
SPECIFICATION FairSpec
PROPERTY DownDisables
\* The event loop may be idle for ever once the environment is silent.
CHECK_DEADLOCK FALSE
