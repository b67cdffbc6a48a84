CONSTANTS
  Devices = {d1, d2}
  Configs = {c1, c2}
  Absent = Absent
  IfIndexes = {i1}
  NetOff = NetOff
  NoHandler = NoHandler
  DefaultRetry = 1
  CoarseClock = TRUE
  MaxCalls = 2
SPECIFICATION FairSpec
INVARIANTS TypeOK HandlerMatchesState
PROPERTY Served
\* The event loop may be idle for ever once the environment is silent.
CHECK_DEADLOCK FALSE
