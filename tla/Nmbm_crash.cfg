CONSTANTS
  NB = 13
  MgmtStart = 2
  SpareBlocks = 2
  MaxVersion = 1
  Settings <- AllSettings
SPECIFICATION Spec
INVARIANTS TypeOK DataSafe Persisted NoSharing
PROPERTY DurableSpec
\* The driver is idle until it is called.
CHECK_DEADLOCK FALSE
