CONSTANTS
  NB = 12
  MgmtStart = 2
  SpareBlocks = 2
  MaxVersion = 1
  Settings <- Pool
SPECIFICATION Spec
PROPERTY MapsToUnused
\* The driver is idle until it is called.
CHECK_DEADLOCK FALSE
