CONSTANTS
  NB = 12
  MgmtStart = 2
  SpareBlocks = 2
  MaxVersion = 1
  Settings <- Tired
SPECIFICATION FairSpec
PROPERTY Finishes
\* The driver is idle until it is called.
CHECK_DEADLOCK FALSE
