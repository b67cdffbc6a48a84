CONSTANTS
  NButtons = 2
  Switches <- Second
  Settings <- AllSettings
SPECIFICATION FairSpec
INVARIANTS TypeOK Quiet
PROPERTIES EventsJustified Reported
\* Nobody presses a button once the changes are used up, and the driver is removed.
CHECK_DEADLOCK FALSE
