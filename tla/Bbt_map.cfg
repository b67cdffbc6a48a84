CONSTANTS
  NB = 9
  Settings <- AllSettings
SPECIFICATION Spec
INVARIANTS TypeOK DataSafe Persisted MappingSound
PROPERTY MovesUpOnly
\* The driver is idle until it is called.
CHECK_DEADLOCK FALSE
