CONSTANTS
  NB = 8
  PoolLba = 4
  BbMax = 2
  MaxRetry = 1
  t1 = t1
  t2 = t2
  Callers = {t1, t2}
  MaxVersion = 1
  Settings <- AllSettings
SPECIFICATION Spec
INVARIANTS TypeOK DataSafe Persisted NoSharing PrefixSafe
\* The driver is idle until it is called.
CHECK_DEADLOCK FALSE
