CONSTANTS
  ApConfigs <- Aps
  StaConfigs = {s1}
  Freqs = {f1, f2}
  None = None
  MaxJobs = 3
  MaxMoves = 3
  MaxFaults = 1
SPECIFICATION FairSpec
INVARIANTS TypeOK FollowsSta Restored
PROPERTY ComesToRest
\* The environment is bounded; then the daemons come to rest.
CHECK_DEADLOCK FALSE
