CONSTANTS
  Hosts = {a, b}
  NConns = 3
  MaxHandles = 1
  Settings <- AllSettings
SPECIFICATION FairSpec
INVARIANTS TypeOK RetryArmed MirrorsCurrent
PROPERTIES ToldWhenReachable Converges
\* The environment does a bounded number of things; then two connected daemons have
\* nothing to do.
CHECK_DEADLOCK FALSE
