CONSTANTS
  Radios <- AllRadios
  LastAddr = 5
SPECIFICATION Spec
INVARIANTS TypeOK BssidsRight
PROPERTIES ReloadsWhenPossible ReloadKeepsApart
\* Configurations are set a bounded number of times and then no more: the behaviour may end.
CHECK_DEADLOCK FALSE
