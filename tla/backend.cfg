SPECIFICATION FairSpec
CONSTANTS
  Execution = {e1, e2}
  Stopper = {s1, s2}
INVARIANTS
  TypeOK
  StopMeansGone
PROPERTIES
  StoppedExecuteReturns
  EveryStopEnds
  KeepsBackendContract
CHECK_DEADLOCK FALSE
