SPECIFICATION Spec
CONSTANTS
  Request <- Request4
  Limit = 2
INVARIANTS
  TypeOK
  RunningIsProven
  AcceptsItsOwn
CHECK_DEADLOCK FALSE
