SPECIFICATION Spec
CONSTANTS
  ExitCode = {0, 127}
  Signal = {9}
  Errno = {2}
  Duration = {0, 350}
  Scalar <- AroundZero
  IntMax = 127
INVARIANTS
  ResultFaithful
  ArgumentsAgree
  CrossesSafely
CHECK_DEADLOCK FALSE
