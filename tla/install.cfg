SPECIFICATION Spec
CONSTANTS
  Installer = {a, b}
  Prov = {p, q}
INVARIANTS
  TypeOK
  OnlyCompleteVisible
  EnvironmentNeverLost
  OldKeptUntilReplaced
PROPERTIES
  KeepsEnvironmentContract
CHECK_DEADLOCK FALSE
