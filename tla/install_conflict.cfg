SPECIFICATION Spec
CONSTANTS
  Installer = {a, b}
  Prov = {p, q}
INVARIANTS
  ReplaceOnlyOnRequest
CHECK_DEADLOCK FALSE
