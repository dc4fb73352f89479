SPECIFICATION Spec
CONSTANTS
  Installer = {a, b}
  Prov = {p, q}
INVARIANTS
  InterruptedIsAtomic
CHECK_DEADLOCK FALSE
