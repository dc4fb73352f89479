SPECIFICATION MCSpec
CONSTANTS
  Fixed = {p}
  Standard = {p}
  HomePath = {p, h}
  Other = {x}
  Forbidden = {f}
  Elsewhere = {g}
  Unset = Unset
  Bad = Bad
  Covering = {o}
INVARIANTS
  TypeOK
  PackageKeepsPolicy
  LaunchersAgree
  AuditedEquivalence
CHECK_DEADLOCK FALSE
