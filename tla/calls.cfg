SPECIFICATION MCSpec
CONSTANTS
  Run = {r1, r2}
  Kid = {k1, k2}
INVARIANTS
  TypeOK
  DescriptorsBalanced
  VerdictSound
  GroupAddressable
  LeaderCollected
  NoMemberSurvivesFailure
  SuccessIsReal
  WaitsAreMet
PROPERTIES
  EveryCallReturns
  KeepsContract
CHECK_DEADLOCK FALSE
