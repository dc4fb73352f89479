SPECIFICATION Spec
CONSTANTS
  Handshake = {h1}
  Script = {"shipped"}
INVARIANTS
  AlwaysAnEnvelope
CHECK_DEADLOCK FALSE
