SPECIFICATION Spec
CONSTANTS
  Handshake = {h1}
  Script = {"shipped"}
INVARIANTS
  HealthyHandshakeCompletes
CHECK_DEADLOCK FALSE
