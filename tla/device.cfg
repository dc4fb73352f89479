SPECIFICATION MCSpec
CONSTANTS
  Handshake = {v1, v2, h1, h2}
  First = v1
  Second = v2
  One = h1
  Other = h2
  Script = {"shipped", "contract"}
INVARIANTS
  DeviceTypeOK
  OneFirstActivation
  PassIsEarned
PROPERTIES
  EveryHandshakeEnds
  ValidationEnds
  KeepsHandshakeContract
CHECK_DEADLOCK FALSE
