\* One server run: a status read races an approval at the TTL.
CONSTANTS
  Handler = {h1, h2}
  Prompt = {p1, p2}
  Device = {d1, d2}
  Token = {}
  NoDevice = NoDevice
  NoToken = NoToken
  Edited = {}
  PROMPT_COOLDOWN = 3
  ENROLLMENT_TTL = 1
  PAIRING_SESSION_TTL = 4
  MAX_STALL = 1
  MAX_NOW = 4
  MAX_SERVERS = 1
  MAX_RESETS = 0
SPECIFICATION Spec
INVARIANT NoFalseDenial
CHECK_DEADLOCK FALSE
