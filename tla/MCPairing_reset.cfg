\* A dialog on screen outlives a reset.
CONSTANTS
  Handler = {h1, h2}
  Prompt = {p1, p2}
  Device = {d1, d2}
  Token = {}
  NoDevice = NoDevice
  NoToken = NoToken
  Edited = {}
  PROMPT_COOLDOWN = 3
  ENROLLMENT_TTL = 4
  PAIRING_SESSION_TTL = 4
  MAX_STALL = 1
  MAX_NOW = 4
  MAX_SERVERS = 1
  MAX_RESETS = 1
SPECIFICATION Spec
INVARIANT ResetRequiresRescan
CHECK_DEADLOCK FALSE
