\* Requests may stall for longer than half the prompt cooldown.
CONSTANTS
  Handler = {h1, h2}
  Prompt = {p1, p2}
  Device = {d1, d2}
  Token = {}
  NoDevice = NoDevice
  NoToken = NoToken
  Edited = {}
  PROMPT_COOLDOWN = 2
  ENROLLMENT_TTL = 4
  PAIRING_SESSION_TTL = 4
  MAX_STALL = 2
  MAX_NOW = 4
  MAX_SERVERS = 1
  MAX_RESETS = 0
SPECIFICATION Spec
INVARIANT PromptGrantsOnlyItsDevice
CHECK_DEADLOCK FALSE
