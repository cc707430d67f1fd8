\* One server run: two racing requests, a second prompt after the cooldown,
\* records that expire, one-time QR tokens re-minted and raced for.
CONSTANTS
  Handler = {h1, h2}
  Prompt = {p1, p2}
  Device = {d1, d2}
  Token = {t1, t2}
  NoDevice = NoDevice
  NoToken = NoToken
  Edited = {}
  PROMPT_COOLDOWN = 3
  ENROLLMENT_TTL = 1
  PAIRING_SESSION_TTL = 0
  MAX_STALL = 1
  MAX_NOW = 3
  MAX_SERVERS = 1
  MAX_RESETS = 0
SPECIFICATION Spec
SYMMETRY Symmetry
INVARIANTS
  TypeOK
  PromptGrantsOnlyItsDevice
  ApprovedPromptRegistersItsDevice
  OneDialogPerCoordinator
  PendingMeansDialogOpen
  TokenBuysOnePrompt
  IInv
PROPERTIES CooldownSpacesPrompts ImplementsEnrollment
CHECK_DEADLOCK FALSE
