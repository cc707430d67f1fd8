\* Two server runs, reloads of an edited file and one reset, with dialogs that
\* outlive their server.
CONSTANTS
  Handler = {h1}
  Prompt = {p1, p2}
  Device = {d1}
  Token = {}
  NoDevice = NoDevice
  NoToken = NoToken
  Edited <- InputOrNothing
  PROMPT_COOLDOWN = 1
  ENROLLMENT_TTL = 0
  PAIRING_SESSION_TTL = 1
  MAX_STALL = 0
  MAX_NOW = 1
  MAX_SERVERS = 2
  MAX_RESETS = 1
SPECIFICATION FairSpec
INVARIANT DeniedOnlyIfExpiredOrReplaced
PROPERTIES AnswerFreesCoordinator ImplementsEnrollment ImplementsAccess
CHECK_DEADLOCK FALSE
