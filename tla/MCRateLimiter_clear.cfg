CONSTANTS
  Handler = {h1, h2}
  Address = {a1, a2}
  Stranger = {a1}
  MAX_FAILURES_PER_WINDOW = 2
  FAILURE_WINDOW = 1
  LOCKOUT_DURATION = 1
  MAX_NOW = 3
  MAX_SERVERS = 2
SPECIFICATION Spec
SYMMETRY Symmetry
PROPERTY LockoutLasts
CHECK_DEADLOCK FALSE
