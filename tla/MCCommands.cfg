CONSTANTS
  r1 = r1
  r2 = r2
  ctrl = ctrl
  alt = alt
  del = del
  key = key
  typo = typo
  Request = {r1, r2}
  Device = {phone}
  Prompt = {p1, p2}
  Key <- MCKey
  Control = ctrl
  Alt = alt
  Delete = del
  Combo <- MCCombo
  Ask <- MCAsk
  Policy = {1, 2}
  UI_ACCESS = TRUE
  AUTH_FOR_INFO = TRUE
  MAX_EVENTS = 2
SPECIFICATION Spec
SYMMETRY Symmetry
INVARIANTS TypeOK ActedWithinAuthority HeldKeysAreOwned ComboHasItsModifiers
  SecureComboNeverTyped SecurityScreenHonest
CHECK_DEADLOCK FALSE
