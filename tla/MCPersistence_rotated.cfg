\* One refused access to a store: a rotation, and the reload that follows it.
CONSTANTS
  Process = {p1}
  Device = {d1}
  NoProcess = NoProcess
  Missing = Missing
  Corrupt = Corrupt
  MAX_EVENTS = 3
  MAX_FAULTS = 1
SPECIFICATION Spec
PROPERTY FileTokenIsKept
CHECK_DEADLOCK FALSE
