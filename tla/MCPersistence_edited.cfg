\* A tray at rest, and a person who enables the capabilities in the file.
CONSTANTS
  Process = {p1}
  Device = {d1}
  NoProcess = NoProcess
  Missing = Missing
  Corrupt = Corrupt
  MAX_EVENTS = 1
  MAX_FAULTS = 0
SPECIFICATION Spec
INVARIANT CapabilitiesNeedApproval
CHECK_DEADLOCK FALSE
