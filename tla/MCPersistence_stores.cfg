\* A tray at rest, or nothing that runs yet, and a second process beside it or
\* after it: three starts, choices, edits and faults together, of which one may
\* be a refused access to a store.
CONSTANTS
  Process = {p1, p2}
  Device = {d1}
  NoProcess = NoProcess
  Missing = Missing
  Corrupt = Corrupt
  MAX_EVENTS = 3
  MAX_FAULTS = 1
SPECIFICATION FairSpec
INVARIANTS TypeOK RetiredTokenStaysDead CapabilitiesFollowDecisions
  RegistryIsDurable
PROPERTY MemoryAndFileConverge
CHECK_DEADLOCK FALSE
