CONSTANTS
  Setting <- MCSetting
  Default <- LocalOnly
  MAX_SERVERS = 3
  MAX_EVENTS = 3
SPECIFICATION FairSpec
INVARIANTS TypeOK OneServer ServerRunsCurrentSettings PinShownIsServed
  NothingStaleAfterRestart
PROPERTIES FailureIsNoticed TrayNeverHangs
CHECK_DEADLOCK FALSE
