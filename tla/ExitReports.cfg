SPECIFICATION FairSpec
CONSTANTS
  Task = {1, 2, 3}
  PipeSize = 2
  MaxCrashes = 2
INVARIANTS
  ReportIsOnItsWay
  ExitIsKept
PROPERTIES
  EveryExitIsDelivered
CHECK_DEADLOCK FALSE
