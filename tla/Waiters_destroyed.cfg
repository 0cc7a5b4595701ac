SPECIFICATION FairSpec
CONSTANTS
  Container = {d1}
  Client = {c1, c2}
  Handler = {h1}
  Reporter = {t1}
  Main = Main
  Worker = Worker
  Free = Free
  Kinds = {"sync", "async"}
  Targets = {FALSE}
  MaxChanges = 1
  MaxRequests = 2
  Timed = FALSE
  Disconnects = TRUE
PROPERTIES
  EarlyWaitEnds
CHECK_DEADLOCK FALSE
