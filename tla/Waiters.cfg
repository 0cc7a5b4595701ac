SPECIFICATION FairSpec
CONSTANTS
  Container = {d1}
  Client = {c1, c2}
  Handler = {h1, h2}
  Reporter = {t1}
  Main = Main
  Worker = Worker
  Free = Free
  Kinds = {"sync", "async", "stop"}
  Targets = {FALSE, TRUE}
  MaxChanges = 2
  MaxRequests = 2
  Timed = TRUE
  Disconnects = TRUE
INVARIANTS
  ListIsAlive
  AnsweredOnce
  ActiveIsTold
PROPERTIES
  ConnectedWaitEnds
CHECK_DEADLOCK FALSE
