CONSTANTS
  r = r
  a = a
  b = b
  k = k
  t1 = t1
  t2 = t2
  ev = ev
  NoContainer = NoContainer
  Container <- Chain
  Root = r
  Parent <- ChainParent
  Above <- ChainAbove
  PostOrder <- ChainOrder
  IsMeta = {}
  RootOnLoop = {b}
  AutoRespawn = {a}
  RespawnLimit = 1
  Pressurize = {}
  StartParents = TRUE
  Aging = TRUE
  Faults = {}
  Existing = {a, b}
  Restored <- NoneUp
  Client = {t1, t2}
  Worker = ev
  Ops = {"start", "stop", "destroy", "respawn"}
  MaxRequests = 2
  Pid = {1, 2, 3}
  MaxDue = 4
SPECIFICATION FairSpec
CHECK_DEADLOCK FALSE
PROPERTIES
  ExitIsNoticed
  RequestsEnd
