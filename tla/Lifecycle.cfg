CONSTANTS
  r = r
  a = a
  b = b
  k = k
  t1 = t1
  t2 = t2
  ev = ev
  NoContainer = NoContainer
  Container <- Fork
  Root = r
  Parent <- ForkParent
  Above <- ForkAbove
  PostOrder <- ForkOrder
  IsMeta = {}
  RootOnLoop = {b}
  AutoRespawn = {a, b}
  RespawnLimit = 1
  Pressurize = {b}
  StartParents = FALSE
  Aging = FALSE
  Faults = {"start", "save", "free"}
  Existing = {a, k}
  Restored <- Up
  Client = {t1, t2}
  Worker = ev
  Ops = {"start", "stop", "pause", "resume"}
  MaxRequests = 3
  Pid = {1, 2, 3}
  MaxDue = 1
SPECIFICATION Spec
CHECK_DEADLOCK FALSE
INVARIANTS
  PausedIsFrozen
  CountersMatch
  UnderLiveParent
  TasksMatch
  RespawnIsScheduled
PROPERTIES
  DeathHasCause
SYMMETRY ClientSymmetry
