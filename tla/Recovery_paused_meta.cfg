SPECIFICATION Spec
CONSTANTS
  a = a  b = b  k = k  Root = Root  NoOne = NoOne
  Container = {a, b, k}
  Parent <- Up3
  PostOrder <- Post3
  IsMeta = {a}
  Isolate = {b, k}
  AutoRespawn = {b}
  Worker = {w1, w2}
  Existing = {a, b, k}
  MaxId = 4
  MaxPid = 5
  Ops = {"create", "start", "stop", "pause", "resume", "destroy"}
  PauseTargets = {a}
  MaxOps = 2
  MaxExits = 0
  MaxFaults = 0
  MaxCrashes = 1
INVARIANT RunningSurvives
CHECK_DEADLOCK FALSE
