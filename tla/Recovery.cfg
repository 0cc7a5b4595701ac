SPECIFICATION Spec
CONSTANTS
  a = a  b = b  k = k  Root = Root  NoOne = NoOne
  Container = {a, b, k}
  Parent <- Up3
  PostOrder <- Post3
  IsMeta = {b, k}
  Isolate = {a, b}
  AutoRespawn = {b}
  Worker = {w1, w2}
  Existing = {a, b, k}
  MaxId = 4
  MaxPid = 5
  Ops = {"create", "start", "stop", "pause", "resume", "destroy"}
  PauseTargets = {a, b}
  MaxOps = 2
  MaxExits = 1
  MaxFaults = 1
  MaxCrashes = 2
INVARIANTS RestartAgrees NoGhostNodes NoStrays RunningSurvives
PROPERTY RestartEnds
CHECK_DEADLOCK FALSE
