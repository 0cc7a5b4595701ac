SPECIFICATION Spec
CONSTANTS
  v1 = v1  v2 = v2  v3 = v3  c1 = c1  c2 = c2  p1 = p1  p2 = p2  p3 = p3  t1 = t1  t2 = t2
  Root = Root  NoPath = NoPath
  Volume = {v1, v2, v3}
  Container = {c1, c2}
  Client = c1
  Path <- Paths
  Outer <- OuterTargets
  PathOf <- PathOf3
  Internal = {v1, v3}
  DependsOn <- Inside
  SpecLinks <- SpecC2
  Existing <- LinkedOnce
  LinkTargets <- AtC2
  UnlinkTargets <- AtC2
  UnlinkModes <- Modes
  RequiredAt = {t1}
  Ops = {"create", "link", "unlink", "tune", "start", "destroy container", "destroy volume"}
  MaxTotal = 3
  MaxLink = 7
  Requests = 3
  MaxFaults = 1
INVARIANTS NestedFirst OneTeardown LinksAgree 
PROPERTY RequestsEnd
CHECK_DEADLOCK FALSE
