SPECIFICATION FairSpec
CONSTANTS
  Client = {c1, c2}
  Worker = {w1, w2}
  NoClient = NoClient
  Width = 4
  MaxLeaked = 1
INVARIANTS
  SignalledWhenEmpty
  ShutdownKeepsRequests
PROPERTIES
  ShutdownCompletes
CHECK_DEADLOCK FALSE
