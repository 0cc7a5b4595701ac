SPECIFICATION Spec
CONSTANTS
  NoLayer = NoLayer
  Layer = {l1}
  Weak = {l1}
  Thread = {1, 2}
  Volume = {v1}
  Limit = 1
  Ino = {1, 2, 3, 4, 5, 6}
  Requests = 3
  MaxFaults = 1
  MaxCrashes = 1
INVARIANTS UsedLayerStays LayersAreWhole
PROPERTIES RequestsEnd LeftoversGo
CHECK_DEADLOCK FALSE
