CONSTANTS
  r = r
  a = a
  b = b
  c = c
  d = d
  t1 = t1
  t2 = t2
  t3 = t3
  NoContainer = NoContainer
  Container <- MCContainer
  Parent <- MCParent
  Above <- MCAbove
  Thread <- MCThread
  Requests <- TopAndBelow
SPECIFICATION FairSpec
INVARIANTS
  HoldersApart
  NoLostWakeup
  NoOrphanPendingWrite
PROPERTY ImplementsTreeMutex
PROPERTY WriterNotStarved
