\* Two thread slots: a second thread of one object is already one too many.
CONSTANTS
  NoObject = NoObject
  NoThread = NoThread
  Objects = {o1}
  Threads = {t1, t2}
SPECIFICATION FairSpec
\* The object is created once.
CHECK_DEADLOCK FALSE
INVARIANTS SignalsLiveObject OneThread NeverDropped
PROPERTIES NeverFreedInUse Served
