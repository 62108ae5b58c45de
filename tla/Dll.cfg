\* COM: two threads, two objects.  Registration: three runs, one registry call
\* fails or one run is killed.  Calls: one channel, so that a second info of a
\* direction is one too many; a position that wraps in the second switch.
CONSTANTS
  Threads = {t1, t2}
  Objects = {o1, o2}
  NoThread = NoThread
  NoObject = NoObject
  References = {r1, r2}
  MaxRefs = 2
  MaxLocks = 1
  MaxCount = 1
  Dirs = {"d1", "d2"}
  MaxRuns = 3
  MaxFaults = 1
  MaxKills = 1
  Channels = {c1}
  BadChannel = c0
  Requests <- ShortLists
  Memory = {b1, b2}
  Rates = {44100, 48000}
  PosMod = 2
  MaxSwitches = 2
SPECIFICATION DllSpec
\* No run is left; every object has been created and released.
CHECK_DEADLOCK FALSE
INVARIANTS ObjectsStay HeldExists NothingLeaked LocksStayUnlessRaced
INVARIANTS RegisterCompletes UnregisterRemovesAll
INVARIANTS EveryBufferOnce TimeOfItsBlock ChangeIsTold
PROPERTY OthersUntouched
