CONSTANTS
  Stack = {s1, s2}
  Action = {"up", "down"}
  preempts = {"down"}
  MaxSeq = 3
  MaxJobs = 50
  DefaultMaxRunning = 1
  Caps = {2}
  MaxOwed = 1
  Outcomes = {"ok"}
SPECIFICATION NarrowSpec
CHECK_DEADLOCK FALSE
SYMMETRY Symmetry
INVARIANTS
  HeldIsQuiet
  CancelAgrees
  SupersededNeverRan
  SlotAccounting
  NoLostWakeup
PROPERTIES
  ImplementsLock
  CapRespected
