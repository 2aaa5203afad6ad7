CONSTANTS
  s1 = s1
  Stack = {s1}
  Action = {"up"}
  preempts = {}
  MaxSeq = 3
  MaxJobs = 1
  DefaultMaxRunning = 1
  Caps = {0}
  MaxOwed = 1
  Outcomes = {"ok"}
  Viewers = {g1}
  Cancellers = {c1}
  MaxWork = 1
  Stacks <- MCStacks
  VarNames <- MCVarNames
  PlainWords <- MCPlainWords
  OtherWords <- MCOtherWords
  Capital <- MCCapital
  Digits <- MCDigits
  NotThere = NotThere
  Malformed = Malformed
  NoHost = NoHost
  Days = {1}
  Cutovers = {4}
  Keys = {1}
  Savers = {r1, r2}
  Lead = 1
  LastDay = 5
  MaxSaves = 2
  MaxStops = 1
  MaxMishaps = 1
  LokiFaults = {"find", "restart", "ready", "swap", "verify", "store"}
  WatchedStacks = {s1}
  MaxWatch = 2
  Jobs = {j1}
  Readers = {r1}
  Samples <- MCSamples
  RestartLoop = 3
  NotAllocated = 1
  Timeout = 1
SPECIFICATION WorkSpec
INVARIANTS
  WorkTypes ReadinessSafety
PROPERTIES
  RegistryKeeps StreamSafety LifecycleSafety LokiSafety WorkEnds
CHECK_DEADLOCK FALSE
