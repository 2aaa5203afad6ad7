CONSTANTS
  Deployment = {d1}
  Visitor = {v1, v2}
  Operator = {p1}
  Sweeper = {s1}
  Posts = {"up", "sleep", "forget", "delete", "create"}
  Refresher = {refresher}
  Nobody = nobody
  Flaky = TRUE
  o1 = o1
  k3 = k3
  Forms <- MCForms
  Kids = {k3, k4}
  Docs = {o1, o2}
  SsoCallers = {r1, r2}
  CacheTime = 2
  Cooldown = 1
  Timeout = 1
  Unnamed = Unnamed
  Unknown = Unknown
  MaxIdpMoves = 1
  u1 = u1
  b1 = b1
  Users = {u1, u2}
  Browsers = {b1, b2}
  Calls = {q3, q4}
  dep = dep
  DoorRequests <- MCRequests
  NoUser = NoUser
  NoBrowser = NoBrowser
  MaxSessions = 2
  MaxStates = 1
  MaxCodes = 1
  MaxLinks = 1
  MaxTTL = 1
  MaxSecrets = 2
  MaxCalls = 2
SPECIFICATION DoorsSpec
SYMMETRY DoorsSymmetry
INVARIANTS
  DoorsTypes WakingIsWatched FrontDoorSafety
PROPERTIES
  TornDownIsNotAsleep MachinesNeverSupersede SsoSafety
CHECK_DEADLOCK FALSE
