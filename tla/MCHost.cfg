CONSTANTS
  t2 = t2
  v1 = v1
  st1 = st1
  st2 = st2
  c1 = c1
  c2 = c2
  m1 = m1
  m2 = m2
  i1 = i1
  i2 = i2
  Deployment = {d1}
  Stack = {st1, st2}
  Text = {t1, t2}
  Value = {v1}
  Client = {c1, c2}
  Id = {1, 2}
  Resolve <- ByVariable
  Unset = unset
  Absent = absent
  Rejected = rejected
  Nobody = nobody
  RouteNames = {1, 2}
  RouteDeps = {"d1", "d2"}
  Texts = {"t1", "t2", "t3", "broken"}
  Serves <- MCServes
  Mirrors <- MCMirrors
  HandHosts = {"h2"}
  MaxRouteOps = 4
  MaxRouteFaults = 2
  Zones = {z1}
  Pairs = {1, 2}
  Covers <- MCCovers
  DomainPuts = {q1, q2}
  MaxTlsWrites = 4
  MaxTlsFaults = 1
  Asks <- MCAsks
  MaxCommands = 3
  MaxBreaks = 1
  NumNodes = 2
  SelfNode = 1
  Readings <- MCReadings
  ThresholdSets <- MCThresholds
  PressureStacks = {1}
  Dockers <- MCDockers
  Placed <- MCPlaced
  Stale = 1
  EmergencyEvery = 1
  ScheduledEvery = 1
  MaxUnused = 1
  MaxStatEvents = 2
  Workers = {w1}
  Tasks = {k1}
  Pollers = {g1}
  Managers = {m1, m2}
  MaxMoves = 4
  MaxSilences = 1
  Things <- MCThings
  Unusable = {}
  Reserved <- MCReserved
  Faults <- MCFaults
  Envelopes <- MCEnvelopes
  Edited <- MCNewUser
  Dropped <- MCNewUser
  Imports = {i1, i2}
  web = web
  seed = seed
  p1 = p1
  p2 = p2
  j1 = j1
  Services = {web, seed}
  Units = {p1, p2, j1}
  ServiceOf <- MCServiceOf
  Here = {p1, j1}
  Declared <- MCDeclared
  Elsewhere <- MCElsewhere
  MaxChanges = 2
  MaxUnanswered = 1
  Submissions <- MCSubmissions
  StackJob = j
  Viewers = {v}
  Modes = {"http01", "dns01"}
  Torn = Torn
  Empty = Empty
  Missing = Missing
  MaxEdits = 1
  Savers = {v1, v2}
  Registry = {hub, ghcr}
  Credential = {new}
  HalfWritten = HalfWritten
  NoCredential = NoCredential
  Inodes = {1, 2, 3}
  MaxWrites = 2
SPECIFICATION HostSpec
INVARIANTS
  HostTypes StoredResolves
PROPERTIES
  NoSwapMidJob ForgottenIsDown RoutesSafety FilesSafety ControlSafety StatsSafety SignalsSafety ConfigSafety PageSafety MaterializeSafety AloneKeeps
CHECK_DEADLOCK FALSE
