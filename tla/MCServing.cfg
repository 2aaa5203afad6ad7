CONSTANTS
  d1 = d1
  v1 = v1
  sw1 = sw1
  refresher = refresher
  e1 = e1
  Deployment = {d1}
  Visitor = {v1}
  Operator = {}
  Sweeper = {sw1}
  Posts = {}
  Refresher = {refresher}
  Nobody = nobody
  Flaky = FALSE
  MaxNotifiers = 2
  MaxRegistrations = 2
  Registered = 1
  Managed = {2}
  Emitters = {e1}
  MaxEvents = 2
  MaxRequests = 1
  MaxQueuedPerNotifier = 1
  MaxInFlight = 1
  Retries = 1
  MaxDeliveriesPerNotifier = 1
  Usernames = {n1, n2}
  Roles = {"viewer", "admin"}
  LoginCalls = {r1, r2}
  MaxUserId = 2
  MaxCalls = 5
  ProviderKeys = {p1}
  Configs <- MCConfigs
  Identities <- MCIdentities
  LocalEmails = {"a@x"}
  HostDefaultRole = "admin"
  Callbacks = {b1, b2}
  MaxStates = 3
  MaxAccounts = 2
  MaxChanges = 4
SPECIFICATION ServingSpec
INVARIANTS
  ServingTypes DeliverySafety
PROPERTIES
  IndexConverges QueuesDrain AccountsSafety SignInSafety
CHECK_DEADLOCK FALSE
