\* Two clients, one request each, server s1 is switched to degraded and back.
SPECIFICATION Spec
CONSTANTS
  s1 = s1
  s2 = s2
  c1 = c1
  c2 = c2
  r1 = r1
  r2 = r2
  w1 = w1
  w2 = w2
  d1 = d1
  d2 = d2
  None = None
  Servers = {s1, s2}
  Switchable = {s1}
  Clients = {c1, c2}
  InitialClients = {c1, c2}
  Workers = {w1}
  Dispatchers = {d1}
  QueueSize = 2
  CounterMod = 8
  MaxSwitches = 2
  MaxServerJoins = 0
  MaxSendFailures = 0
  SpuriousWakeups = FALSE
  RedundantSwitches = FALSE
  Requests = {r1}
  DataServer <- MCDataServer
  ParityServers <- MCParityServers
  MaxLeaves = 0
INVARIANT TypeOK
INVARIANT MetadataSynced
INVARIANT ParityReverted
PROPERTY PromiseKept
CHECK_DEADLOCK FALSE
