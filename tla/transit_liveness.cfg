\* A server is switched, redundantly too, while a client has a request in progress.
SPECIFICATION LiveSpec
CONSTANTS
  s1 = s1
  s2 = s2
  c1 = c1
  c2 = c2
  r1 = r1
  r2 = r2
  w1 = w1
  w2 = w2
  d1 = d1
  d2 = d2
  None = None
  Servers = {s1, s2}
  Switchable = {s1}
  Clients = {c1}
  InitialClients = {c1}
  Workers = {w1}
  Dispatchers = {d1}
  QueueSize = 2
  CounterMod = 8
  MaxSwitches = 2
  MaxServerJoins = 0
  MaxSendFailures = 0
  SpuriousWakeups = FALSE
  RedundantSwitches = TRUE
  Requests = {r1}
  DataServer <- MCDataServer
  ParityServers <- MCParityServers
  MaxLeaves = 0
INVARIANT SingleTransition
PROPERTY ClientsAcknowledge
CHECK_DEADLOCK FALSE
