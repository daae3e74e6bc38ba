\* The last acknowledgement arrives between the check and the wait.
SPECIFICATION LiveSpec
CONSTANTS
  s1 = s1
  s2 = s2
  c1 = c1
  c2 = c2
  r1 = r1
  r2 = r2
  w1 = w1
  w2 = w2
  d1 = d1
  d2 = d2
  None = None
  Servers = {s1}
  Switchable = {s1}
  Clients = {c1}
  InitialClients = {c1}
  Workers = {w1}
  Dispatchers = {d1}
  QueueSize = 2
  CounterMod = 8
  MaxSwitches = 1
  MaxServerJoins = 0
  MaxSendFailures = 0
  SpuriousWakeups = FALSE
  RedundantSwitches = FALSE
  Requests = {}
  DataServer <- MCDataServer
  ParityServers <- MCParityServers
  MaxLeaves = 0
PROPERTY TransitionCompletes
CHECK_DEADLOCK FALSE
