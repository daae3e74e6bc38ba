\* Both servers are switched, through a queue of one event and two workers, and one multicast fails;
\* and one server is switched while a client and a server join and the client leaves.
SPECIFICATION MCSpec
CONSTANTS
  s1 = s1
  s2 = s2
  c1 = c1
  c2 = c2
  r1 = r1
  r2 = r2
  w1 = w1
  w2 = w2
  d1 = d1
  d2 = d2
  None = None
  Servers = {s1, s2}
  Switchable = {s1, s2}
  Clients = {c1}
  InitialClients = {c1}
  Workers = {w1, w2}
  Dispatchers = {d1}
  QueueSize = 1
  CounterMod = 8
  MaxSwitches = 2
  MaxServerJoins = 0
  MaxSendFailures = 1
  SpuriousWakeups = FALSE
  RedundantSwitches = FALSE
  Requests = {}
  DataServer <- MCDataServer
  ParityServers <- MCParityServers
  MaxLeaves = 0
INVARIANT RevertCounterExact
INVARIANT TransitionOwned
INVARIANT AcksFromAlive
SYMMETRY MCSymmetry
CHECK_DEADLOCK FALSE
