\* Two servers degraded and two threads in the pool; and one server and one thread with two stripes.
SPECIFICATION MCSpec
CONSTANTS
  s1 = s1
  s2 = s2
  s3 = s3
  s4 = s4
  t1 = t1
  t2 = t2
  r1 = r1
  r2 = r2
  w1 = w1
  w2 = w2
  r3 = r3
  r4 = r4
  w3 = w3
  None = None
  Servers = {s1, s2, s3}
  Clients = {}
  Switchable = {s1, s2}
  Stripes = {t1}
  Requests = {r1, r2}
  StripeOf <- MCStripeOf
  Workers = {w1, w2}
  MaxSwitches = 2
INVARIANT ReleaseCountExact
INVARIANT LockedOnlyDegradedByOne
PROPERTY MigratedBeforeNormalByOne
PROPERTY RedirectionsStable
SYMMETRY MCSymmetry
CHECK_DEADLOCK FALSE
