\* One thread that receives and two workers; three messages; three servers, one of
\* which crashes and starts again, and two clients.
SPECIFICATION MCSpec
CONSTANTS
  p1 = p1
  w1 = w1
  w2 = w2
  m1 = m1
  m2 = m2
  m3 = m3
  s1 = s1
  s2 = s2
  s3 = s3
  c1 = c1
  c2 = c2
  MaxEvents = 2
  MaxExtra = 1
  MaxStarts = 2
  MaxMeasures = 4
  MaxAlarms = 4
INVARIANT EventsServed
INVARIANT MessagesWhole
INVARIANT PeersAnswered
CHECK_DEADLOCK FALSE
