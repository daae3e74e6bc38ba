\* The second of two UPDATEs is answered first.
SPECIFICATION DeltaSpec
CONSTANTS
  o1 = o1
  o2 = o2
  o3 = o3
  Ops = {o1, o2}
  Deletes = {}
  Kind <- MCKind
  SharedIds = {}
  TsMod = 8
  FirstTs = 1
  BatchSize = 2
  Workers = 1
  MaxOutstanding = 2
  InOrder = TRUE
  s1 = s1
  s2 = s2
  s3 = s3
  r1 = r1
  r2 = r2
  r3 = r3
  r4 = r4
  None = None
  Servers = {s1, s2, s3}
  Requests = {r1, r2, r3, r4}
  MaxIssued = 2
  MaxChanges = 6
  c1 = c1
  k1 = k1
  k2 = k2
  x1 = x1
  TsLimit = 16
  TsStarts = {14}
  MaxBeats = 2
PROPERTY AckKeepsPending
CHECK_DEADLOCK FALSE
