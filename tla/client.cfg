\* UPDATEs and a DELETE in flight together, messages in any order, from the first timestamp on,
\* two at a time with two workers,
\* and one request at a time across the wrap-around of the timestamps;
\* two of a SET, a large GET, an UPDATE and a DELETE while the state of s1 changes;
\* a SET and a DELETE across the wrap-around of the stamps with two heartbeats.
SPECIFICATION MCSpec
CONSTANTS
  o1 = o1
  o2 = o2
  o3 = o3
  Ops = {o1, o2, o3}
  Deletes = {o3}
  Kind <- MCKind
  SharedIds = {o3}
  TsMod = 8
  FirstTs = 0
  BatchSize = 2
  Workers = 1
  MaxOutstanding = 3
  InOrder = FALSE
  s1 = s1
  s2 = s2
  s3 = s3
  r1 = r1
  r2 = r2
  r3 = r3
  r4 = r4
  None = None
  Servers = {s1, s2, s3}
  Requests = {r1, r2, r3, r4}
  MaxIssued = 2
  MaxChanges = 6
  c1 = c1
  k1 = k1
  k2 = k2
  x1 = x1
  TsLimit = 16
  TsStarts = {14}
  MaxBeats = 2
INVARIANT BackupsLimited
INVARIANT BackupsReclaimed
INVARIANT SettledKept
INVARIANT AnsweredOnce
INVARIANT NoneForgotten
INVARIANT SetByAll
INVARIANT MetadataDurable
PROPERTY AckEndsBeforePendingByOne
SYMMETRY UpdateSymmetry
CHECK_DEADLOCK FALSE
