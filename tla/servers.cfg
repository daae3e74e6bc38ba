\* Three requests on a stripe of three data chunks and a parity chunk, one of them lost;
\* three UPDATEs or DELETEs and two failing parity servers; two SETs of one key or of two;
\* two crashes, two backup servers, two stripe lists.
SPECIFICATION MCSpec
CONSTANTS
  K = 3
  M = 1
  r1 = r1
  r2 = r2
  r3 = r3
  Reqs = {r1, r2, r3}
  Before = {}
  None = None
  Locks <- LockSet
  p1 = p1
  p2 = p2
  k1 = k1
  k2 = k2
  s1 = s1
  s2 = s2
  s3 = s3
  b1 = b1
  b2 = b2
INVARIANT AnsweredOnce
INVARIANT ReadsAcknowledged
INVARIANT ChunksSound
INVARIANT NoneStranded
INVARIANT AnsweredAfterCount
INVARIANT NoneLeftWaiting
INVARIANT RecordLeads
INVARIANT AnsweredMigrated
INVARIANT RecoveredAll
CHECK_DEADLOCK FALSE
