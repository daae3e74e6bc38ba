\* Three keys of two sizes, two chunks in the buffer, five operations; seven objects
\* in an index of eight slots.
SPECIFICATION MCSpec
CONSTANTS
  k1 = k1
  k2 = k2
  k3 = k3
  None = None
  Keys = {k1, k2, k3}
  Large = {k3}
  Size <- MCSize
  Capacity = 3
  Slack = 0
  Count = 2
  MaxStripes = 4
  MaxOps = 5
  AnsweredOnly = TRUE
  o1 = o1
  o2 = o2
  o3 = o3
  o4 = o4
  o5 = o5
  o6 = o6
  o7 = o7
  Objects = {o1, o2, o3, o4, o5, o6, o7}
  LargeParts = {}
  Buckets = {0, 1, 2, 3}
  BucketSize = 2
  MaxCuckoo = 7
  First <- Firsts
  PlainHome <- Firsts
  Jump <- Jumps
  Kick <- Jumps
  Empty = Empty
INVARIANT LayoutExact
INVARIANT CodingExact
INVARIANT PlacementExact
INVARIANT SizesExact
INVARIANT DeltasConserved
INVARIANT Rebuildable
INVARIANT FoundExact
CHECK_DEADLOCK FALSE
