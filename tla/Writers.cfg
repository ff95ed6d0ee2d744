CONSTANTS
  None = None
  k1 = k1
  k2 = k2
  exact1 = exact1
  exact2 = exact2
  base1 = base1
  b1 = b1
  b2 = b2
  c1 = c1
  Builders = {b1, b2}
  Cleaners = {c1}
  Readers = {}
  Keys = {k1}
  Buckets = {exact1}
  BucketOf <- Unstaged
  FastScopes <- NoReader
  Qualities = {"complete", "partial"}
  MaxReferences = 4
  RetainGenerations = 0
  MaxGenerations = 0
  MaxLeaks = 0
  Damageable = {}
  Recorded = {"removed"}
SPECIFICATION FairHistorySpec
INVARIANT LockDiscipline
INVARIANT NoCollision
INVARIANT DriftLeavesNothing
INVARIANT SameKeyAnswersAgree
PROPERTY GenerationsAreImmutable
PROPERTY EveryoneEnds
