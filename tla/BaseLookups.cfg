CONSTANTS
  None = None
  k1 = k1
  k2 = k2
  exact1 = exact1
  exact2 = exact2
  base1 = base1
  b1 = b1
  c1 = c1
  r1 = r1
  Builders = {b1}
  Cleaners = {c1}
  Readers = {r1}
  Keys = {k1}
  Buckets = {exact1, exact2, base1}
  BucketOf <- OneScope
  FastScopes <- OverlayReader
  Qualities = {"complete", "partial"}
  MaxReferences = 1
  RetainGenerations = 0
  MaxGenerations = 0
  MaxLeaks = 1
  Damageable = {k1}
  Recorded = {"steady", "removed"}
SPECIFICATION FairHistorySpec
INVARIANT SteadyGenerationIsFound
INVARIANT ReferencesAgreeUntilRemoval
PROPERTY LookupsEnd
