CONSTANTS
  None = None
  k1 = k1
  k2 = k2
  exact1 = exact1
  exact2 = exact2
  base1 = base1
  b1 = b1
  c1 = c1
  r1 = r1
  Builders = {b1}
  Cleaners = {c1}
  Readers = {r1}
  Keys = {k1, k2}
  Buckets = {exact1}
  BucketOf <- TwoManifests
  FastScopes <- UnstagedReader
  Qualities = {"complete", "partial"}
  MaxReferences = 2
  RetainGenerations = 1
  MaxGenerations = 0
  MaxLeaks = 0
  Damageable = {}
  Recorded = {"steady", "spared"}
SPECIFICATION HistorySpec
SYMMETRY TwinKeys
INVARIANT BestSteadyWins
INVARIANT CleanSparesWhatItMust
