CONSTANTS
  k1 = k1
  k2 = k2
  b1 = b1
  b2 = b2
  Builders = {b1, b2}
  Keys = {k1, k2}
  Cost <- TwoFiles
  Manifests <- Project
  Limits = {1, 3}
  Damageable = {k1}
SPECIFICATION FairHistorySpec
INVARIANT AnswersAgreeWithStore
PROPERTY CutsOnlyBeyondBudget
PROPERTY DriftIsExact
PROPERTY FactsAreImmutable
PROPERTY FactsRunsEnd
