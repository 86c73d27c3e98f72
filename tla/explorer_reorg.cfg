SPECIFICATION FairSpec
CONSTANTS
  Null = Null
  r1 = r1  r2 = r2  r3 = r3  k1 = k1  k2 = k2  t1 = t1  t2 = t2
  Keys = {k1, k2}
  Commitments = {k1, k2}
  Txids = {t1}
  Requests = {r1, r2}
  Submission <- OwnAndForeign
  Carries <- CarriesOne
  ConfirmationsForFinality = 2
  MaxBlocks = 3
  MaxReorgDepth = 1
  MaxOutages = 1
  Persist = FALSE
  MaxFaults = 0
  MaxStops = 0
  RequireAnchor = TRUE
  BatchSize = 2
CHECK_DEADLOCK FALSE
INVARIANTS ConfirmedByOwnAnchor FinalIsOnChain
PROPERTIES AnchorsSettle
