SPECIFICATION FairSpec
CONSTANTS
  Null = Null
  r1 = r1  r2 = r2  r3 = r3  k1 = k1  k2 = k2  t1 = t1  t2 = t2
  Keys = {k1, k2}
  Commitments = {k1, k2}
  Txids = {t1, t2}
  Requests = {r1, r2}
  Submission <- TwoAnchors
  Carries <- CarriesBoth
  ConfirmationsForFinality = 2
  MaxBlocks = 2
  MaxReorgDepth = 0
  MaxOutages = 0
  Persist = FALSE
  MaxFaults = 0
  MaxStops = 0
  RequireAnchor = TRUE
  BatchSize = 1
CHECK_DEADLOCK FALSE
PROPERTIES AnchorsSettle
