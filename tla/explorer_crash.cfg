SPECIFICATION Spec
CONSTANTS
  Null = Null
  r1 = r1  r2 = r2  r3 = r3  k1 = k1  k2 = k2  t1 = t1  t2 = t2
  Keys = {k1}
  Commitments = {k1}
  Txids = {t1}
  Requests = {r1, r2}
  Submission <- SameCiphertext
  Carries <- CarriesOne
  ConfirmationsForFinality = 1
  MaxBlocks = 1
  MaxReorgDepth = 0
  MaxOutages = 0
  Persist = TRUE
  MaxFaults = 1
  MaxStops = 2
  RequireAnchor = TRUE
  BatchSize = 2
CHECK_DEADLOCK FALSE
INVARIANTS TypeOK IdNamesOneRecord LogRebuildsIndex AnswersStand
PROPERTIES ExitKeepsAnswers
