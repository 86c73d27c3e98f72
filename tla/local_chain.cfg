SPECIFICATION FairSpec
CONSTANTS
  Null = Null
  k1 = k1  k2 = k2  k3 = k3
  Keys = {k1, k2, k3}
  Commitments = {k1, k2, k3}
  Txids = {}
  ConfirmationsForFinality = 6
  Persist = TRUE
  MaxFaults = 1
  MaxStops = 1
  Offered <- ThreeMessages
  MaxRecordsPerBlock = 2
  MaxClock = 1
  MaxReceived = 3
INVARIANTS TypeOK BlocksAreLinked SealedInOrder ConfirmedIffSealed MempoolFitsOneBlock AdmittedOnce
PROPERTIES KeepsDurableHistory PendingIsSealed
CHECK_DEADLOCK FALSE
