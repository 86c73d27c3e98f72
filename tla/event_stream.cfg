SPECIFICATION FairSpec
CONSTANTS
  Clients = {c1}
  Payloads = {p1, p2}
  Slots = {k1, k2}
  Cdci = TRUE
  MaxEvents = 3
  MaxBeats = 1
  MaxBreaks = 1
  NoSlot = NoSlot
  NL = NL
  StatusFrame = StatusFrame
INVARIANTS TypeOK StreamIsFaithful ListenersFollowConnections
PROPERTIES WatchReconnects WatchCatchesUp ShutdownEnds
CHECK_DEADLOCK FALSE
