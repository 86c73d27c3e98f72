SPECIFICATION HistorySpec
CONSTANTS
  Event <- Numbered
  Persist = TRUE
  MaxFaults = 3
  MaxEvents = 6
INVARIANTS FileInAcceptOrder NothingTruncatedSilently
CHECK_DEADLOCK FALSE
