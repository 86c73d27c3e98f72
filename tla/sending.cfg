SPECIFICATION FairSending
CONSTANTS
    Null = Null
    m1 = m1  app = app  other = other
    Messages = {m1}
    Forms <- FormsValue
    Options <- OptionsValue
    MaxAttempts = 3
    App = app
    Other = other
    Clients = {app, other}
    Limit = 1
    WindowMs = 2
    MaxBuckets = 1
    MaxNow = 2
    Requests <- Attempts
    Keys <- KeysValue
    Commitments <- CommitmentsValue
    Txids <- Attempts
    Submission <- Sealed
    Carries <- Anchored
    ConfirmationsForFinality = 2
    MaxBlocks = 1
    MaxReorgDepth = 0
    MaxOutages = 0
    Persist = FALSE
    MaxFaults = 0
    MaxStops = 0
    RequireAnchor = TRUE
    BatchSize = 1
INVARIANTS SendTypeOK RetryIsNoReplay OwnAnchorCounts DroppedForCause
PROPERTIES AtMostTwiceTheLimit SendSettles
CHECK_DEADLOCK FALSE
