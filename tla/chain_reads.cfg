SPECIFICATION FairSpec
CONSTANTS
    Null = Null
    r1 = r1
    r2 = r2
    Readers = {r1, r2}
    Workloads <- WorkloadsValue
    Channel <- ChannelValue
    SearchLimit = 1
    TTL = 2
    RpcTimeout = 1
    MaxClock = 4
    MaxBlocks = 3
    MaxReorgDepth = 1
INVARIANTS TypeOK ListIsAWindow NeverMistaken FiguresAreRecent WalkMissesNothing SearchFinds
PROPERTY EveryReadEnds
CHECK_DEADLOCK FALSE
