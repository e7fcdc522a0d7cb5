SPECIFICATION FairSpec
CONSTANTS
    main = main
    sdk1 = sdk1
    sdk2 = sdk2
    NoThread = NoThread
    Threads <- MCThreads
    RunLoops <- MCRunLoops
    AutoRefresh <- MCThreads
    MaxCommits = 2
    PipeSize = 1
    Chunk = 1
INVARIANTS TypeOK WriterIsCurrent WakeUpOnTheWay
PROPERTIES StoreIsSnapshots RunLoopsCatchUp
