SPECIFICATION FairSpec
CONSTANTS
    r1 = r1
    r2 = r2
    main = main
    side = side
    none = none
    l1 = l1
    l2 = l2
    None = none
    Runtimes = {r1, r2}
    Trees = {side}
    SessionTrees = {side}
    Files = {"a"}
    FileTree <- MCFileInSide
    LeaseTree <- MCBothSide
    LeasePaths <- MCNestedPaths
    WideLeases = {}
    Ttl = 1
    MaxTime = 2
    MaxVersion = 0
    MaxHead <- MCNoCommits
    Modes = {TRUE, FALSE}
    Leases <- MCLeases
    Tasks = {"t"}
    Fold <- MCFold
    TreeWorkspace <- MCTreeWorkspace
    FilePath <- MCFilePath
    LeaseTask <- MCLeaseTask
    LeaseResources <- MCNoResources
INVARIANT StoreExclusive
PROPERTY DeadLeasesRunOut
CHECK_DEADLOCK FALSE
