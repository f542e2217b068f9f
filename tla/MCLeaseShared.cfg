SPECIFICATION Spec
CONSTANTS
    r1 = r1
    r2 = r2
    main = main
    side = side
    none = none
    l1 = l1
    l2 = l2
    None = none
    Runtimes = {r1, r2}
    Trees = {main, side}
    SessionTrees = {side}
    Files = {"a"}
    FileTree <- MCFileInMain
    LeaseTree <- MCSideMain
    LeasePaths <- MCNestedPaths
    WideLeases = {l1}
    Ttl = 2
    MaxTime = 3
    MaxVersion = 1
    MaxHead <- MCCommitInSide
    Modes = {TRUE}
    Leases <- MCLeases
    Tasks = {"t"}
    Fold <- MCFold
    TreeWorkspace <- MCTreeWorkspace
    FilePath <- MCFilePath
    LeaseTask <- MCLeaseTask
    LeaseResources <- MCNoResources
INVARIANTS TypeOK StoreExclusive MemoryExclusive
SYMMETRY MCRuntimeSymmetry
CHECK_DEADLOCK FALSE
