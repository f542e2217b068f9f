SPECIFICATION HttpFairSpec
CONSTANTS
    none = none
    h1 = h1
    h2 = h2
    main = main
    Nobody = none
    Handlers = {h1, h2}
    Main = main
    Strangers <- MCStrangers
    MaxSessions = 1
    SessionTtl = 1
    MaxRetired = 1
    MaxCreations = 1
    Window = 1
    MaxIds = 2
    MaxTime = 2
INVARIANTS TableIsSound OnlyIdleAreReaped
PROPERTIES DispatchIsAlone RetiredRuntimesAreClosed
CHECK_DEADLOCK FALSE
