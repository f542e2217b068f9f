CONSTANTS
    poll = poll  scan = scan  push = push  push2 = push2  note = note
    None = none
    Calls = {poll, scan, push}
    Ids = {1, 2}
    IdOf <- MCMixedIds
    ToolOf <- MCTools
    OpOf <- MCOperations
    WriteCalls = {push}
    EffectCalls = {push}
    Heartbeat = 1
    Ttl = 2
    MaxEntries = 1
    MaxAge = 2
    MaxGeneration = 2
SPECIFICATION Spec
CHECK_DEADLOCK FALSE
INVARIANTS RecordsAreSound OneLivePerOperation
PROPERTY LiveRecordsAreKept
