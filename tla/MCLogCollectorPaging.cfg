SPECIFICATION Spec
CONSTANTS
    handler = handler
    engine = engine
    warn = warn
    debug = debug
    huge = huge
    NoEntry = NoEntry
    AllLevels = AllLevels
    Loggers <- MCLoggers
    Keys <- MCKeys
    LevelOf <- MCLevelOf
    SizeOf <- MCSizeOf
    Pages <- MCPages
    MaxEntries = 2
    MaxBytes = 3
    MaxTime = 2
    MaxLogged = 4
    MaxEvents = 1
INVARIANTS
    OmittedEntriesFollow
