SPECIFICATION PartsSpec
CONSTANTS
    Parts = {"arena"}
    EhMax = 3
    MaxEntries = 5
    EarlyExit = FALSE
    DbThreads = {t1, t2}
    FileDbs = {f1}
    MemDbs = {m1}
    DbAddrs = {1, 2}
    DbSqls = {q1}
    DbStmtCap = 1
    NoDb = NoDb
    NoConn = NoConn
    NoThread = NoThread
    Callers = {c1, c2}
    Names <- MCNames
    Exported <- MCExported
    NoName = NoName
    CacheSlots = 2
    HomeSlot <- MCHomeSlot
    Blocks = {1, 2, 3}
    BlockSize = 2
    AllocSizes = {1, 3}
    CheckpointMax = 3
    ArenaScopes = 2
    MaxLive = 3
    Objs = {1, 2}
    ServeModes = {"pool", "evented", "listen"}
    RqScripts <- MCScripts
    RqCap = 8
    RqMax = 10
    RqIntMax = 12
    Updaters = {u1, u2}
    AssetCount = 2
    MaxToken = 3
    MaxSession = 2
INVARIANT GlobalsNeverDangle
CHECK_DEADLOCK FALSE
