SPECIFICATION SSpec
CONSTANTS
    File <- McFile
    Kind <- McKind
    Size <- McSize
    Listeners <- OneListener
    Addr = {"a"}
    Port <- McPort
    LongName = {"long"}
    LongValue = {1000000000}
    DiskFaults = FALSE
    Inbound = {}
    Peers <- McPeers
    Plan <- McPlan
    Casts <- OneReader
    Modulus = 3
    StrayRead = {TRUE}
    MaxClients = 2
    MaxQueue = 6
    MaxBlock = 8
    MaxLeak = 3
    MaxLoss = 0
    MaxDup = 1
    MaxRetry = 0
INVARIANTS
    BlocksLabelled
