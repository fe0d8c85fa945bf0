SPECIFICATION SSpec
CONSTANTS
    File <- McFile
    Kind <- McKind
    Size <- McSize
    Listeners <- OneListener
    Addr = {"a"}
    Port <- McPort
    LongName = {"long"}
    LongValue = {1000000000}
    DiskFaults = FALSE
    Inbound = {}
    Peers <- McPeers
    Plan <- McPlan
    Casts <- Pairs
    Modulus = 3
    StrayRead = {TRUE}
    MaxClients = 3
    MaxQueue = 3
    MaxBlock = 5
    MaxLeak = 1
    MaxLoss = 0
    MaxDup = 0
    MaxRetry = 0
INVARIANTS
    EveryClientServed
