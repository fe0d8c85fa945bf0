SPECIFICATION SSpec
CONSTANTS
    File <- McFile
    Kind <- McKind
    Size <- McSize
    Listeners <- OneListener
    Addr = {"a"}
    Port <- McPort
    LongName = {"long"}
    LongValue = {1000000000}
    DiskFaults = FALSE
    Inbound = {}
    Peers <- McPeers
    Plan <- McPlan
    Casts <- Negotiators
    Modulus = 65536
    StrayRead = {TRUE}
    MaxClients = 2
    MaxQueue = 9
    MaxBlock = 8
    MaxLeak = 3
    MaxLoss = 1
    MaxDup = 2
    MaxRetry = 1
INVARIANTS
    ReceivedInOrder
    BlocksLabelled
    StaysAlive
