SPECIFICATION Spec
CONSTANTS
    File <- McFile
    Kind <- McKind
    Size <- McSize
    Listeners <- OneListener
    Addr = {"a"}
    Port <- BothPorts
    LongName = {"long"}
    LongValue = {1000000000}
    DiskFaults = TRUE
    Inbound <- AllKinds
    Modulus = 2
    StrayRead = {TRUE, FALSE}
    MaxClients = 1
    MaxQueue = 3
    MaxBlock = 2
    MaxLeak = 1
INVARIANTS
    TypeOK
    DestroyHasPacket
    SendingHasFile
    BlockCounter
    LastIsNewest
