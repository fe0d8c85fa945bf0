SPECIFICATION Spec
CONSTANTS
    File <- McFile
    Kind <- McKind
    Size <- McSize
    Listeners <- TwoListeners
    Addr = {"a"}
    Port <- BothPorts
    LongName = {"long"}
    LongValue = {1000000000}
    DiskFaults = FALSE
    Inbound <- FewKinds
    Modulus = 2
    StrayRead = {TRUE}
    MaxClients = 3
    MaxQueue = 2
    MaxBlock = 1
    MaxLeak = 0
INVARIANTS
    PoolKeyed
    FindsListener
    SocketPerClient
    FreedOnlyAfterFailure
