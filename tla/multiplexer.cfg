SPECIFICATION MSpec
CONSTANTS
    Backends = {"epoll", "poll", "select", "kqueue"}
    Listeners <- McListeners
    Peers = {1, 2}
    MaxClients = 2
INVARIANTS
    MTypeOK
    ListenersHeard
    BuffersLive
    ClosedUnwatched
    ShutdownCloses
PROPERTIES
    QueueArms
    DatagramReceived
CHECK_DEADLOCK FALSE
