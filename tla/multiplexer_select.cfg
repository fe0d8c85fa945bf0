SPECIFICATION MSpec
CONSTANTS
    Backends = {"select"}
    Listeners <- McListeners
    Peers = {1, 2}
    MaxClients = 2
INVARIANTS
    AllListenersHeard
CHECK_DEADLOCK FALSE
