SPECIFICATION ModSpec
CONSTANTS
    MinCapacity = 2
    Paths <- McPaths
    Names = {"ab", "c"}
    NameOf <- McNameOf
    Opens <- McOpens
    Declares <- McDeclares
    Configs <- McConfigs
    Meddlers = {"modunload", "other"}
    MaxLoads = 3
    MaxSignals = 1
    MaxDepth = 3
INVARIANTS
    ModTypeOK
    HandlesOpen
    EveryModuleCalled
    TableWithin
PROPERTIES
    ConfiguredLoaded
CHECK_DEADLOCK FALSE
