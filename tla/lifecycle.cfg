SPECIFICATION LSpec
CONSTANTS
    StartPids = {1, 2}
    ForkPids = {3}
    Account <- McAccount
    PrimaryGroup <- McPrimaryGroup
    Starters = {"root", "tftp"}
    Paths <- McPaths
    DefaultPidfile = "run"
    OpenPaths <- McOpenPaths
    ConfFiles <- McConfFiles
    OtherFiles <- McOtherFiles
    CommandLines <- McCommandLines
    SignalAt = {"loop"}
INVARIANTS
    LTypeOK
    ServesAlone
    ServesAsConfigured
PROPERTIES
    RefusedMeansRunning
    TermEnds
CHECK_DEADLOCK FALSE
