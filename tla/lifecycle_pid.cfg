SPECIFICATION LSpec
CONSTANTS
    StartPids = {1}
    ForkPids = {2}
    Account <- McAccount
    PrimaryGroup <- McPrimaryGroup
    Starters = {"root"}
    Paths = {"run"}
    DefaultPidfile = "run"
    OpenPaths = {}
    ConfFiles <- OneConf
    OtherFiles <- NoFiles
    CommandLines <- Plainly
    SignalAt = {}
INVARIANTS
    PidFileNamesServer
CHECK_DEADLOCK FALSE
