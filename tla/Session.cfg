SPECIFICATION FairSpec
CHECK_DEADLOCK FALSE
CONSTANTS
    pod = pod
    pocket = pocket
    NoConfig = NoConfig
    Configs <- MCConfigs
    Default = pod
    Actual = pocket
    Quirky <- MCQuirky
    Lines <- BothLines
    Users <- BothUsers
    MayUnplug = TRUE
    MaxSessions = 3
    MaxDialogs = 2
INVARIANTS
    PatientUserIsSafe
    DialogHasTheLine
    CtxMatchesConfig
PROPERTIES
    Quits
