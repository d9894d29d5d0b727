SPECIFICATION FairSeqSpec
CONSTANTS
    p1 = p1
    p2 = p2
    Manual = Manual
    Tuner = Tuner
    Hidden = Hidden
    EditBuffer = EditBuffer
    Current = Current
    All = All
    NoRoute = NoRoute
    Programs <- MCPrograms
    ProgramSeq <- MCSeq
    Modes <- MCModes
    PcNum <- MCPcNum
    Vals = {0, 1}
    Names = {"a", "b"}
    Blank <- MCBlank
    AllProgramsDump = TRUE
    PcAndEditBuffer = FALSE
    InDumpReq = TRUE
    OutDumpReq = FALSE
    PeerRequests = TRUE
    DeviceSwap = FALSE
    MaxBacklog = 0
    MaxActs = 0
INVARIANTS
    TypeOK
    UnmodifiedMatchesDevice
    GridShowsDump
PROPERTIES
    SavedEditsAreMarked
    Settles
    UserActionsArrive
