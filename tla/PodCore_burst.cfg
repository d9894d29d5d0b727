SPECIFICATION BurstSpec
CONSTANTS
    p1 = p1
    p2 = p2
    Manual = Manual
    Tuner = Tuner
    Hidden = Hidden
    EditBuffer = EditBuffer
    Current = Current
    All = All
    NoRoute = NoRoute
    Programs <- MCPrograms
    ProgramSeq <- MCSeq
    Modes <- MCModes
    PcNum <- MCPcNum
    Vals = {0, 1}
    Names = {"a"}
    Blank <- MCBlank
    AllProgramsDump = FALSE
    PcAndEditBuffer = TRUE
    InDumpReq = TRUE
    OutDumpReq = TRUE
    PeerRequests = TRUE
    DeviceSwap = TRUE
    MaxBacklog = 40
    MaxActs = 2
INVARIANTS
    EditBufferFollowsControls
    PreviousCatchesUp
    RouteIsAwaited
CHECK_DEADLOCK FALSE
