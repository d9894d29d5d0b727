SPECIFICATION BurstSpec
CONSTANTS
    p1 = p1
    p2 = p2
    e1 = e1
    Manual = Manual
    Hidden = Hidden
    EditBuffer = EditBuffer
    Current = Current
    All = All
    NoRoute = NoRoute
    NoProgram = NoProgram
    Programs <- MCPrograms
    ProgramSeq <- MCSeq
    Effects <- MCEffects
    EffectSeq <- MCEffSeq
    Modes = {}
    PcNum <- MCPcNum
    Blank <- MCBlank
    AllProgramsDump = FALSE
    PcAndEditBuffer = FALSE
    DeviceSwap = FALSE
    InDumpReq = TRUE
    OutDumpReq = FALSE
    PeerRequests = TRUE
    PeerDumps = TRUE
    DumpsMayFail = TRUE
    StatusMayBeLost = TRUE
    Timely = FALSE
    MaxBacklog = 50
    MaxActs = 2
    Part = "all"
    Vals = {0}
    Names = {"a"}
INVARIANTS
    StoreIsWatched
    StoreIsNotBlocked
CHECK_DEADLOCK FALSE
