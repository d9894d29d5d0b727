SPECIFICATION FairSeqSpec
CONSTANTS
    p1 = p1
    p2 = p2
    e1 = e1
    Manual = Manual
    Hidden = Hidden
    EditBuffer = EditBuffer
    Current = Current
    All = All
    NoRoute = NoRoute
    NoProgram = NoProgram
    Programs <- MCPrograms
    ProgramSeq <- MCSeq
    Effects <- MCEffects
    EffectSeq <- MCEffSeq
    Modes = {}
    PcNum <- MCPcNum
    Blank <- MCBlank
    AllProgramsDump = FALSE
    PcAndEditBuffer = FALSE
    DeviceSwap = FALSE
    InDumpReq = TRUE
    OutDumpReq = FALSE
    PeerRequests = FALSE
    PeerDumps = FALSE
    DumpsMayFail = TRUE
    StatusMayBeLost = FALSE
    Timely = TRUE
    MaxBacklog = 0
    MaxActs = 0
    Part = "grid"
    Vals = {0, 1}
    Names = {"a"}
INVARIANTS
    UnmodifiedMatchesDevice
    RestIsComplete
PROPERTIES
    LoadArrives
    StoreArrivesOrStaysMarked
