SPECIFICATION FairSpec
CHECK_DEADLOCK FALSE
CONSTANTS
    Panels <- MCPanels
    UserMoves <- MCUserMoves
    DevMoves <- MCDevMoves
    Patches <- MCPatches
    MaxActs = 2
INVARIANTS
    ControlsAgree
    BufferMatches
    AgreesWithDevice
    OnlyUserSends
    ValuesSurvive
PROPERTIES
    ControlsSettle
