SPECIFICATION FairSpec
CHECK_DEADLOCK FALSE
CONSTANTS
    Panels <- MCPanels
    UserMoves <- MCUserMoves
    DevMoves <- MCPatchesOnly
    Patches <- MCPatches
    MaxActs = 2
INVARIANTS
    LoadsSendNothing
