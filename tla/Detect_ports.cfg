SPECIFICATION FairSpec
CHECK_DEADLOCK FALSE
CONSTANTS
    d1 = d1
    d2 = d2
    i1 = i1
    i2 = i2
    u1 = u1
    o1 = o1
    o2 = o2
    o3 = o3
    v1 = v1
    xt = xt
    pod = pod
    c1 = c1
    c2 = c2
    Unknown = Unknown
    Junk = Junk
    Own = Own
    All = All
    NoChannel = NoChannel
    NoPort = NoPort
    Configs <- MCConfigs
    Channels <- MCChannels
    Benches <- MCBenches
    Jobs <- MCJobs
    Punctual = {TRUE, FALSE}
    MaxReplies = 4
INVARIANTS
    FoundIsRight
    SearchKeepsDevice
PROPERTIES
    AttachedIsFound
    SearchEnds
