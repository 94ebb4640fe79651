SPECIFICATION FairSpec
CONSTANTS
    MaxSlot = 1
    h1 = h1
    h2 = h2
    u1 = u1
    Host = {h1}
    Uid = {u1}
    NoUid = NoUid
    UidOf <- OneUid
    Advertising = {}
    MaxRetries = 1
    MaxVolume = 1
    VolumeRequests <- SomeVolumes
    MuteRequests = {TRUE, FALSE}
    NotFinite = NotFinite
    StoredCaps = {"absent"}
    NoSession = NoSession
    NoDevice = NoDevice
    MaxAttempts = 4
    MaxPosted = 2
INVARIANTS
    TypeOK
    GainMatches
    ErrorIsQuiet
PROPERTIES
    ConnectingResolves
    DeadStreamIsNoticed
    ImplementsSupervisor
CHECK_DEADLOCK FALSE
