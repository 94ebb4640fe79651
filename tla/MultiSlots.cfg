SPECIFICATION Spec
CONSTANTS
    MaxSlot = 2
    h1 = h1
    h2 = h2
    u1 = u1
    Host = {h1, h2}
    Uid = {u1}
    NoUid = NoUid
    UidOf <- SharedUid
    Advertising = {}
    MaxRetries = 1
    MaxVolume = 1
    VolumeRequests = {}
    MuteRequests = {}
    NotFinite = NotFinite
    StoredCaps = {"absent", "yes"}
    NoSession = NoSession
    NoDevice = NoDevice
    MaxAttempts = 2
    MaxPosted = 1
INVARIANTS
    DeviceOwned
    PlaybackMatchesSessions
    ConnectedHasStream
    DrivenByOneJob
PROPERTIES
    FallbackTakesEffect
CHECK_DEADLOCK FALSE
