SPECIFICATION Spec
CONSTANTS
    MaxSlot = 1
    h1 = h1
    h2 = h2
    u1 = u1
    Host = {h1}
    Uid = {u1}
    NoUid = NoUid
    UidOf <- OneUid
    Advertising = {}
    MaxRetries = 1
    MaxVolume = 1
    VolumeRequests = {}
    MuteRequests = {}
    NotFinite = NotFinite
    StoredCaps = {"absent"}
    NoSession = NoSession
    NoDevice = NoDevice
    MaxAttempts = 8
    MaxPosted = 2
PROPERTIES StoredUnderBothKeys
CHECK_DEADLOCK FALSE
