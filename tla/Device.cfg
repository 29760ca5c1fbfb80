SPECIFICATION FairSpec

CONSTANTS
    w1 = w1
    w2 = w2
    f1 = f1
    f2 = f2
    v1 = v1
    Bus = Bus
    Battery = Battery
    Status = Status
    Unset = Unset
    None = None
    Device = Device
    Twin = Twin
    Workers = {w1, w2}
    Features <- FeatureMap
    Initial <- ConfigFile
    Profiles = {"default", "work"}
    Default = "default"
    Values = {v1}
    MaxOps = 3

INVARIANT HardwareFollowsProfile
INVARIANT FeaturesShareProfile
PROPERTY OperationsEnd

CHECK_DEADLOCK FALSE
