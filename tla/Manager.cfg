SPECIFICATION ComingSpec

CONSTANTS
    p1 = p1
    p2 = p2
    w1 = w1
    Main = Main
    None = None
    Workers = {w1}
    Paths = {p1, p2}
    MaxTries = 1
    MaxPlugs = 2
    MaxObjects = 3

    BusDevices = {1, 2}
    Numbers <- MCNumbers

INVARIANT NicknamesFollowDevices
INVARIANT GhostOnlyIfMissed
INVARIANT BusShowsTree
INVARIANT KnownDevicesAnswer

CHECK_DEADLOCK FALSE
