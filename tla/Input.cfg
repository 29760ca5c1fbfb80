SPECIFICATION InputSpec

CONSTANTS
    DefaultThreshold = 2
    DefaultInterval = 2
    HiResCodes = {3}
    Detent = 4
    Layouts <- MCLayouts
    Moves <- MCMoves
    Reach = 4
    Thresholds = {0, 1}
    Intervals <- MCIntervals
    Factors = {2}
    MaxEvents = 3
    MaxTuning = 1

    WheelLayouts <- MCWheelLayouts
    Turns <- MCTurns
    MaxTurns = 2
    MaxWheelCalls = 2

    Buttons = {1, 2}
    Divertable = {1, 2}
    RawXY = {1}
    Keys = {1, 2, 3}
    Profiles <- MCProfiles
    NewKeys = {{2, 3}}
    MaxReports = 3
    MaxChanges = 2

    Workers = {w1, w2}
    bus = bus
    Bits <- MCBits
    DpiSensors = {1, 2}
    NoSensor = 3
    DpiLists <- MCDpiLists
    Word = 16
    Hosts = 3
    Given <- MCGiven
    DpiValues = {8}
    SmartThresholds = {0}
    Increments <- MCIncrements
    Ways = {"prev"}
    MaxOps = 3


VIEW view

INVARIANT WheelsAgree
INVARIANT ButtonsAgree
INVARIANT SettingsAgree
INVARIANT AxisIsDistance
INVARIANT OneRunPerRelease

CHECK_DEADLOCK FALSE
