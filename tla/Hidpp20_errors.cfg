SPECIFICATION Spec

CONSTANTS
    t1 = t1
    t2 = t2
    t3 = t3
    Callers = {t1, t2, t3}
    None = None
    TimeoutError = TimeoutError
    SystemError = SystemError
    Features <- MCFeatures
    MayCall <- SharedSlots
    NumSlots = 16
    ErrorID = 255
    MaxCalls = 2

PROPERTY AnsweredCallReturns

CHECK_DEADLOCK FALSE
