SPECIFICATION FairSpec

CONSTANTS
    t1 = t1
    t2 = t2
    t3 = t3
    Callers = {t1, t2, t3}
    None = None
    TimeoutError = TimeoutError
    SystemError = SystemError
    Features <- MCFeatures
    MayCall <- SharedSlots
    NumSlots = 16
    ErrorID = 255
    MaxCalls = 3

INVARIANT TypeOK
INVARIANT SlotExclusion
INVARIANT OwnAnswerOrLate
PROPERTY StoredAnswerIsReturned
PROPERTY SlotsImplemented
PROPERTY CallEnds

CHECK_DEADLOCK FALSE
