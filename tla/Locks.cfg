SPECIFICATION FairSpec
CONSTANTS
    w1 = w1
    w2 = w2
    Workers = {w1, w2}
    Bus = Bus
    IO = IO
    None = None
    MaxOps = 3
INVARIANT DeadlockNeedsDispatch
INVARIANT ListenerStalledOnlyBySwitch
PROPERTY OperationsEnd
CHECK_DEADLOCK FALSE
