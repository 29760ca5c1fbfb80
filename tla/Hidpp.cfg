SPECIFICATION MCSpec

CONSTANTS
    t1 = t1
    t2 = t2
    k1 = k1
    k2 = k2
    r1 = r1
    r2 = r2
    Probe = Probe
    Register = Register
    Recognise = Recognise
    PingWord <- Hello
    MaxAttempts = 6
    Callers = {t1, t2}
    Keys = {k1, k2}
    Registers = {r1, r2}
    SubIDs <- ReadWrite
    SubIDCount = 4
    TimeoutError = TimeoutError
    SystemError = SystemError
    None = None
    MaxCalls = 3
    MaxEvents = 1

INVARIANT AnswersAreOwn
INVARIANT EventsNotSwallowed
INVARIANT NodeRecognised
PROPERTY ProbesEnd

CHECK_DEADLOCK FALSE
