SPECIFICATION ThreadsSpec

CONSTANTS
    w1 = w1
    w2 = w2
    Workers = {w1, w2}
    NoTask = NoTask
    Delays = {0, 1}
    MaxTasks = 3
    MaxTime = 2

    c1 = c1
    c2 = c2
    f1 = f1
    f2 = f2
    IO = IO
    None = None
    Callers = {c1, c2}
    Fds = {f1, f2}
    MaxDevices = 2
    Reporting = {1}

    o1 = o1
    o2 = o2
    Owners = {o1, o2}
    MaxAdds = 4

INVARIANT QueueAttended
INVARIANT YielderIsHeard
INVARIANT CallbackOnOpenDevice
INVARIANT RoundIsSound
PROPERTY EarlyOnlyAfterLostRace
PROPERTY ThreadsGoOn

CHECK_DEADLOCK FALSE
