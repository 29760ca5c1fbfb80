SPECIFICATION ReceiverSpec

CONSTANTS
    i1 = i1
    w1 = w1
    w2 = w2
    None = None
    Indices = {i1}
    Supported = {i1}
    Workers = {w1, w2}
    MaxTries = 1
    MaxEvents = 3

    d1 = d1
    d2 = d2
    Near = {d1, d2}
    Nobody = Nobody
    SeqNum <- MCSeqNum
    Size <- MCSize
    Block = 2
    MaxCalls = 2

INVARIANT NoGhost
INVARIANT PairsWhatItShows
INVARIANT SessionAgrees
PROPERTY ListComesTrue

CHECK_DEADLOCK FALSE
