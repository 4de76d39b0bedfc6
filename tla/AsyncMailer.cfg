\* Two instances with three workers, two of them on the first, closed and
\* started again, with fairness.
SPECIFICATION FairSpec
CONSTANTS
    i1 = i1
    i2 = i2
    w1 = w1
    w2 = w2
    w3 = w3
    Keys = {k1, k2}
    Instances = {i1, i2}
    Workers = {w1, w2, w3}
    On <- MCOn
    QueueSize = 1
    MaxAsks = 4
    MaxFaults = 2
    None = None
INVARIANTS TypeOK NothingLost
PROPERTIES ImplementsOutbox CloseEnds EveryMailLeaves
