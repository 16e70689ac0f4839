SPECIFICATION FairSpec
\* The instance stops when its turns are used up.
CHECK_DEADLOCK FALSE
CONSTANTS
    Sender = {s1, s2}
    Thread = {t1, t2}
    NoThread = NoThread
    Closed = Closed
    MaxStreams = 2
    MaxSteers = 2
INVARIANTS
    SteeringExact
PROPERTIES
    CancelledEnds
