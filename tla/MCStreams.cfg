SPECIFICATION StreamsSpec
\* Instances stop when their turns are used up.
CHECK_DEADLOCK FALSE
CONSTANTS
    Sender = {s1, s2}
    Thread = {t1, t2}
    NoThread = NoThread
    Closed = Closed
    MaxStreams = 3
    MaxSteers = 1
    Absent = Absent
    MaxTurns = 2
SYMMETRY Symmetry
INVARIANTS
    StreamsTypeOK
    RegistryExact
    StreamExact
    SavedUnderOwnThread
    NothingLeftOpen
PROPERTIES
    BlockedKeepsApprovals
