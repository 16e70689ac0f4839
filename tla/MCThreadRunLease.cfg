SPECIFICATION FairSpec
CONSTANTS
    Proc = {p1, p2, p3}
    Thread = {t1, t2}
    Token = {k1, k2}
    Ttl = 3
    Refresh = 1
    Faults = {"crash", "stall", "dbError"}
    NoRow = NoRow
    NoTurn = NoTurn
INVARIANTS
    TypeOK
    DoubleRunNeedsSilence
    StreamLossWindow
PROPERTIES
    OrphanFreed
    ImplementsAdmission
