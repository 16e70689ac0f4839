SPECIFICATION Spec
CONSTANTS
    Server = {s1}
    MaxClients = 2
    MaxSems = 2
    Instances <- ManyOps
    Limits = {1, 2}
    Absent = Absent
    Deleted = Deleted
    NoConn = NoConn
    NoServer = NoServer
INVARIANTS
    AlwaysApprovalRetained
