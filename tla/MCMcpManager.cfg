SPECIFICATION FairSpec
CONSTANTS
    Server = {s1}
    MaxClients = 2
    MaxSems = 2
    Instances <- Both
    Limits = {1, 2}
    Absent = Absent
    Deleted = Deleted
    NoConn = NoConn
    NoServer = NoServer
INVARIANTS
    TypeOK
    PermitsExact
    ToolsFromOpenClient
    SequentialUseAgrees
PROPERTIES
    QueuedCallProceeds
