SPECIFICATION ComponentsSpec
\* Instances stop when time, ids, edits, starts and crashes are used up.
CHECK_DEADLOCK FALSE
CONSTANTS
    None = None
    Id = {i1, i2}
    Thread = {t1, t2}
    Bridged = {t1}
    MaxTime = 2
    MaxArmings = 2
    MaxCrashes = 1
    Task = {k1, k2}
    Interval = {1}
    Cron = Cron
    Change = 2
    Shift <- TwoBack
    MaxGap = 2
    MaxClock = 3
    MaxEdits = 1
    MaxRestarts = 1
    Host = {h1, h2}
    Port = {q1, q2}
    MaxFlows = 3
    MaxCalls = 2
    MaxVersions = 4
    MaxUndo = 2
INVARIANTS
    ComponentsTypeOK
    OneShot
    SettledByOwnWake
    DaemonFollows
PROPERTIES
    NoWorkLost
    MissedNotRepeated
    DueIsRun
