SPECIFICATION Spec
\* The instance stops when its run ids are used up.
CHECK_DEADLOCK FALSE
CONSTANTS
    p1 = p1
    p2 = p2
    p3 = p3
    a1 = a1
    a2 = a2
    a3 = a3
    Proc = {p1, p2}
    Approval = {a1}
    Deployments <- Processes
    Run = {r1, r2}
    Environment = {"preempt"}
    MaxWork <- WorkOf
    Reserve = 0
    NoRun = NoRun
    NoTurn = NoTurn
    NoApproval = NoApproval
    NoSession = NoSession
PROPERTIES
    TerminalIsFinal
