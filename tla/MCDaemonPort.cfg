SPECIFICATION Spec
\* The instance stops when its starts are used up and no probe is in flight.
CHECK_DEADLOCK FALSE
CONSTANTS
    Host = {h1, h2}
    Port = {q1, q2}
    MaxFlows = 3
    None = None
INVARIANTS
    PortFollowsSettings
