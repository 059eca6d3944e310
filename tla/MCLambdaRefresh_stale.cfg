SPECIFICATION Spec
CONSTANTS
    N = 2
    Contents <- FileAndSsm
    TTL = 2
    Steps <- BackAndForth
    Horizon = 4
    MaxSlack = 2
    u = u
    r = r
INVARIANTS TypeOK BoundedStaleness
PROPERTIES ImplementsConfigPublication
CHECK_DEADLOCK FALSE
