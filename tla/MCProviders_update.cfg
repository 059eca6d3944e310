\* A file and an SSM provider whose sources change under a running server.
CONSTANTS
    u1 = u1
    u2 = u2
    r1 = r1
    r2 = r2
    N = 2
    Contents <- TwoProviders
SPECIFICATION Spec
CHECK_DEADLOCK FALSE
INVARIANTS TypeOK NoLostUpdate
PROPERTIES ImplementsConfigPublication CatchesUp StartsOrExits
