\* Requests racing for two codes on two processes, the second ahead by more
\* than the allowance and without a replay cache; each may restart once.
CONSTANTS
    p1 = p1
    p2 = p2
    Procs = {p1, p2}
    Cached <- OnlyFirst
    Ids = {c1, c2}
    Handlers = {h1, h2}
    TicksPerSec = 1
    CodeTtl = 1
    Allowance = 1
    Skew <- SkewTwo
    MaxClock = 3
    MaxRestarts = 1
    MaxUses = 2
SPECIFICATION Spec
SYMMETRY Interchangeable
CHECK_DEADLOCK FALSE
INVARIANTS TypeOK BurntMeansUsed SecondUseOnlyOfEarlyFirst BoundedAcceptance
PROPERTIES ImplementsOneUseWindow
