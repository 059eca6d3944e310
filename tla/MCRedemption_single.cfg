\* One process, one code: is it redeemed once?
CONSTANTS
    p1 = p1
    p2 = p2
    Procs = {p1}
    Cached = {p1}
    Ids = {c1}
    Handlers = {h1, h2}
    TicksPerSec = 2
    CodeTtl = 1
    Allowance = 0
    Skew <- SkewOne
    MaxClock = 6
    MaxRestarts = 0
    MaxUses = 3
SPECIFICATION Spec
CHECK_DEADLOCK FALSE
INVARIANTS SingleUse
