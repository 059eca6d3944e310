\* Two keys of a signer, tokens of every kind, long enough for a rollover while a
\* code waits.
SPECIFICATION Spec
CONSTANTS
    Keys = {k1, k2}
    FirstKey = k1
    Setups <- Relays
    Lives = {1, 3}
    Aheads = {0, 1, 2}
    CodeTtl = 1
    JwksTtl = 2
    IatSkew = 1
    Leeway = 1
    MaxClock = 4
    None = None
    Unread = Unread
    Unusable = Unusable
CHECK_DEADLOCK FALSE
INVARIANTS TypeOK RefusedForCause AcceptedIsOurs AssertionForThisRelay
