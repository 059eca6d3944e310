\* Rotation instance by instance, as documented or with the new key announced first.
CONSTANTS
    p1 = p1  p2 = p2  k1 = k1  k2 = k2  k3 = k3
    Instances = {p1, p2}
    Keys = {k1, k2, k3}
    NoKey = NoKey
    Kinds = {"flow", "code"}
    TTL <- MCTTL
    Allowance = 1
    Skew <- MCSkew
    Keep = 3
    MaxEnvelopes = 2
    MaxTime = 9
SYMMETRY Symmetry
SPECIFICATION SealingSpec
INVARIANTS SealingTypeOK RefusedOnlyBeforeRestart
