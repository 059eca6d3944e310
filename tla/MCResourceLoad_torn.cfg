SPECIFICATION Spec
CONSTANTS
    Names = {1, 2}
    s1 = s1
    v1 = v1
    Sources = {s1}
    SecretValues = {v1, v2}
    InitialStore <- SharedSecret
    InitialSecrets <- FirstSecret
    PageSize = 1
    MaxChanges = 2
    MaxErrors = 1
    Empty = Empty
    LineEnds = LineEnds
    Absent = Absent
    Broken = Broken
    NoSecret = NoSecret
    NoSnapshot = NoSnapshot
INVARIANT TypeOK
PROPERTIES ImplementsRegularLoad AdoptsWhatStays
