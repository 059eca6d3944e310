\* Two authorizations, their states and codes delivered in every combination.
CONSTANTS
    r1 = r1
    r2 = r2
    u1 = u1
    u2 = u2
    i1 = i1
    i2 = i2
    a1 = a1
    a2 = a2
    s1 = s1
    s2 = s2
    None = None
    Relays = {r1, r2}
    Upstreams = {u1, u2}
    Issuers = {i1, i2}
    Uris = {a1, a2}
    Verifiers = {v1}
    Secrets = {s1, s2}
    Snapshots <- JustStart
    FlowIds = {f1, f2}
    CodeIds = {c1}
    Handlers = {h1}
    MaxReplacements = 0
SPECIFICATION Spec
SYMMETRY Interchangeable
CHECK_DEADLOCK FALSE
PROPERTIES ImplementsCodeGrant
