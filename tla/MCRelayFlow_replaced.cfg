\* One authorization while the registry is replaced twice.
CONSTANTS
    r1 = r1
    r2 = r2
    u1 = u1
    u2 = u2
    i1 = i1
    i2 = i2
    a1 = a1
    a2 = a2
    s1 = s1
    s2 = s1
    None = None
    Relays = {r1, r2}
    Upstreams = {u1, u2}
    Issuers = {i1, i2}
    Uris = {a1, a2}
    Verifiers = {v1}
    Secrets = {s1}
    Snapshots <- All
    FlowIds = {f1}
    CodeIds = {c1}
    Handlers = {h1}
    MaxReplacements = 2
SPECIFICATION Spec
SYMMETRY Interchangeable
CHECK_DEADLOCK FALSE
INVARIANTS TypeOK RedirectsPermitted UpstreamsAgree PublicNeedsVerifier ClaimsOfBoundUpstream
