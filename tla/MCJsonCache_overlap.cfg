\* Two requests at a time, for endpoints or on their way to the keys.
CONSTANTS
    disc = disc  keys1 = keys1  none = none  h1 = h1  h2 = h2
    Discovery = disc
    KeyUrls <- MCKeyUrls
    UriOf <- MCUriOf
    KeysOf <- MCKeysOf
    None = none
    DiscoveryTTL = 2
    JwksTTL = 1
    Handlers = {h1, h2}
    Needs <- NeedAll
    MaxChanges <- BothChange
    MaxTime = 3
SYMMETRY Symmetry
SPECIFICATION Spec
INVARIANTS TypeOK StaleAtMost RolloverSafe
