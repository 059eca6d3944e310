\* Every valid policy of two entries, and every URI of the small web.
CONSTANTS
    v4 = v4  v6 = v6  local = local  app = app  dotted = dotted  noHost = noHost
    none = none  noTail = noTail
    Spellings <- MCSpellings
    Hosts <- MCHosts
    Parsed <- MCParsed
    Refused = noHost
    Undotted <- MCUndotted
    LoopbackV4 = v4
    LoopbackV6 = v6
    Localhost = local
    Ports <- MCPorts
    None = none
    Tails <- MCTails
    RootTails <- MCRootTails
    Marks <- MCMarks
    RawTail <- MCRawTail
    NoTail = noTail
    Entries <- MCEntries
    MaxEntries = 2

SPECIFICATION PolicySpec
INVARIANTS PolicyTypeOK NoCleartextAbroad CorsAgreesWithRedirects OnlyDeadNeverMatch
