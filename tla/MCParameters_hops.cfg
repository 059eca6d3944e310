\* Every short query, answer, form, path and document, for a relay of each kind.
CONSTANTS
    none = none
    None = none
    NoValue = none
    NoDocument = NoDocument
    BadSegments = {"a b"}
    Documents <- MCDocuments
    Paths <- MCPaths
    Refusal = Refusal
    Relays <- MCRelays
    Upstream <- MCUpstream
    QueryOf <- MCQueryOf
    Queries <- MCQueries
    Answers <- MCAnswers
    Forms <- MCForms
    ValidChallenges = {"challenge"}
    ValidTokens = {"openid", "email"}
    GoodAssertion = "good"
    SealedState = "sealed-state"
    OwnChallenge = "own-challenge"
    SealedCode = "sealed-code"
\* A flow ends with what the application receives.
CHECK_DEADLOCK FALSE
SPECIFICATION Spec
INVARIANTS TypeOK HalvesStayApart Unambiguous ExtensionsPreserved LinksLeadBack
