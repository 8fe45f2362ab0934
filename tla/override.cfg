\* Does an override file win over the manifest?
SPECIFICATION Spec
CONSTANTS
    Unreadable = Unreadable
    NoVersion = NoVersion
    NoStack = NoStack
    NoEntry = NoEntry
    Number <- MCNumber
    Name <- MCName
    Stack <- MCStack
    Sha256 <- MCSha256
    Scenarios <- MCScenarios
INVARIANTS
    OverrideTakesEffect
CHECK_DEADLOCK FALSE
