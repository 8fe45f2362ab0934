\* Choice of a dependency from a manifest and up to two override files.
SPECIFICATION Spec
CONSTANTS
    Unreadable = Unreadable
    NoVersion = NoVersion
    NoStack = NoStack
    NoEntry = NoEntry
    Number <- MCNumber
    Name <- MCName
    Stack <- MCStack
    Sha256 <- MCSha256
    Scenarios <- MCScenarios
INVARIANTS
    NewestSelected
    DefaultOverridden
    EntryFitsStack
    FailsForAReason
CHECK_DEADLOCK FALSE
