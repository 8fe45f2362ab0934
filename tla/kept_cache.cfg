\* The platform keeps the cache of a failed staging and a URI changes its content.
SPECIFICATION Spec
CONSTANTS
    Absent = Absent
    Broken = Broken
    Dep <- MCDep
    Uri <- MCUri
    Content <- MCContent
    Releases <- ChangingReleases
    Plans <- MCPlans
    KeepAfterFailure = TRUE
INVARIANTS
    Verified
    CacheExact
    CacheTrusted
PROPERTY KeepsPromise
