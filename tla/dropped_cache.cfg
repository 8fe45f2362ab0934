\* The platform drops the cache of a failed staging; URIs keep their content.
SPECIFICATION Spec
CONSTANTS
    Absent = Absent
    Broken = Broken
    Dep <- MCDep
    Uri <- MCUri
    Content <- MCContent
    Releases <- StableReleases
    Plans <- MCPlans
    KeepAfterFailure = FALSE
INVARIANTS
    TypeOK
    CacheExact
    RestageOffline
PROPERTIES
    Recovers
    KeepsPromise
