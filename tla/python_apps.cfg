\* Apps without bound services: files, vendoring and settings vary.
SPECIFICATION Spec
CONSTANTS
    Absent = Absent
    Wildcard = Wildcard
    Empty = Empty
    Package <- MCPackage
    ReqFile <- MCReqFile
    Top <- MCTop
    PythonConstraint <- MCConstraint
    PythonVersion <- MCVersion
    LockVersion <- MCLockVersion
    FormattedVersion <- MCFormattedVersion
    MatchingPython <- MCMatchingPython
    DefaultVersion <- MCDefaultVersion
    Apps <- PythonApps
INVARIANTS
    TypeOK
    DeclaredInstalled
    NativeLibrariesReady
    LibffiOnce
    BuildDirRestored
    ScriptsUsable
    PythonAsRequested
    LockNamesPython
    OfflineWhenVendored
    CollectstaticRan
    NltkDataAnnounced
PROPERTIES
    KeepsPromise
    WellFormedNeverRejected
CHECK_DEADLOCK FALSE
