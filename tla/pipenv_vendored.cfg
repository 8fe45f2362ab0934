\* Pipenv apps: are vendored ones staged offline?
SPECIFICATION Spec
CONSTANTS
    Absent = Absent
    Wildcard = Wildcard
    Empty = Empty
    Package <- MCPackage
    ReqFile <- MCReqFile
    Top <- MCTop
    PythonConstraint <- MCConstraint
    PythonVersion <- MCVersion
    LockVersion <- MCLockVersion
    FormattedVersion <- MCFormattedVersion
    MatchingPython <- MCMatchingPython
    DefaultVersion <- MCDefaultVersion
    Apps <- PipenvApps
INVARIANTS
    VendoredOffline
CHECK_DEADLOCK FALSE
