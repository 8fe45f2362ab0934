\* Pipenv apps: is what Pipfile.lock names installed?
SPECIFICATION Spec
CONSTANTS
    Absent = Absent
    Wildcard = Wildcard
    Empty = Empty
    Package <- MCPackage
    ReqFile <- MCReqFile
    Top <- MCTop
    PythonConstraint <- MCConstraint
    PythonVersion <- MCVersion
    LockVersion <- MCLockVersion
    FormattedVersion <- MCFormattedVersion
    MatchingPython <- MCMatchingPython
    DefaultVersion <- MCDefaultVersion
    Apps <- PipenvApps
INVARIANTS
    LockInstalled
CHECK_DEADLOCK FALSE
