\* Apps with AppDynamics or Sealights bound, on Python and on conda.
SPECIFICATION Spec
CONSTANTS
    Absent = Absent
    Wildcard = Wildcard
    Empty = Empty
    Package <- MCPackage
    ReqFile <- MCReqFile
    Top <- MCTop
    PythonConstraint <- MCConstraint
    PythonVersion <- MCVersion
    LockVersion <- MCLockVersion
    FormattedVersion <- MCFormattedVersion
    MatchingPython <- MCMatchingPython
    DefaultVersion <- MCDefaultVersion
    Apps <- AgentApps
INVARIANTS
    DeclaredInstalled
    AgentsInstalled
    AgentsRunFirstProcess
    LaunchesOneRuntime
PROPERTIES
    KeepsPromise
    WellFormedNeverRejected
CHECK_DEADLOCK FALSE
