\* Do packages that are only supplied work in the container?
SPECIFICATION Spec
CONSTANTS
    Other <- MCOther
    Command <- MCCommand
    Script <- MCScript
    Commands <- MCCommands
    EnvFiles <- MCEnvFiles
    Scripts <- MCScripts
    Chains <- MCChains
INVARIANTS
    SuppliedPackagesResolve
CHECK_DEADLOCK FALSE
