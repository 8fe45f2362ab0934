\* This buildpack among others, from the first supply to the running app.
SPECIFICATION Spec
CONSTANTS
    Other <- MCOther
    Command <- MCCommand
    Script <- MCScript
    Commands <- MCCommands
    EnvFiles <- MCEnvFiles
    Scripts <- MCScripts
    Chains <- MCChains
INVARIANTS
    TypeOK
    PythonFindsItsHome
    SearchOrderKept
    VariablesAgree
    EveryScriptSourced
    PathFilesResolve
CHECK_DEADLOCK FALSE
