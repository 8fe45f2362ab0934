-------------------------------- MODULE Hooks -------------------------------
(***************************************************************************)
(* RunBeforeCompile: the hooks of src/python/hooks in the order in which   *)
(* they register, each on the files the one before left.  Dynatrace and    *)
(* the debug hooks do nothing here.                                        *)
(***************************************************************************)
EXTENDS StagingState

\* Mistake: the command is built anew, without the agent put there before.
GenerateStartUpCommandAnew(p, a) == [p EXCEPT ![1] = [type |-> "web", agents |-> <<a>>]]

\* GenerateStartUpCommand: the text up to the first colon becomes "web" and
\* the rest of the file stays behind the agent's command.
GenerateStartUpCommand(p, a) ==
    [p EXCEPT ![1] = [type |-> "web", agents |-> <<a>> \o @.agents]]

\* Mistake: an app without a Procfile is an error.
ProcfileRequired == build.procfile \notin {<<>>, Absent}

\* RewriteProcFile returns an error for a file without a colon.
ProcfileAccepted == build.procfile # <<>>

\* Mistake: without a Procfile the agent's package is left out too.
WithAgentOnProcfile(a) ==
    IF build.procfile = Absent THEN build
    ELSE [build EXCEPT !.reqs = WithPackage(@, AgentPackage[a]),
                       !.procfile = GenerateStartUpCommand(@, a)]

WithAgent(a) ==
    [build EXCEPT !.reqs = WithPackage(@, AgentPackage[a]),
                  !.procfile = IF @ = Absent THEN @ ELSE GenerateStartUpCommand(@, a)]

\* Mistake: an agent that another buildpack has set up is set up again.
UsesAppDynamicsAlways == "appdynamics" \in app.services

\* AppdynamicsHook.BeforeCompile when the service is bound and no AppDynamics
\* buildpack set APPD_AGENT.
UsesAppDynamics == "appdynamics" \in app.services /\ ~app.appdAgent

AppDynamicsBeforeCompile ==
    /\ UsesAppDynamics
    /\ ProcfileAccepted
    /\ Goto("AppDynamics", "AppHook")
    /\ build' = WithAgent("appdynamics")
    /\ dep' = [dep EXCEPT !.profile = @ \cup {"appdynamics.sh"}]
    /\ UNCHANGED <<app, proc, net>>

AppDynamicsSkipped ==
    /\ ~UsesAppDynamics
    /\ Goto("AppDynamics", "AppHook")
    /\ UNCHANGED <<app, build, dep, proc, net>>

\* AppHook.BeforeCompile runs bin/pre_compile of the app, which may write its
\* own requirements.txt.
AppHookBeforeCompile ==
    /\ Goto("AppHook", "Sealights")
    /\ build' = IF app.preCompile = Absent THEN build
                ELSE [build EXCEPT !.reqs = WithFile(@, app.preCompile),
                                   !.indexed = OutsideTop(@)]
    /\ UNCHANGED <<app, dep, proc, net>>

SealightsBeforeCompile ==
    /\ "sealights" \in app.services
    /\ ProcfileAccepted
    /\ Goto("Sealights", "MakeDepDirs")
    /\ build' = WithAgent("sealights")
    /\ UNCHANGED <<app, dep, proc, net>>

SealightsSkipped ==
    /\ "sealights" \notin app.services
    /\ Goto("Sealights", "MakeDepDirs")
    /\ UNCHANGED <<app, build, dep, proc, net>>

HooksNext ==
    \/ AppDynamicsBeforeCompile \/ AppDynamicsSkipped
    \/ AppHookBeforeCompile
    \/ SealightsBeforeCompile \/ SealightsSkipped
=============================================================================
