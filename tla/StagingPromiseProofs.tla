------------------------ MODULE StagingPromiseProofs ------------------------
(***************************************************************************)
(* A staging ends with a droplet that honours what the app asked for, or   *)
(* with none: Staging implements StagingPromise, for every app.            *)
(***************************************************************************)
EXTENDS StagingProofs, StagingRuntimeProofs, SequenceTheorems

\* A Procfile whose first process runs under some agents.
UnderAgents(p, agents) ==
    IF p = Absent \/ agents = <<>> THEN p
    ELSE [p EXCEPT ![1] = [type |-> "web", agents |-> agents \o @.agents]]

AppDynamicsWrapper(a) == IF "appdynamics" \in BoundAgents(a) THEN <<"appdynamics">> ELSE <<>>

BeforeSupply == {"AppDynamics", "AppHook", "Sealights"}

\* The Procfile after each hook.
ProcfileInv ==
    /\ pc = "AppDynamics" => build.procfile = app.procfile
    /\ pc \in {"AppHook", "Sealights"} =>
          build.procfile = UnderAgents(app.procfile, AppDynamicsWrapper(app))
    /\ pc \in {"AppHook", "Sealights"} /\ "appdynamics" \in BoundAgents(app) =>
          app.procfile # <<>>
    /\ pc \notin BeforeSupply \cup {"failed"} =>
          /\ build.procfile = UnderAgents(app.procfile, Wrappers(app))
          /\ BoundAgents(app) # {} => app.procfile # <<>>

AppDynamicsScript(a) == IF "appdynamics" \in BoundAgents(a) THEN {"appdynamics.sh"} ELSE {}
RuntimeScript(a) == IF a.conda THEN {"conda.sh"} ELSE {"python.sh"}

BeforeScript == (BeforePython \cup BeforeNltk \cup CondaSteps) \ {"AppDynamics"}
WithScript == {"RemoveGenerated", "CompleteSupply", "FinalizeEnvironment", "HandleCollectstatic",
               "ReplaceDepsDirWithLiteral", "ReplaceLiteralWithDepsDirAtRuntime"}
WithFixeggs == {"PostCompile", "SetLaunchEnvironment", "done"}

\* One runtime, and no .pth file with a staging path once finalize has seen them.
RuntimeInv ==
    /\ IF app.conda THEN dep.python = Absent ELSE dep.conda # "updated"
    /\ pc \in BeforeNltk \cup WithScript \cup WithFixeggs =>
          IF app.conda THEN dep.conda = "updated" ELSE dep.python # Absent
    /\ pc = "CondaProfile" => dep.conda = "updated"
    /\ pc \in {"ReplaceLiteralWithDepsDirAtRuntime"} \cup WithFixeggs => dep.pth # "absolute"

\* The launch scripts; the one that announces NLTK's data has an invariant of its own.
LaunchInv ==
    /\ pc = "AppDynamics" => dep.profile = {}
    /\ pc \in BeforeScript => dep.profile = AppDynamicsScript(app)
    /\ pc \in WithScript =>
          dep.profile \ {"export NLTK_DATA"} = AppDynamicsScript(app) \cup RuntimeScript(app)
    /\ pc \in WithFixeggs =>
          dep.profile \ {"export NLTK_DATA"} =
              AppDynamicsScript(app) \cup RuntimeScript(app) \cup {"python.fixeggs.sh"}

\* Corpora are there because the app asks for them and nltk is installed.
CorporaInv == dep.nltkData = TRUE => app.nltk /\ "nltk" \in dep.site

-----------------------------------------------------------------------------
(* The Procfile.                                                           *)

\* The agents around the first process, by what is bound.
LEMMA WrapperCases ==
    ASSUME NEW a \in App
    PROVE  /\ "sealights" \notin BoundAgents(a) => Wrappers(a) = AppDynamicsWrapper(a)
           /\ "sealights" \in BoundAgents(a) =>
                 Wrappers(a) = <<"sealights">> \o AppDynamicsWrapper(a)
           /\ Wrappers(a) = <<>> <=> BoundAgents(a) = {}
           /\ Wrappers(a) \in Seq(Agent) /\ AppDynamicsWrapper(a) \in Seq(Agent)
<1>1. BoundAgents(a) \subseteq Agent
  BY AppFields DEF BoundAgents
<1>2. /\ "appdynamics" \in BoundAgents(a) => AppDynamicsWrapper(a) = <<"appdynamics">>
      /\ "appdynamics" \notin BoundAgents(a) => AppDynamicsWrapper(a) = <<>>
      /\ AppDynamicsWrapper(a) \in Seq(Agent) /\ <<"sealights">> \in Seq(Agent)
  <2>1. <<"appdynamics">> \in Seq(Agent) /\ <<"sealights">> \in Seq(Agent) /\ <<>> \in Seq(Agent)
    BY DEF Agent
  <2> QED
    BY <2>1 DEF AppDynamicsWrapper
<1>3. CASE "sealights" \in BoundAgents(a)
  <2>1. Wrappers(a) = <<"sealights">> \o AppDynamicsWrapper(a)
    BY <1>3 DEF Wrappers, AppDynamicsWrapper
  <2>2. Wrappers(a) \in Seq(Agent) /\ Wrappers(a) # <<>>
    BY <1>2, <2>1, ConcatProperties, ConcatEqualIffEmpty
  <2> QED
    BY <1>2, <1>3, <2>1, <2>2
<1>4. CASE "sealights" \notin BoundAgents(a)
  <2>1. Wrappers(a) = <<>> \o AppDynamicsWrapper(a)
    BY <1>4 DEF Wrappers, AppDynamicsWrapper
  <2>2. Wrappers(a) = AppDynamicsWrapper(a)
    BY <1>2, <2>1, ConcatEmptySeq
  <2> QED
    BY <1>1, <1>2, <1>4, <2>2 DEF Agent
<1> QED
  BY <1>3, <1>4

\* The promise speaks of the same agents and wraps the same process.
LEMMA WrappedAsPromised ==
    ASSUME NEW a \in App
    PROVE  Promise!Wrapped(a) = UnderAgents(a.procfile, Wrappers(a))
<1>1. Promise!Wrappers(a) = Wrappers(a) /\ Promise!BoundAgents(a) = BoundAgents(a)
  BY SameApp DEF Promise!Wrappers, Wrappers
<1> QED
  BY <1>1, WrapperCases DEF Promise!Wrapped, UnderAgents

\* One more agent goes outside those that are there.
LEMMA OneMoreAgent ==
    ASSUME NEW p \in Seq(Process), p # <<>>, NEW a \in Agent, NEW agents \in Seq(Agent)
    PROVE  /\ UnderAgents(p, agents) \in Seq(Process) /\ UnderAgents(p, agents) # <<>>
           /\ GenerateStartUpCommand(UnderAgents(p, agents), a) =
                 UnderAgents(p, <<a>> \o agents)
<1>1. 1 \in DOMAIN p /\ p[1] \in Process /\ p[1].agents \in Seq(Agent) /\ p # Absent
  <2>1. Len(p) \in Nat \ {0} /\ p # Absent
    BY EmptySeq, AbsentIsNoValue
  <2>2. 1 \in DOMAIN p /\ p[1] \in Process
    BY <2>1, LenProperties, ElementOfSeq
  <2> QED
    BY <2>1, <2>2 DEF Process
<1>2. /\ <<a>> \o agents \in Seq(Agent) /\ <<a>> \o agents # <<>>
      /\ <<a>> \o <<>> = <<a>>
  OBVIOUS
<1>3. <<a>> \o (agents \o p[1].agents) = (<<a>> \o agents) \o p[1].agents
  <2>1. <<a>> \in Seq(Agent) /\ p[1].agents \in Seq(Agent)
    BY <1>1
  <2>2. \A x, y, z \in Seq(Agent) : (x \o y) \o z = x \o (y \o z)
    BY ConcatAssociative
  <2> QED
    BY <2>1, <2>2, Zenon
<1>4. CASE agents = <<>>
  BY <1>1, <1>2, <1>4 DEF UnderAgents, GenerateStartUpCommand
<1>5. CASE agents # <<>>
  <2> DEFINE first == [type |-> "web", agents |-> agents \o p[1].agents]
             q == [p EXCEPT ![1] = first]
  <2>1. UnderAgents(p, agents) = q
    BY <1>1, <1>5 DEF UnderAgents
  <2>2. first \in Process
    BY <1>1 DEF Process
  <2>3. q \in Seq(Process) /\ q # <<>> /\ q[1] = first
    BY <1>1, <2>2
  <2>4. GenerateStartUpCommand(q, a) =
            [p EXCEPT ![1] = [type |-> "web", agents |-> <<a>> \o (agents \o p[1].agents)]]
    BY <1>1, <2>3 DEF GenerateStartUpCommand
  <2>5. UnderAgents(p, <<a>> \o agents) =
            [p EXCEPT ![1] = [type |-> "web", agents |-> (<<a>> \o agents) \o p[1].agents]]
    BY <1>1, <1>2 DEF UnderAgents
  <2> QED
    BY <1>3, <2>1, <2>3, <2>4, <2>5
<1> QED
  BY <1>4, <1>5

\* An agent's hook on a Procfile that other agents' hooks have seen.
LEMMA AgentWraps ==
    ASSUME TypeOK, NEW a \in Agent, NEW agents \in Seq(Agent), build' = WithAgent(a),
           build.procfile = UnderAgents(app.procfile, agents), app.procfile # <<>>
    PROVE  build'.procfile = UnderAgents(app.procfile, <<a>> \o agents)
<1>1. build'.procfile = IF build.procfile = Absent THEN Absent
                        ELSE GenerateStartUpCommand(build.procfile, a)
  BY DEF WithAgent, TypeOK, Build
<1>2. CASE app.procfile = Absent
  BY <1>1, <1>2 DEF UnderAgents
<1>3. CASE app.procfile # Absent
  <2>1. app.procfile \in Seq(Process)
    BY <1>3, AppFields DEF TypeOK
  <2>2. UnderAgents(app.procfile, agents) # Absent
    BY <2>1, OneMoreAgent, AbsentIsNoValue
  <2> QED
    BY <1>1, <2>1, <2>2, OneMoreAgent
<1> QED
  BY <1>2, <1>3

\* Each hook puts its agent outside; nothing else touches the Procfile.
LEMMA ProcfileStep ==
    ASSUME TypeOK, ProcfileInv, Work PROVE ProcfileInv'
<1>0. Flow /\ app' = app /\ app \in App
  BY WorkFlows DEF TypeOK
<1>1. CASE pc = "AppDynamics"
  <2>1. pc' = "AppHook" /\ build.procfile = app.procfile
    BY <1>0, <1>1 DEF Flow, ProcfileInv
  <2>2. build.procfile = UnderAgents(app.procfile, <<>>)
    BY <2>1 DEF UnderAgents
  <2>3. CASE AppDynamicsBeforeCompile
    <3>1. "appdynamics" \in BoundAgents(app) /\ app.procfile # <<>>
          /\ build' = WithAgent("appdynamics")
      BY <2>1, <2>3 DEF AppDynamicsBeforeCompile, UsesAppDynamics, ProcfileAccepted, BoundAgents
    <3>2. "appdynamics" \in Agent /\ <<>> \in Seq(Agent)
          /\ <<"appdynamics">> \o <<>> = <<"appdynamics">>
      BY DEF Agent
    <3>3. build'.procfile = UnderAgents(app.procfile, <<"appdynamics">> \o <<>>)
      BY <2>2, <3>1, <3>2, AgentWraps
    <3>4. build'.procfile = UnderAgents(app.procfile, AppDynamicsWrapper(app))
      BY <3>1, <3>2, <3>3 DEF AppDynamicsWrapper
    <3> QED
      BY <1>0, <2>1, <3>1, <3>4 DEF ProcfileInv, BeforeSupply
  <2>4. CASE AppDynamicsSkipped
    <3>1. "appdynamics" \notin BoundAgents(app) /\ build' = build
      BY <2>4 DEF AppDynamicsSkipped, UsesAppDynamics, BoundAgents
    <3> QED
      BY <1>0, <2>1, <2>2, <3>1 DEF ProcfileInv, BeforeSupply, AppDynamicsWrapper
  <2> QED
    BY <1>1, <2>3, <2>4, StepAt
<1>2. CASE pc = "AppHook"
  <2>1. pc' = "Sealights" /\ build'.procfile = build.procfile
    BY <1>0, <1>2, BuildFrame DEF Flow
  <2> QED
    BY <1>0, <1>2, <2>1 DEF ProcfileInv, BeforeSupply
<1>3. CASE pc = "Sealights"
  <2>1. /\ pc' = "MakeDepDirs"
        /\ build.procfile = UnderAgents(app.procfile, AppDynamicsWrapper(app))
        /\ "appdynamics" \in BoundAgents(app) => app.procfile # <<>>
    BY <1>0, <1>3 DEF Flow, ProcfileInv
  <2>2. AppDynamicsWrapper(app) \in Seq(Agent) /\ BoundAgents(app) \subseteq Agent
    BY <1>0, WrapperCases, AppFields DEF BoundAgents
  <2>3. CASE SealightsBeforeCompile
    <3>1. "sealights" \in BoundAgents(app) /\ build' = WithAgent("sealights")
          /\ build.procfile # <<>>
      BY <2>3 DEF SealightsBeforeCompile, ProcfileAccepted, BoundAgents
    <3>2. app.procfile # <<>>
      BY <2>1, <3>1 DEF UnderAgents, AppDynamicsWrapper
    <3>3. build'.procfile = UnderAgents(app.procfile, <<"sealights">> \o AppDynamicsWrapper(app))
      BY <2>1, <2>2, <3>1, <3>2, AgentWraps DEF Agent
    <3>4. build'.procfile = UnderAgents(app.procfile, Wrappers(app))
      BY <1>0, <3>1, <3>3, WrapperCases
    <3> QED
      BY <1>0, <2>1, <3>2, <3>4 DEF ProcfileInv, BeforeSupply
  <2>4. CASE SealightsSkipped
    <3>1. "sealights" \notin BoundAgents(app) /\ build' = build
      BY <2>4 DEF SealightsSkipped, BoundAgents
    <3>2. Wrappers(app) = AppDynamicsWrapper(app)
      BY <1>0, <3>1, WrapperCases
    <3>3. BoundAgents(app) # {} => "appdynamics" \in BoundAgents(app)
      BY <2>2, <3>1 DEF Agent
    <3> QED
      BY <1>0, <2>1, <3>1, <3>2, <3>3 DEF ProcfileInv, BeforeSupply
  <2> QED
    BY <1>3, <2>3, <2>4, StepAt
<1>4. CASE pc \notin BeforeSupply
  <2>1. build'.procfile = build.procfile /\ pc' \notin BeforeSupply /\ pc # "failed"
    BY <1>0, <1>4, BuildFrame DEF Flow, BeforeSupply
  <2> QED
    BY <1>0, <1>4, <2>1 DEF ProcfileInv, BeforeSupply
<1> QED
  BY <1>1, <1>2, <1>3, <1>4 DEF BeforeSupply

-----------------------------------------------------------------------------
(* The droplet.                                                            *)

\* InstallPython and "conda env update" bring the runtime; finalize replaces the
\* paths in .pth files.
LEMMA RuntimeStep ==
    ASSUME TypeOK, Route, RuntimeInv, Work PROVE RuntimeInv'
<1>0. Flow /\ app' = app /\ dep \in Dep
  BY WorkFlows DEF TypeOK
<1> USE DEF BeforeNltk, WithScript, WithFixeggs
<1>1. CASE pc = "InstallPython"
  <2>1. pc' = "InstallPip" /\ ~app.conda /\ dep'.conda = dep.conda
    BY <1>0, <1>1, DepFrame DEF Flow, Route, PythonSteps
  <2>2. dep'.python # Absent
    BY <1>0, <1>1, StepAt DEF InstallPython, LinkBin, Dep
  <2> QED
    BY <1>0, <2>1, <2>2 DEF RuntimeInv
<1>2. CASE pc \in {"CondaInstall", "CondaUpdateAndClean"}
  <2>1. pc' \in CondaSteps /\ app.conda /\ dep'.python = dep.python
    BY <1>0, <1>2, DepFrame DEF Flow, Route, CondaSteps
  <2>2. pc' = "CondaProfile" => dep'.conda = "updated"
    BY <1>0, <1>2, StepAt DEF Flow, CondaUpdateAndClean, Dep
  <2> QED
    BY <1>0, <2>1, <2>2 DEF RuntimeInv, CondaSteps
<1>3. CASE pc = "ReplaceDepsDirWithLiteral"
  <2>1. pc' = "ReplaceLiteralWithDepsDirAtRuntime" /\ dep'.python = dep.python
        /\ dep'.conda = dep.conda
    BY <1>0, <1>3, DepFrame DEF Flow
  <2>2. dep'.pth # "absolute"
    BY <1>0, <1>3, StepAt DEF ReplaceDepsDirWithLiteral, Dep
  <2> QED
    BY <1>0, <1>3, <2>1, <2>2 DEF RuntimeInv
<1>4. CASE pc \notin {"InstallPython", "CondaInstall", "CondaUpdateAndClean",
                      "ReplaceDepsDirWithLiteral"}
  <2>1. dep'.python = dep.python /\ dep'.conda = dep.conda
    BY <1>4, DepFrame
  <2>2. pc \in {"ReplaceLiteralWithDepsDirAtRuntime"} \cup WithFixeggs => dep'.pth = dep.pth
    BY DepFrame
  <2> QED
    BY <1>0, <1>4, <2>1, <2>2 DEF RuntimeInv, Flow, Route, CondaSteps
<1> QED
  BY <1>1, <1>2, <1>3, <1>4

\* Four steps write a launch script.
LEMMA LaunchStep ==
    ASSUME TypeOK, Route, LaunchInv, Work PROVE LaunchInv'
<1>0. Flow /\ app' = app
  BY WorkFlows
<1> USE DEF BeforeScript, BeforePython, BeforeNltk, CondaSteps, WithScript, WithFixeggs
<1>1. CASE pc = "AppDynamics"
  BY <1>0, <1>1, ProfileFrame DEF Flow, LaunchInv, AppDynamicsScript
<1>2. CASE pc = "CreateDefaultEnv"
  <2>1. pc' = "RemoveGenerated" /\ ~app.conda /\ dep.profile = AppDynamicsScript(app)
    BY <1>0, <1>2 DEF Flow, Route, PythonSteps, LaunchInv
  <2>2. dep'.profile = dep.profile \cup {"python.sh"} \cup
                           (IF proc.HasNltkData THEN {"export NLTK_DATA"} ELSE {})
    BY <1>2, ProfileFrame
  <2>3. dep'.profile \ {"export NLTK_DATA"} = AppDynamicsScript(app) \cup RuntimeScript(app)
    BY <2>1, <2>2 DEF AppDynamicsScript, RuntimeScript
  <2> QED
    BY <1>0, <2>1, <2>3 DEF LaunchInv, AppDynamicsScript, RuntimeScript
<1>3. CASE pc = "CondaProfile"
  <2>1. pc' = "CompleteSupply" /\ app.conda /\ dep.profile = AppDynamicsScript(app)
        /\ dep'.profile = dep.profile \cup {"conda.sh"}
    BY <1>0, <1>3, ProfileFrame DEF Flow, Route, LaunchInv
  <2>2. dep'.profile \ {"export NLTK_DATA"} = AppDynamicsScript(app) \cup RuntimeScript(app)
    BY <2>1 DEF AppDynamicsScript, RuntimeScript
  <2> QED
    BY <1>0, <2>1, <2>2 DEF LaunchInv, AppDynamicsScript, RuntimeScript
<1>4. CASE pc = "ReplaceLiteralWithDepsDirAtRuntime"
  <2>1. pc' = "PostCompile" /\ dep'.profile = dep.profile \cup {"python.fixeggs.sh"}
        /\ dep.profile \ {"export NLTK_DATA"} = AppDynamicsScript(app) \cup RuntimeScript(app)
    BY <1>0, <1>4, ProfileFrame DEF Flow, LaunchInv
  <2>2. dep'.profile \ {"export NLTK_DATA"} =
            AppDynamicsScript(app) \cup RuntimeScript(app) \cup {"python.fixeggs.sh"}
    BY <2>1
  <2> QED
    BY <1>0, <2>1, <2>2 DEF LaunchInv, AppDynamicsScript, RuntimeScript
<1>5. CASE pc \notin {"AppDynamics", "CreateDefaultEnv", "CondaProfile",
                      "ReplaceLiteralWithDepsDirAtRuntime"}
  <2>1. dep'.profile = dep.profile
    BY <1>5, DepFrame
  <2> QED
    BY <1>0, <1>5, <2>1 DEF LaunchInv, Flow, AppDynamicsScript, RuntimeScript
<1> QED
  BY <1>1, <1>2, <1>3, <1>4, <1>5

\* No step takes a package out of site-packages.
LEMMA CorporaStep ==
    ASSUME TypeOK, CorporaInv, Work PROVE CorporaInv'
<1>0. app' = app /\ dep \in Dep
  BY WorkFlows DEF TypeOK
<1>1. dep.site \subseteq dep'.site
  <2>1. CASE pc \in {"InstallPip", "InstallPipEnv", "RunPip"}
    <3>1. dep' = dep \/ InstallPip \/ PipenvLock \/ RunPipUnvendored \/ RunPipVendored
      BY <2>1, StepAt DEF InstallPipEnvSkipped, PipfileToRequirements, RunPipSkipped
    <3> QED
      BY <3>1, PipFrame
  <2>2. CASE pc = "InstallPython"
    <3>1. dep'.site = dep.site \cup {"pip"}
      BY <1>0, <2>2, StepAt DEF InstallPython, LinkBin, Dep
    <3> QED
      BY <3>1
  <2>3. CASE pc \notin {"InstallPython", "InstallPip", "InstallPipEnv", "RunPip"}
    BY <2>3, DepFrame
  <2> QED
    BY <2>1, <2>2, <2>3
<1>2. CASE pc = "DownloadNLTKCorpora"
  <2>1. dep'.nltkData = dep.nltkData \/ (app.nltk /\ "nltk" \in dep.site)
    BY <1>2, StepAt DEF DownloadNLTKCorporaSkipped, DownloadNLTKCorpora
  <2> QED
    BY <1>0, <1>1, <2>1 DEF CorporaInv
<1>3. CASE pc # "DownloadNLTKCorpora"
  BY <1>0, <1>1, <1>3, DepFrame DEF CorporaInv
<1> QED
  BY <1>2, <1>3

PromiseInv ==
    /\ VersionOnItsWay /\ NltkOnItsWay
    /\ RequirementsInv /\ SiteInv
    /\ ProcfileInv /\ RuntimeInv /\ LaunchInv /\ CorporaInv

\* All that the droplet rests on, in every reachable state.
LEMMA PromiseInvariance == Spec => [](TypeOK /\ Route /\ PromiseInv)
<1>1. Init => ProcfileInv /\ RuntimeInv /\ LaunchInv /\ CorporaInv
  BY DEF Init, ProcfileInv, RuntimeInv, LaunchInv, CorporaInv, BeforeSupply, BeforeScript,
         BeforePython, BeforeNltk, CondaSteps, WithScript, WithFixeggs
<1>2. ProcfileInv /\ (Fail \/ UNCHANGED vars) => ProcfileInv'
  BY DEF Fail, vars, ProcfileInv, BeforeSupply
<1>3. /\ RuntimeInv /\ (Fail \/ UNCHANGED vars) => RuntimeInv'
      /\ CorporaInv /\ (Fail \/ UNCHANGED vars) => CorporaInv'
  BY DEF Fail, vars, RuntimeInv, CorporaInv, BeforeNltk, WithScript, WithFixeggs
<1>4. LaunchInv /\ (Fail \/ UNCHANGED vars) => LaunchInv'
  BY DEF Fail, vars, LaunchInv, AppDynamicsScript, RuntimeScript, BeforeScript, BeforePython,
         BeforeNltk, CondaSteps, WithScript, WithFixeggs
<1>5. TypeOK /\ Route /\ ProcfileInv /\ RuntimeInv /\ LaunchInv /\ CorporaInv /\ [Next]_vars
        => (ProcfileInv /\ RuntimeInv /\ LaunchInv /\ CorporaInv)'
  BY <1>2, <1>3, <1>4, ProcfileStep, RuntimeStep, LaunchStep, CorporaStep DEF Next
<1>6. Spec => [](ProcfileInv /\ RuntimeInv /\ LaunchInv /\ CorporaInv)
  BY <1>1, <1>5, TypesAndRoute, PTL DEF Spec
<1>7. (TypeOK /\ Route /\ VersionOnItsWay) /\ (TypeOK /\ Route /\ NltkOnItsWay)
        /\ (TypeOK /\ Route /\ RequirementsInv /\ SiteInv)
        /\ (ProcfileInv /\ RuntimeInv /\ LaunchInv /\ CorporaInv)
        => TypeOK /\ Route /\ PromiseInv
  BY DEF PromiseInv
<1> QED
  BY <1>6, <1>7, VersionInvariance, NltkInvariance, PackagesInvariance, PTL

(***************************************************************************)
(* The first process of the Procfile runs under Sealights, then            *)
(* AppDynamics, as far as they are bound, then whatever the app runs it    *)
(* under; every other process is as it was pushed (GenerateStartUpCommand  *)
(* of both hooks, on Procfiles of any length).                             *)
(***************************************************************************)
THEOREM AgentsWrapFirstProcess == Spec => []AgentsRunFirstProcess
<1>1. TypeOK /\ ProcfileInv => AgentsRunFirstProcess
  <2> SUFFICES ASSUME TypeOK, ProcfileInv, Staged, app.procfile # Absent, BoundAgents(app) # {}
               PROVE  /\ build.procfile[1].type = "web"
                      /\ build.procfile[1].agents = Wrappers(app) \o app.procfile[1].agents
                      /\ Len(build.procfile) = Len(app.procfile)
                      /\ \A i \in 2 .. Len(app.procfile) : build.procfile[i] = app.procfile[i]
    BY DEF AgentsRunFirstProcess
  <2>1. app \in App /\ app.procfile \in Seq(Process)
    BY AppFields DEF TypeOK
  <2>2. build.procfile = UnderAgents(app.procfile, Wrappers(app)) /\ app.procfile # <<>>
    BY DEF ProcfileInv, Staged, BeforeSupply
  <2>3. Wrappers(app) # <<>> /\ Wrappers(app) \in Seq(Agent)
    BY <2>1, WrapperCases
  <2> DEFINE p == app.procfile
             first == [type |-> "web", agents |-> Wrappers(app) \o p[1].agents]
  <2>4. build.procfile = [p EXCEPT ![1] = first]
    BY <2>2, <2>3 DEF UnderAgents
  <2>5. Len(p) \in Nat \ {0} /\ 1 \in 1 .. Len(p)
    BY <2>1, <2>2, EmptySeq
  <2>6. first \in Process
    <3>1. p[1] \in Process
      BY <2>1, <2>5, ElementOfSeq
    <3>2. Wrappers(app) \o p[1].agents \in Seq(Agent)
      BY <2>3, <3>1, ConcatProperties DEF Process
    <3> QED
      BY <3>2 DEF Process
  <2>7. /\ Len(build.procfile) = Len(p)
        /\ \A j \in 1 .. Len(p) : build.procfile[j] = IF j = 1 THEN first ELSE p[j]
    BY <2>1, <2>4, <2>5, <2>6, ExceptSeq
  <2>8. build.procfile[1] = first
    BY <2>5, <2>7
  <2>9. ASSUME NEW i \in 2 .. Len(p) PROVE build.procfile[i] = p[i]
    <3>1. i \in 1 .. Len(p) /\ i # 1
      BY <2>5
    <3> QED
      BY <2>7, <3>1
  <2> QED
    BY <2>7, <2>8, <2>9
<1> QED
  BY <1>1, PromiseInvariance, PTL DEF PromiseInv

(***************************************************************************)
(* A droplet has python or conda, never both and never neither, with the   *)
(* launch scripts of the one it has and no path of the staging container   *)
(* in a .pth file.                                                         *)
(***************************************************************************)
THEOREM OneRuntimeIsLaunched == Spec => []LaunchesOneRuntime
<1>1. PromiseInv => LaunchesOneRuntime
  <2> SUFFICES ASSUME PromiseInv, Staged
               PROVE  /\ (dep.python = Absent) = (dep.conda = "updated")
                      /\ ("python.sh" \in build.launch) = (dep.python # Absent)
                      /\ ("conda.sh" \in build.launch) = (dep.python = Absent)
                      /\ dep.pth # "absolute"
                      /\ "python.fixeggs.sh" \in build.launch
    BY DEF LaunchesOneRuntime
  <2>1. /\ IF app.conda THEN dep.python = Absent ELSE dep.conda # "updated"
        /\ IF app.conda THEN dep.conda = "updated" ELSE dep.python # Absent
        /\ dep.pth # "absolute"
    BY DEF PromiseInv, RuntimeInv, Staged, WithFixeggs
  <2>2. build.launch \ {"export NLTK_DATA"} =
            AppDynamicsScript(app) \cup RuntimeScript(app) \cup {"python.fixeggs.sh"}
    BY DEF PromiseInv, NltkOnItsWay, LaunchInv, Staged, WithFixeggs
  <2>3. /\ "python.sh" \in build.launch <=> ~app.conda
        /\ "conda.sh" \in build.launch <=> app.conda
        /\ "python.fixeggs.sh" \in build.launch
    <3>1. \A x \in Script \ {"export NLTK_DATA"} : x \in build.launch <=>
              x \in AppDynamicsScript(app) \cup RuntimeScript(app) \cup {"python.fixeggs.sh"}
      BY <2>2
    <3>2. {"python.sh", "conda.sh", "python.fixeggs.sh"} \subseteq Script \ {"export NLTK_DATA"}
      BY DEF Script
    <3>3. /\ "python.sh" \in RuntimeScript(app) <=> ~app.conda
          /\ "conda.sh" \in RuntimeScript(app) <=> app.conda
          /\ {"python.sh", "conda.sh"} \cap AppDynamicsScript(app) = {}
      BY DEF AppDynamicsScript, RuntimeScript
    <3> QED
      BY <3>1, <3>2, <3>3
  <2> QED
    BY <2>1, <2>3
<1> QED
  BY <1>1, PromiseInvariance, PTL

-----------------------------------------------------------------------------
(* The abstract specification.                                             *)

\* The droplet of a staging that ends well is one the promise allows.
LEMMA DropletHonours == TypeOK /\ PromiseInv /\ Staged => Promise!Honours(app, Droplet)
<1> SUFFICES ASSUME TypeOK, PromiseInv, Staged PROVE Promise!Honours(app, Droplet)
  OBVIOUS
<1>0. app \in App /\ dep \in Dep /\ app.conda \in BOOLEAN
  BY DEF TypeOK, App
<1>1. /\ Droplet.conda = (dep.conda = "updated") /\ Droplet.python = dep.python
      /\ Droplet.site = dep.site /\ Droplet.procfile = build.procfile
      /\ Droplet.launch = build.launch
  BY DEF Droplet
<1>2. (dep.conda = "updated") = app.conda
  BY <1>0 DEF PromiseInv, RuntimeInv, Staged, WithFixeggs
<1>3. dep.python = IF app.conda THEN Absent ELSE Promise!RequestedPython(app)
  <2>1. Promise!RequestedPython(app) = RequestedPython(app)
    BY DEF Promise!RequestedPython, RequestedPython
  <2> QED
    BY <2>1 DEF PromiseInv, RuntimeInv, VersionOnItsWay, AfterNltk, Staged
<1>4. /\ IF app.conda THEN dep.site = {} ELSE Promise!Owed(app) \subseteq dep.site
      /\ dep.site \subseteq Promise!Owed(app) \cup Promise!Tools(app)
  BY DEF PromiseInv, SiteInv, AfterPip, Staged
<1>5. build.procfile = Promise!Wrapped(app)
  BY <1>0, WrappedAsPromised DEF PromiseInv, ProcfileInv, BeforeSupply, Staged
<1>6. build.launch = dep.profile
  BY DEF PromiseInv, NltkOnItsWay, Staged
<1>7. build.launch \ {"export NLTK_DATA"} = Promise!LaunchScripts(app)
  <2>1. dep.profile \ {"export NLTK_DATA"} =
            AppDynamicsScript(app) \cup RuntimeScript(app) \cup {"python.fixeggs.sh"}
    BY DEF PromiseInv, LaunchInv, WithFixeggs, Staged
  <2>2. Promise!LaunchScripts(app) =
            AppDynamicsScript(app) \cup RuntimeScript(app) \cup {"python.fixeggs.sh"}
    BY SameApp DEF Promise!LaunchScripts, AppDynamicsScript, RuntimeScript
  <2> QED
    BY <1>6, <2>1, <2>2
<1>8. "export NLTK_DATA" \in build.launch => app.nltk /\ "nltk" \in dep.site
  BY <1>6 DEF PromiseInv, NltkOnItsWay, CorporaInv, AfterNltk, Staged
<1> QED
  BY <1>1, <1>2, <1>3, <1>4, <1>5, <1>7, <1>8 DEF Promise!Honours

(***************************************************************************)
(* Staging implements StagingPromise: the last step of a staging yields a  *)
(* droplet that honours what the app asked for, an error yields none, and  *)
(* every other step is invisible.                                          *)
(***************************************************************************)
THEOREM StagingKeepsPromise == Spec => KeepsPromise
<1>1. Init => Promise!Init
  BY DEF Init, Promise!Init, Staged
<1>2. (TypeOK /\ PromiseInv /\ Staged => Promise!Honours(app, Droplet))'
  BY DropletHonours, PTL
<1>3. ASSUME TypeOK, (TypeOK /\ Route /\ PromiseInv)', [Next]_vars
      PROVE  [Promise!Next]_Promise!vars
  <2>1. CASE Work /\ pc = "SetLaunchEnvironment"
    <3>1. pc' = "done" /\ app' = app
      BY <2>1, WorkFlows DEF Flow
    <3>2. Promise!Honours(app, Droplet')
      BY <1>2, <1>3, <3>1 DEF Staged
    <3>3. Promise!Stage
      BY <2>1, <3>1, <3>2 DEF Promise!Stage, Staged
    <3> QED
      BY <3>3 DEF Promise!Next
  <2>2. CASE Work /\ pc # "SetLaunchEnvironment"
    <3>1. pc \notin {"done", "failed"} /\ pc' \notin {"done", "failed"} /\ app' = app
      BY <2>2, WorkFlows DEF Flow
    <3>2. UNCHANGED Promise!vars
      BY <3>1 DEF Promise!vars, Staged
    <3> QED
      BY <3>2
  <2>3. CASE Fail
    <3>1. pc \notin {"done", "failed"} /\ pc' = "failed" /\ app' = app
      BY <2>3 DEF Fail, Step
    <3>2. Promise!Reject
      BY <3>1 DEF Promise!Reject, Staged
    <3> QED
      BY <3>2 DEF Promise!Next
  <2>4. CASE UNCHANGED vars
    BY <2>4 DEF vars, Promise!vars, Staged, Droplet
  <2> QED
    BY <1>3, <2>1, <2>2, <2>3, <2>4 DEF Next
<1> QED
  BY <1>1, <1>3, PromiseInvariance, PTL DEF Spec, KeepsPromise, Promise!Spec

=============================================================================
