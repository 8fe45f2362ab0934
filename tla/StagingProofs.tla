---------------------------- MODULE StagingProofs ---------------------------
(***************************************************************************)
(* Safety of Staging for every app, package set and manifest: packages     *)
(* declared are installed, and the native libraries they are built with    *)
(* are there in time.                                                      *)
(***************************************************************************)
EXTENDS StagingTypeProofs

-----------------------------------------------------------------------------
(* What the app is owed, on its way through the build directory: the       *)
(* invariant says at each step which file has exactly that.                *)

\* From the hooks to InstallPipEnv; from HandlePylibmc to pip; from pip to the end.
BeforePython == {"AppDynamics", "AppHook", "Sealights", "MakeDepDirs", "SetStagingEnvironment",
                 "Run", "SetupCacheDir", "CopyRuntimeTxt", "HandlePipfile", "InstallPython"}
BeforePipEnv == {"MakeDepDirs", "SetStagingEnvironment", "Run", "SetupCacheDir", "CopyRuntimeTxt",
                 "HandlePipfile", "InstallPython", "InstallPip", "InstallPipEnv"}
BeforePip == {"HandlePylibmc", "HandleFfi", "UninstallUnusedDependencies", "RunPip"}
AfterPip == {"DownloadNLTKCorpora", "RewriteShebangs", "CreateDefaultEnv", "RemoveGenerated",
             "CompleteSupply", "FinalizeEnvironment", "HandleCollectstatic",
             "ReplaceDepsDirWithLiteral", "ReplaceLiteralWithDepsDirAtRuntime", "PostCompile",
             "SetLaunchEnvironment", "done"}

NoRequirementstxt == build.reqs[Top] = Absent
InRequirementstxt(pkgs) == ~NoRequirementstxt /\ PackagesOf(build.reqs) = pkgs

AppDynamicsPackages(a) == IF "appdynamics" \in BoundAgents(a) THEN {"appdynamics"} ELSE {}
SealightsPackages(a) ==
    IF "sealights" \in BoundAgents(a) THEN {"sealights-python-agent"} ELSE {}

\* What requirements.txt names when bin/pre_compile has run.
PreCompiled(a) ==
    IF a.preCompile # Absent THEN a.preCompile ELSE PackagesOf(a.reqs) \cup AppDynamicsPackages(a)

\* The hooks leave a requirements.txt.
FromHooks(a) == HasRequirements(a) \/ BoundAgents(a) # {}

RequirementsInv ==
    /\ pc = "AppDynamics" => build.reqs = app.reqs
    /\ pc = "AppHook" =>
          IF app.reqs[Top] # Absent \/ "appdynamics" \in BoundAgents(app)
          THEN InRequirementstxt(PackagesOf(app.reqs) \cup AppDynamicsPackages(app))
          ELSE NoRequirementstxt
    /\ pc = "Sealights" =>
          IF HasRequirements(app) \/ "appdynamics" \in BoundAgents(app)
          THEN InRequirementstxt(PreCompiled(app)) ELSE NoRequirementstxt
    /\ pc \in BeforePipEnv \cup CondaSteps =>
          IF FromHooks(app) THEN InRequirementstxt(Promise!Owed(app)) ELSE NoRequirementstxt
    /\ pc = "HandleRequirementstxt" =>
          IF FromHooks(app) \/ app.pipfile # Absent
          THEN InRequirementstxt(Promise!Owed(app)) ELSE NoRequirementstxt
    /\ pc \in BeforePip =>
          InRequirementstxt(Promise!Owed(app)) \/ (NoRequirementstxt /\ Promise!Owed(app) = {})
    /\ pc \in BeforePip \cup AfterPip /\ FromHooks(app) => InRequirementstxt(Promise!Owed(app))
    /\ FromHooks(app) => ~proc.removeRequirementsText

\* site-packages have nothing, then perhaps tools, then all that is owed.
SiteInv ==
    /\ pc \in BeforePython \cup CondaSteps => dep.site = {}
    /\ pc \in {"InstallPip", "InstallPipEnv", "HandleRequirementstxt"} \cup BeforePip =>
          dep.site \subseteq Promise!Tools(app)
    /\ pc \in AfterPip =>
          IF app.conda THEN dep.site = {}
          ELSE /\ Promise!Owed(app) \subseteq dep.site
               /\ dep.site \subseteq Promise!Owed(app) \cup Promise!Tools(app)

-----------------------------------------------------------------------------
(* Native libraries: installed, announced and on the search paths.         *)

BeforeRun == {"AppDynamics", "AppHook", "Sealights", "MakeDepDirs", "SetStagingEnvironment"}
FromRun == {"Run", "SetupCacheDir", "CopyRuntimeTxt", "HandlePipfile", "InstallPython",
            "InstallPip", "InstallPipEnv", "HandleRequirementstxt"} \cup BeforePip

LibrariesInv ==
    /\ dep.libffi \in {0, 1}
    /\ pc \in BeforeRun \cup FromRun => ("LIBFFI" \in proc.environ <=> dep.libffi = 1)
    /\ pc \in BeforeRun => dep.env = {}
    /\ pc = "SetStagingEnvironment" => dep.dirs = Subdir
    /\ pc \in FromRun => Subdir \subseteq proc.paths
    /\ pc \in BeforePip \ {"HandlePylibmc"} /\ FindAnyPackage(build.reqs, {"pylibmc"}) =>
          dep.libmemcache > 0 /\ "LIBMEMCACHED" \in proc.environ
    /\ pc \in {"UninstallUnusedDependencies", "RunPip"} /\ FindAnyPackage(build.reqs, FfiNames) =>
          dep.libffi = 1

-----------------------------------------------------------------------------
\* What an app declares, by the file that comes first.
LEMMA DeclaredCases ==
    ASSUME NEW a \in App
    PROVE  /\ a.preCompile # Absent => Declared(a) = a.preCompile
           /\ a.preCompile = Absent /\ a.reqs[Top] # Absent => Declared(a) = PackagesOf(a.reqs)
           /\ ~HasRequirements(a) /\ a.pipfile # Absent =>
                 Declared(a) = IF a.lock # Absent THEN a.lock.pkgs ELSE a.pipfile
           /\ ~HasRequirements(a) /\ a.pipfile = Absent =>
                 Declared(a) = IF a.setup THEN {Self} ELSE {}
<1>1. a.preCompile # Absent => Declared(a) = a.preCompile
  BY DEF Declared, HasRequirements
<1>2. a.preCompile = Absent /\ a.reqs[Top] # Absent => Declared(a) = PackagesOf(a.reqs)
  BY DEF Declared, HasRequirements
<1>3. ~HasRequirements(a) /\ a.pipfile # Absent =>
         Declared(a) = IF a.lock # Absent THEN a.lock.pkgs ELSE a.pipfile
  BY DEF Declared, HasRequirements
<1>4. a.setup \in BOOLEAN
  BY DEF App
<1>5. ~HasRequirements(a) /\ a.pipfile = Absent =>
         Declared(a) = IF a.setup THEN {Self} ELSE {}
  BY <1>4 DEF Declared, HasRequirements
<1> QED
  BY <1>1, <1>2, <1>3, <1>5

\* The promise reads a pushed app as staging does.
LEMMA SameApp ==
    ASSUME NEW a
    PROVE  /\ Promise!BoundAgents(a) = BoundAgents(a)
           /\ Promise!HasRequirements(a) = HasRequirements(a)
           /\ Promise!Declared(a) = Declared(a)
<1>1. \A t : Promise!PackagesOf(t) = PackagesOf(t)
  BY DEF Promise!PackagesOf, Promise!Reach, Promise!Closed, Promise!Includes,
         PackagesOf, Reach, Closed, Includes
<1>2. Promise!HasRequirements(a) = HasRequirements(a)
  BY DEF Promise!HasRequirements, HasRequirements
<1>3. Promise!Declared(a) = Declared(a)
  BY <1>1, <1>2 DEF Promise!Declared, Declared, Promise!Self, Self
<1>4. Promise!BoundAgents(a) = BoundAgents(a)
  BY DEF Promise!BoundAgents, BoundAgents
<1> QED
  BY <1>2, <1>3, <1>4

\* What is owed: what the hooks leave in requirements.txt, or what is declared elsewhere.
LEMMA OwedCases ==
    ASSUME NEW a \in App
    PROVE  /\ FromHooks(a) => Promise!Owed(a) = PreCompiled(a) \cup SealightsPackages(a)
           /\ ~FromHooks(a) => Promise!Owed(a) = Declared(a)
<1> DEFINE agents == {x \in BoundAgents(a) : x = "sealights" \/ a.preCompile = Absent}
           pkgs == {AgentPackage[x] : x \in agents}
<1>1. BoundAgents(a) \subseteq {"appdynamics", "sealights"}
  BY AppFields DEF BoundAgents, Agent
<1>2. pkgs = SealightsPackages(a) \cup
             (IF a.preCompile = Absent THEN AppDynamicsPackages(a) ELSE {})
  <2>1. AgentPackage["appdynamics"] = "appdynamics"
        /\ AgentPackage["sealights"] = "sealights-python-agent"
    BY DEF AgentPackage
  <2>2. \A q : q \in pkgs <=> \E x \in BoundAgents(a) :
                 (x = "sealights" \/ a.preCompile = Absent) /\ q = AgentPackage[x]
    OBVIOUS
  <2> QED
    BY <1>1, <2>1, <2>2 DEF SealightsPackages, AppDynamicsPackages
<1>3. Promise!Owed(a) = pkgs \cup
          (IF BoundAgents(a) = {} \/ HasRequirements(a) THEN Declared(a) ELSE {})
  BY SameApp DEF Promise!Owed, Promise!AgentPackages, Promise!InstalledAgents,
                 Promise!AgentPackage, AgentPackage
<1>4. ASSUME FromHooks(a) PROVE Promise!Owed(a) = PreCompiled(a) \cup SealightsPackages(a)
  <2>1. CASE a.preCompile # Absent
    BY <1>2, <1>3, <2>1, DeclaredCases DEF HasRequirements, PreCompiled
  <2>2. CASE a.preCompile = Absent /\ a.reqs[Top] # Absent
    BY <1>2, <1>3, <2>2, DeclaredCases DEF HasRequirements, PreCompiled
  <2>3. CASE ~HasRequirements(a)
    <3>1. BoundAgents(a) # {} /\ a.preCompile = Absent /\ PackagesOf(a.reqs) = {}
      BY <1>4, <2>3, AppFields, PackagesOfNone DEF FromHooks, HasRequirements
    <3> QED
      BY <1>2, <1>3, <2>3, <3>1 DEF PreCompiled
  <2> QED
    BY <2>1, <2>2, <2>3 DEF HasRequirements
<1>5. ASSUME ~FromHooks(a) PROVE Promise!Owed(a) = Declared(a)
  <2>1. pkgs = {} /\ BoundAgents(a) = {}
    BY <1>5 DEF FromHooks
  <2> QED
    BY <1>3, <2>1
<1> QED
  BY <1>4, <1>5

\* GenerateRequirements writes what it is given.
LEMMA GeneratedFile ==
    ASSUME TypeOK, NEW pkgs \in SUBSET Package, NEW index \in BOOLEAN,
           GenerateRequirements(pkgs, index)
    PROVE  InRequirementstxt(pkgs)'
<1>1. build.reqs \in Tree /\ build'.reqs = WithFile(build.reqs, pkgs)
  BY GeneratedType DEF TypeOK, Build
<1> QED
  BY <1>1, WithFileType, PackagesWithFile DEF InRequirementstxt, NoRequirementstxt

\* An agent's hook adds the agent's package to what requirements.txt names.
LEMMA AgentAdds ==
    ASSUME TypeOK, NEW a \in Agent, build' = WithAgent(a)
    PROVE  /\ build'.reqs[Top] # Absent
           /\ PackagesOf(build'.reqs) = PackagesOf(build.reqs) \cup {AgentPackage[a]}
<1>1. build.reqs \in Tree /\ AgentPackage[a] \in Package
  BY PackageAssumption DEF TypeOK, Build, Agent, AgentPackage
<1>2. build'.reqs = WithPackage(build.reqs, AgentPackage[a])
  BY DEF WithAgent, TypeOK, Build
<1> QED
  BY <1>1, <1>2, WithPackageType, PackagesWithPackage

\* The hooks bring into requirements.txt what they should, bin/pre_compile in
\* place of what was there.
LEMMA RequirementsHooks ==
    ASSUME TypeOK, RequirementsInv, Work, pc \in {"AppDynamics", "AppHook", "Sealights"}
    PROVE  RequirementsInv'
<1>0. /\ Flow /\ app' = app /\ app \in App /\ build.reqs \in Tree
      /\ proc'.removeRequirementsText = proc.removeRequirementsText
  BY WorkFlows, ProcFrame DEF TypeOK, Build
<1> USE DEF RequirementsInv, BeforePipEnv, CondaSteps, BeforePip, AfterPip, Flow
<1>1. CASE pc = "AppDynamics"
  <2>1. pc' = "AppHook" /\ build.reqs = app.reqs
    BY <1>0, <1>1
  <2>2. CASE AppDynamicsBeforeCompile
    <3>1. "appdynamics" \in BoundAgents(app) /\ build' = WithAgent("appdynamics")
      BY <2>2 DEF AppDynamicsBeforeCompile, UsesAppDynamics, BoundAgents
    <3>2. /\ build'.reqs[Top] # Absent
          /\ PackagesOf(build'.reqs) = PackagesOf(app.reqs) \cup {AgentPackage["appdynamics"]}
      BY <2>1, <3>1, AgentAdds DEF Agent
    <3> QED
      BY <1>0, <2>1, <3>1, <3>2
         DEF InRequirementstxt, NoRequirementstxt, AppDynamicsPackages, AgentPackage
  <2>3. CASE AppDynamicsSkipped
    <3>1. "appdynamics" \notin BoundAgents(app) /\ build' = build
      BY <2>3 DEF AppDynamicsSkipped, UsesAppDynamics, BoundAgents
    <3> QED
      BY <1>0, <2>1, <3>1 DEF InRequirementstxt, NoRequirementstxt, AppDynamicsPackages
  <2> QED
    BY <1>1, <2>2, <2>3, StepAt
<1>2. CASE pc = "AppHook"
  <2>1. pc' = "Sealights" /\ AppHookBeforeCompile
    BY <1>0, <1>2, StepAt
  <2>2. CASE app.preCompile # Absent
    <3>1. app.preCompile \in SUBSET Package
      BY <1>0, <2>2, AppFields
    <3>2. build'.reqs = WithFile(build.reqs, app.preCompile)
      BY <2>1, <2>2 DEF AppHookBeforeCompile, TypeOK, Build
    <3>3. build'.reqs[Top] # Absent /\ PackagesOf(build'.reqs) = app.preCompile
      <4>1. /\ WithFile(build.reqs, app.preCompile)[Top] # Absent
            /\ PackagesOf(WithFile(build.reqs, app.preCompile)) = app.preCompile
        BY <1>0, <3>1, WithFileType, PackagesWithFile
      <4> QED
        BY <3>2, <4>1
    <3> QED
      BY <1>0, <2>1, <2>2, <3>3
         DEF PreCompiled, HasRequirements, InRequirementstxt, NoRequirementstxt
  <2>3. CASE app.preCompile = Absent
    <3>1. build' = build
      BY <2>1, <2>3 DEF AppHookBeforeCompile
    <3>2. /\ HasRequirements(app) <=> app.reqs[Top] # Absent
          /\ PreCompiled(app) = PackagesOf(app.reqs) \cup AppDynamicsPackages(app)
      BY <2>3 DEF HasRequirements, PreCompiled
    <3>3. IF HasRequirements(app) \/ "appdynamics" \in BoundAgents(app)
          THEN InRequirementstxt(PreCompiled(app)) ELSE NoRequirementstxt
      BY <1>2, <3>2
    <3> QED
      BY <1>0, <2>1, <3>1, <3>3 DEF InRequirementstxt, NoRequirementstxt
  <2> QED
    BY <2>2, <2>3
<1>3. CASE pc = "Sealights"
  <2> DEFINE before == IF HasRequirements(app) \/ "appdynamics" \in BoundAgents(app)
                       THEN PreCompiled(app) ELSE {}
  <2>1. pc' = "MakeDepDirs"
    BY <1>0, <1>3
  <2>2. /\ PackagesOf(build.reqs) = before
        /\ build.reqs[Top] # Absent <=>
              HasRequirements(app) \/ "appdynamics" \in BoundAgents(app)
    BY <1>0, <1>3, PackagesOfNone DEF InRequirementstxt, NoRequirementstxt
  <2>3. BoundAgents(app) \subseteq {"appdynamics", "sealights"}
    BY <1>0, AppFields DEF BoundAgents, Agent
  <2>4. before = {} \/ before = PreCompiled(app)
    OBVIOUS
  <2>5. ~HasRequirements(app) /\ "appdynamics" \notin BoundAgents(app) => PreCompiled(app) = {}
    BY <1>0, AppFields, PackagesOfNone DEF HasRequirements, PreCompiled, AppDynamicsPackages
  <2>6. FromHooks(app) => Promise!Owed(app) = before \cup SealightsPackages(app)
    BY <1>0, <2>5, OwedCases
  <2>7. CASE SealightsBeforeCompile
    <3>1. "sealights" \in BoundAgents(app) /\ build' = WithAgent("sealights")
      BY <2>7 DEF SealightsBeforeCompile, BoundAgents
    <3>2. /\ build'.reqs[Top] # Absent
          /\ PackagesOf(build'.reqs) = before \cup {"sealights-python-agent"}
      BY <2>2, <3>1, AgentAdds DEF Agent, AgentPackage
    <3> HIDE DEF before
    <3>3. InRequirementstxt(Promise!Owed(app))' /\ FromHooks(app)
      BY <1>0, <2>6, <3>1, <3>2
         DEF InRequirementstxt, NoRequirementstxt, SealightsPackages, FromHooks
    <3> QED
      BY <1>0, <2>1, <3>3
  <2>8. CASE SealightsSkipped
    <3>1. "sealights" \notin BoundAgents(app) /\ build' = build
      BY <2>8 DEF SealightsSkipped, BoundAgents
    <3>2. FromHooks(app) <=> HasRequirements(app) \/ "appdynamics" \in BoundAgents(app)
      BY <2>3, <3>1 DEF FromHooks
    <3> HIDE DEF before
    <3>3. FromHooks(app) => InRequirementstxt(Promise!Owed(app))'
      BY <1>0, <2>2, <2>6, <3>1, <3>2 DEF InRequirementstxt, NoRequirementstxt, SealightsPackages
    <3> QED
      BY <1>0, <2>1, <2>2, <3>1, <3>2, <3>3 DEF NoRequirementstxt
  <2> QED
    BY <1>3, <2>7, <2>8, StepAt
<1> QED
  BY <1>1, <1>2, <1>3

\* Until pip runs, only the generated requirements.txt of an app without one
\* is new: it names what the app declares.
LEMMA RequirementsSupply ==
    ASSUME TypeOK, RequirementsInv, Work, pc \in {"InstallPipEnv", "HandleRequirementstxt"}
    PROVE  RequirementsInv'
<1>0. /\ Flow /\ app' = app /\ app \in App /\ build.reqs \in Tree
  BY WorkFlows DEF TypeOK, Build
<1> USE DEF RequirementsInv, BeforePipEnv, CondaSteps, BeforePip, AfterPip, Flow
<1>1. CASE pc = "InstallPipEnv"
  <2>1. /\ pc' = "HandleRequirementstxt"
        /\ IF FromHooks(app) THEN InRequirementstxt(Promise!Owed(app)) ELSE NoRequirementstxt
        /\ FromHooks(app) => ~proc.removeRequirementsText
    BY <1>0, <1>1
  <2>2. CASE InstallPipEnvSkipped
    <3>1. build' = build /\ proc' = proc /\ (NoRequirementstxt => app.pipfile = Absent)
      BY <2>2 DEF InstallPipEnvSkipped, NoRequirementstxt
    <3> QED
      BY <1>0, <2>1, <3>1 DEF InRequirementstxt, NoRequirementstxt
  <2>3. CASE PipfileToRequirements \/ PipenvLock
    <3>1. NoRequirementstxt /\ app.pipfile # Absent
      BY <2>3 DEF PipfileToRequirements, PipenvLock, NoRequirementstxt
    <3>2. ~FromHooks(app)
      BY <2>1, <3>1 DEF InRequirementstxt
    <3>3. Promise!Owed(app) = IF app.lock # Absent THEN app.lock.pkgs ELSE app.pipfile
      BY <1>0, <3>1, <3>2, OwedCases, DeclaredCases DEF FromHooks
    <3>4. CASE PipfileToRequirements
      <4>1. /\ app.lock # Absent /\ app.lock.pkgs \in SUBSET Package /\ app.lock.index \in BOOLEAN
            /\ GenerateRequirements(app.lock.pkgs, app.lock.index)
        BY <1>0, <3>4, AppFields DEF PipfileToRequirements, Lock
      <4>2. build'.reqs[Top] # Absent /\ PackagesOf(build'.reqs) = app.lock.pkgs
        BY <4>1, GeneratedFile DEF InRequirementstxt, NoRequirementstxt
      <4> QED
        BY <1>0, <2>1, <3>1, <3>2, <3>3, <4>1, <4>2 DEF InRequirementstxt, NoRequirementstxt
    <3>5. CASE PipenvLock
      <4>1. /\ app.lock = Absent /\ app.pipfile \in SUBSET Package
            /\ GenerateRequirements(app.pipfile, TRUE)
        BY <1>0, <3>5, AppFields DEF PipenvLock
      <4>2. build'.reqs[Top] # Absent /\ PackagesOf(build'.reqs) = app.pipfile
        BY <4>1, GeneratedFile DEF InRequirementstxt, NoRequirementstxt
      <4> QED
        BY <1>0, <2>1, <3>1, <3>2, <3>3, <4>1, <4>2 DEF InRequirementstxt, NoRequirementstxt
    <3> QED
      BY <2>3, <3>4, <3>5
  <2> QED
    BY <1>1, <2>2, <2>3, StepAt
<1>2. CASE pc = "HandleRequirementstxt"
  <2>1. /\ pc' = "HandlePylibmc" /\ HandleRequirementstxt
        /\ IF FromHooks(app) \/ app.pipfile # Absent
           THEN InRequirementstxt(Promise!Owed(app)) ELSE NoRequirementstxt
        /\ FromHooks(app) => ~proc.removeRequirementsText
    BY <1>0, <1>2, StepAt
  <2>2. NoRequirementstxt => /\ ~FromHooks(app)
                             /\ Promise!Owed(app) = IF app.setup THEN {Self} ELSE {}
    BY <1>0, <2>1, OwedCases, DeclaredCases DEF InRequirementstxt, FromHooks
  <2>3. CASE NoRequirementstxt /\ app.setup
    <3>1. build'.reqs[Top] # Absent /\ PackagesOf(build'.reqs) = {Self}
      BY <2>1, <2>3, GeneratedFile, PackageAssumption
         DEF HandleRequirementstxt, InRequirementstxt, NoRequirementstxt
    <3> QED
      BY <1>0, <2>1, <2>2, <2>3, <3>1 DEF InRequirementstxt, NoRequirementstxt
  <2>4. CASE ~(NoRequirementstxt /\ app.setup)
    <3>1. build' = build /\ proc' = proc
      BY <2>1, <2>4 DEF HandleRequirementstxt, NoRequirementstxt
    <3> QED
      BY <1>0, <2>1, <2>2, <2>4, <3>1 DEF InRequirementstxt, NoRequirementstxt
  <2> QED
    BY <2>3, <2>4
<1> QED
  BY <1>1, <1>2

\* The other steps leave requirements.txt alone, or remove one that was generated.
LEMMA RequirementsStep ==
    ASSUME TypeOK, Route, RequirementsInv, Work PROVE RequirementsInv'
<1>0. Flow /\ app' = app
  BY WorkFlows
<1> USE DEF RequirementsInv, BeforePipEnv, CondaSteps, BeforePip, AfterPip, Flow
<1>1. CASE pc \in {"AppDynamics", "AppHook", "Sealights"}
  BY <1>1, RequirementsHooks
<1>2. CASE pc \in {"InstallPipEnv", "HandleRequirementstxt"}
  BY <1>2, RequirementsSupply
<1>3. CASE pc = "RemoveGenerated"
  <2>1. /\ pc' = "CompleteSupply" /\ proc' = proc
        /\ FromHooks(app) => build' = build /\ ~proc.removeRequirementsText
    BY <1>0, <1>3, StepAt DEF RemoveGenerated
  <2> QED
    BY <1>0, <1>3, <2>1 DEF InRequirementstxt, NoRequirementstxt
<1>4. CASE pc \notin {"AppDynamics", "AppHook", "Sealights", "InstallPipEnv",
                      "HandleRequirementstxt", "RemoveGenerated"}
  <2>1. build'.reqs = build.reqs
    BY <1>4, BuildFrame
  <2>2. FromHooks(app) => ~proc'.removeRequirementsText
    <3>1. CASE pc = "FinalizeEnvironment"
      BY <3>1, StepAt DEF FinalizeEnvironment
    <3>2. CASE pc # "FinalizeEnvironment"
      BY <1>4, <3>2, ProcFrame
    <3> QED
      BY <3>1, <3>2
  <2> QED
    BY <1>0, <1>4, <2>1, <2>2 DEF InRequirementstxt, NoRequirementstxt
<1> QED
  BY <1>1, <1>2, <1>3, <1>4

-----------------------------------------------------------------------------
\* pip brings everything owed into site-packages, and only tools besides.
LEMMA SiteRunPip ==
    ASSUME TypeOK, Route, RequirementsInv, SiteInv, Work, pc = "RunPip" PROVE SiteInv'
<1>0. pc' = "DownloadNLTKCorpora" /\ app' = app /\ ~app.conda
  BY WorkFlows DEF Flow, Route, PythonSteps
<1>1. /\ dep.site \subseteq Promise!Tools(app)
      /\ InRequirementstxt(Promise!Owed(app)) \/ (NoRequirementstxt /\ Promise!Owed(app) = {})
  BY DEF SiteInv, RequirementsInv, BeforePip
<1>2. /\ Promise!Owed(app) \subseteq dep'.site
      /\ dep'.site \subseteq Promise!Owed(app) \cup Promise!Tools(app)
  <2>1. CASE RunPipSkipped
    <3>1. dep' = dep /\ NoRequirementstxt
      BY <2>1 DEF RunPipSkipped, ShouldRunPip, NoRequirementstxt
    <3> QED
      BY <1>1, <3>1 DEF InRequirementstxt
  <2>2. CASE RunPipUnvendored
    <3>1. ~NoRequirementstxt
      BY <2>2 DEF RunPipUnvendored, ShouldRunPip, NoRequirementstxt
    <3>2. dep'.site = dep.site \cup PackagesOf(build.reqs)
      BY <2>2, PipFrame
    <3> QED
      BY <1>1, <3>1, <3>2 DEF InRequirementstxt
  <2>3. CASE RunPipVendored
    <3>1. ~NoRequirementstxt /\ app.vendor # Absent
      BY <2>3 DEF RunPipVendored, ShouldRunPip, NoRequirementstxt
    <3>2. dep'.site = dep.site \cup PackagesOf(build.reqs) \cup
                      (IF app.vendor.sdist THEN CommonBuildDeps ELSE {})
      BY <2>3, PipFrame
    <3>3. CommonBuildDeps \subseteq Promise!Tools(app)
      BY <3>1 DEF Promise!Tools, Promise!CommonBuildDeps, CommonBuildDeps
    <3>4. PackagesOf(build.reqs) = Promise!Owed(app)
      BY <1>1, <3>1 DEF InRequirementstxt
    <3> QED
      BY <1>1, <3>2, <3>3, <3>4
  <2> QED
    BY <2>1, <2>2, <2>3, StepAt
<1> QED
  BY <1>0, <1>2 DEF SiteInv, BeforePython, CondaSteps, BeforePip, AfterPip

\* Before pip there are only tools: pip itself, and pipenv where it has to lock.
LEMMA SiteStep ==
    ASSUME TypeOK, Route, RequirementsInv, SiteInv, Work PROVE SiteInv'
<1>0. Flow /\ app' = app /\ dep \in Dep
  BY WorkFlows DEF TypeOK
<1> USE DEF SiteInv, BeforePython, CondaSteps, BeforePip, AfterPip
<1>1. {"pip"} \subseteq Promise!Tools(app)
  BY DEF Promise!Tools
<1>2. CASE pc = "InstallPython"
  <2>1. dep'.site = dep.site \cup {"pip"} /\ dep.site = {}
    BY <1>0, <1>2, StepAt DEF InstallPython, LinkBin, Dep
  <2> QED
    BY <1>0, <1>1, <1>2, <2>1 DEF Flow
<1>3. CASE pc = "InstallPip"
  <2>1. dep'.site \in {dep.site, dep.site \cup {"pip"}} /\ dep.site \subseteq Promise!Tools(app)
    BY <1>3, StepAt, PipFrame
  <2> QED
    BY <1>0, <1>1, <1>3, <2>1 DEF Flow
<1>4. CASE pc = "InstallPipEnv"
  <2>1. dep.site \subseteq Promise!Tools(app)
    BY <1>4
  <2>2. dep'.site \subseteq Promise!Tools(app)
    <3>1. CASE InstallPipEnvSkipped \/ PipfileToRequirements
      BY <2>1, <3>1 DEF InstallPipEnvSkipped, PipfileToRequirements
    <3>2. CASE PipenvLock
      <4>1. dep'.site = dep.site \cup PipenvTools
        BY <3>2, PipFrame
      <4>2. PipenvTools \subseteq Promise!Tools(app)
        BY <3>2 DEF PipenvLock, Promise!Tools, Promise!PipenvTools, PipenvTools
      <4> QED
        BY <2>1, <4>1, <4>2
    <3> QED
      BY <1>4, <3>1, <3>2, StepAt
  <2> QED
    BY <1>0, <1>4, <2>2 DEF Flow
<1>5. CASE pc = "RunPip"
  BY <1>5, SiteRunPip
<1>6. CASE pc \notin {"InstallPython", "InstallPip", "InstallPipEnv", "RunPip"}
  <2>1. dep'.site = dep.site
    BY <1>6, DepFrame
  <2> QED
    BY <1>0, <1>6, <2>1 DEF Flow, Route, PythonSteps
<1> QED
  BY <1>2, <1>3, <1>4, <1>5, <1>6

\* Both hold in every reachable state.
LEMMA PackagesInvariance == Spec => [](TypeOK /\ Route /\ RequirementsInv /\ SiteInv)
<1>1. Init => RequirementsInv /\ SiteInv
  BY DEF Init, RequirementsInv, SiteInv, BeforePython, BeforePipEnv, CondaSteps, BeforePip, AfterPip
<1>2. TypeOK /\ Route /\ RequirementsInv /\ SiteInv /\ [Next]_vars => RequirementsInv' /\ SiteInv'
  <2>1. RequirementsInv /\ SiteInv /\ Fail => RequirementsInv' /\ SiteInv'
    BY DEF Fail, RequirementsInv, SiteInv, BeforePython, BeforePipEnv, CondaSteps, BeforePip,
           AfterPip
  <2>2. RequirementsInv /\ SiteInv /\ UNCHANGED vars => RequirementsInv' /\ SiteInv'
    BY DEF vars, RequirementsInv, SiteInv, InRequirementstxt, NoRequirementstxt
  <2> QED
    BY <2>1, <2>2, RequirementsStep, SiteStep DEF Next
<1> QED
  BY <1>1, <1>2, TypesAndRoute, PTL DEF Spec

(***************************************************************************)
(* A Python app is never staged without what it declares, whichever of the *)
(* four kinds of file declares it, and however requirements files include  *)
(* one another (RunPython, InstallPipEnv, HandleRequirementstxt).          *)
(***************************************************************************)
THEOREM DeclaredAreInstalled == Spec => []DeclaredInstalled
<1>1. TypeOK /\ SiteInv => DeclaredInstalled
  <2> SUFFICES ASSUME TypeOK, SiteInv, StagedPython,
                      BoundAgents(app) = {} \/ HasRequirements(app)
               PROVE  Declared(app) \subseteq dep.site
    BY DEF DeclaredInstalled
  <2>1. Promise!Owed(app) \subseteq dep.site
    BY DEF SiteInv, AfterPip, StagedPython, Staged
  <2>2. Declared(app) \subseteq Promise!Owed(app)
    BY SameApp DEF Promise!Owed
  <2> QED
    BY <2>1, <2>2
<1> QED
  BY <1>1, PackagesInvariance, PTL

(***************************************************************************)
(* The package of every bound agent is in the droplet: Sealights' in any   *)
(* case, AppDynamics' unless bin/pre_compile, which runs between the two   *)
(* hooks, writes a requirements.txt of its own.                            *)
(***************************************************************************)
THEOREM AgentsAreInstalled == Spec => []AgentsInstalled
<1>1. TypeOK /\ SiteInv => AgentsInstalled
  <2> SUFFICES ASSUME TypeOK, SiteInv, StagedPython, NEW x \in BoundAgents(app),
                      x = "sealights" \/ app.preCompile = Absent
               PROVE  AgentPackage[x] \in dep.site
    BY DEF AgentsInstalled
  <2>1. Promise!Owed(app) \subseteq dep.site
    BY DEF SiteInv, AfterPip, StagedPython, Staged
  <2>2. AgentPackage[x] \in Promise!Owed(app)
    BY SameApp DEF Promise!Owed, Promise!AgentPackages, Promise!InstalledAgents,
                   Promise!AgentPackage, AgentPackage
  <2> QED
    BY <2>1, <2>2
<1> QED
  BY <1>1, PackagesInvariance, PTL

-----------------------------------------------------------------------------
\* installFfi runs at most once and leaves LIBFFI set.
LEMMA FfiOnce ==
    ASSUME TypeOK, dep.libffi \in {0, 1}, "LIBFFI" \in proc.environ <=> dep.libffi = 1
    PROVE  WithFfi(dep) \in Dep /\ WithFfi(dep).libffi = 1
<1>1. CASE "LIBFFI" \in proc.environ
  BY <1>1 DEF WithFfi, TypeOK
<1>2. CASE "LIBFFI" \notin proc.environ
  <2>1. dep \in Dep /\ dep.libffi = 0
    BY <1>2 DEF TypeOK
  <2>2. WithFfi(dep) = [dep EXCEPT !.libffi = 1, !.env = @ \cup {"LIBFFI"}]
    BY <1>2, <2>1 DEF WithFfi
  <2> QED
    BY <2>1, <2>2, WithFfiType DEF Dep
<1> QED
  BY <1>1, <1>2

\* os.Setenv changes the environment and nothing else.
LEMMA Setenv ==
    ASSUME NEW names, proc' = [proc EXCEPT !.environ = @ \cup names], TypeOK
    PROVE  proc'.paths = proc.paths /\ proc'.environ = proc.environ \cup names
  BY DEF TypeOK, Proc

\* Up to supply.Run: the directories and the search paths.
LEMMA LibrariesBeforeRun ==
    ASSUME TypeOK, LibrariesInv, HooksNext \/ MakeDepDirs \/ SetStagingEnvironment
    PROVE  LibrariesInv'
<1>1. CASE HooksNext
  <2>1. /\ pc \in BeforeRun /\ pc' \in {"AppHook", "Sealights", "MakeDepDirs"} /\ proc' = proc
        /\ dep'.libffi = dep.libffi /\ dep'.env = dep.env
    BY <1>1 DEF HooksNext, AppDynamicsBeforeCompile, AppDynamicsSkipped, AppHookBeforeCompile,
                SealightsBeforeCompile, SealightsSkipped, Goto, BeforeRun, TypeOK, Dep
  <2> QED
    BY <2>1 DEF LibrariesInv, BeforeRun, FromRun, BeforePip
<1>2. CASE MakeDepDirs
  <2>1. /\ pc \in BeforeRun /\ pc' = "SetStagingEnvironment" /\ proc' = proc
        /\ dep'.libffi = dep.libffi /\ dep'.env = dep.env /\ dep'.dirs = Subdir
    BY <1>2 DEF MakeDepDirs, Goto, BeforeRun, TypeOK, Dep
  <2> QED
    BY <2>1 DEF LibrariesInv, BeforeRun, FromRun, BeforePip
<1>3. CASE SetStagingEnvironment
  <2>1. /\ pc = "SetStagingEnvironment" /\ pc' = "Run" /\ dep' = dep
        /\ proc'.paths = dep.dirs /\ proc'.environ = proc.environ \cup dep.env
    BY <1>3 DEF SetStagingEnvironment, Goto, TypeOK, Proc
  <2> QED
    BY <2>1 DEF LibrariesInv, BeforeRun, FromRun, BeforePip
<1> QED
  BY <1>1, <1>2, <1>3

\* From supply.Run to pip: the libraries.
LEMMA LibrariesFromRun == ASSUME TypeOK, LibrariesInv, SupplyNext PROVE LibrariesInv'
<1>1. CASE \/ Run \/ SetupCacheDir \/ CopyRuntimeTxt \/ HandlePipfile \/ InstallPython \/ InstallPip
           \/ InstallPipEnvSkipped \/ PipfileToRequirements \/ HandleRequirementstxt
  <2>1. /\ pc \in FromRun /\ pc' \in (FromRun \ BeforePip) \cup {"HandlePylibmc", "CondaInstall"}
    BY <1>1 DEF Run, SetupCacheDir, CopyRuntimeTxt, HandlePipfile, InstallPython, InstallPip,
                InstallPipEnvSkipped, PipfileToRequirements, HandleRequirementstxt, Goto, FromRun,
                BeforePip
  <2>2. proc'.paths = proc.paths /\ ("LIBFFI" \in proc'.environ <=> "LIBFFI" \in proc.environ)
    <3>1. CASE SetupCacheDir
      BY <3>1, Setenv DEF SetupCacheDir
    <3>2. CASE InstallPython
      BY <3>2, Setenv DEF InstallPython
    <3>3. CASE PipfileToRequirements \/ HandleRequirementstxt
      BY <3>3 DEF PipfileToRequirements, HandleRequirementstxt, TypeOK, Proc
    <3>4. CASE Run \/ CopyRuntimeTxt \/ HandlePipfile \/ InstallPip \/ InstallPipEnvSkipped
      BY <3>4 DEF Run, CopyRuntimeTxt, HandlePipfile, InstallPip, InstallPipEnvSkipped
    <3> QED
      BY <1>1, <3>1, <3>2, <3>3, <3>4
  <2>3. dep'.libffi = dep.libffi
    <3>1. CASE InstallPip
      <4>1. {"pip"} \in SUBSET (Package \cup Tool) /\ dep \in Dep
        BY DEF Tool, TypeOK
      <4>2. dep' = dep \/ \E d \in Installed(dep, {"pip"}) : dep' = LinkBin(d)
        BY <3>1 DEF InstallPip
      <4> QED
        BY <4>1, <4>2, InstalledType
    <3>2. CASE \/ Run \/ SetupCacheDir \/ CopyRuntimeTxt \/ HandlePipfile \/ InstallPython
               \/ InstallPipEnvSkipped \/ PipfileToRequirements \/ HandleRequirementstxt
      BY <3>2 DEF Run, SetupCacheDir, CopyRuntimeTxt, HandlePipfile, InstallPython, LinkBin,
                  InstallPipEnvSkipped, PipfileToRequirements, HandleRequirementstxt, TypeOK, Dep
    <3> QED
      BY <1>1, <3>1, <3>2
  <2> QED
    BY <2>1, <2>2, <2>3 DEF LibrariesInv, BeforeRun, FromRun, BeforePip
<1>2. CASE PipenvLock
  <2>1. pc = "InstallPipEnv" /\ pc' = "HandleRequirementstxt"
    BY <1>2 DEF PipenvLock, Goto
  <2>2. proc'.paths = proc.paths /\ "LIBFFI" \in proc'.environ
    BY <1>2 DEF PipenvLock, TypeOK, Proc
  <2>3. WithFfi(dep) \in Dep /\ WithFfi(dep).libffi = 1
    BY <2>1, FfiOnce DEF LibrariesInv, FromRun
  <2>4. PICK d \in Installed(WithFfi(dep), PipenvTools) : dep' = LinkBin(d)
    BY <1>2 DEF PipenvLock
  <2>5. dep'.libffi = 1
    BY <2>3, <2>4, InstalledType DEF Tool
  <2> QED
    BY <2>1, <2>2, <2>5 DEF LibrariesInv, BeforeRun, FromRun, BeforePip
<1>3. CASE HandlePylibmc
  <2>1. pc = "HandlePylibmc" /\ pc' = "HandleFfi" /\ build' = build
    BY <1>3 DEF HandlePylibmc, Goto
  <2>2. CASE FindAnyPackage(build.reqs, {"pylibmc"})
    <3>1. /\ dep' = [dep EXCEPT !.libmemcache = @ + 1, !.env = @ \cup {"LIBMEMCACHED"}]
          /\ proc' = [proc EXCEPT !.environ = @ \cup {"LIBMEMCACHED"}]
      BY <1>3, <2>2 DEF HandlePylibmc
    <3>2. dep'.libffi = dep.libffi /\ dep'.libmemcache = dep.libmemcache + 1
          /\ dep.libmemcache \in Nat
      BY <3>1 DEF TypeOK, Dep
    <3>3. proc'.paths = proc.paths /\ proc'.environ = proc.environ \cup {"LIBMEMCACHED"}
      BY <3>1, Setenv
    <3> QED
      BY <2>1, <3>2, <3>3 DEF LibrariesInv, BeforeRun, FromRun, BeforePip
  <2>3. CASE ~FindAnyPackage(build.reqs, {"pylibmc"})
    <3>1. UNCHANGED <<dep, proc>>
      BY <1>3, <2>3 DEF HandlePylibmc
    <3> QED
      BY <2>1, <2>3, <3>1 DEF LibrariesInv, BeforeRun, FromRun, BeforePip
  <2> QED
    BY <2>2, <2>3
<1>4. CASE HandleFfi
  <2>1. pc = "HandleFfi" /\ pc' = "UninstallUnusedDependencies" /\ build' = build
    BY <1>4 DEF HandleFfi, Goto
  <2>2. CASE FindAnyPackage(build.reqs, FfiNames)
    <3>1. dep' = WithFfi(dep) /\ proc' = [proc EXCEPT !.environ = @ \cup {"LIBFFI"}]
      BY <1>4, <2>2 DEF HandleFfi
    <3>2. dep'.libffi = 1
      BY <2>1, <3>1, FfiOnce DEF LibrariesInv, FromRun, BeforePip
    <3>3. dep'.libmemcache = dep.libmemcache
      BY <3>1 DEF WithFfi, TypeOK, Dep
    <3>4. /\ proc'.paths = proc.paths /\ "LIBFFI" \in proc'.environ
          /\ "LIBMEMCACHED" \in proc.environ => "LIBMEMCACHED" \in proc'.environ
      BY <3>1 DEF TypeOK, Proc
    <3> QED
      BY <2>1, <3>2, <3>3, <3>4 DEF LibrariesInv, BeforeRun, FromRun, BeforePip
  <2>3. CASE ~FindAnyPackage(build.reqs, FfiNames)
    <3>1. UNCHANGED <<dep, proc>>
      BY <1>4, <2>3 DEF HandleFfi
    <3> QED
      BY <2>1, <2>3, <3>1 DEF LibrariesInv, BeforeRun, FromRun, BeforePip
  <2> QED
    BY <2>2, <2>3
<1>5. CASE UninstallUnusedDependencies
  BY <1>5 DEF UninstallUnusedDependencies, Goto, LibrariesInv, BeforeRun, FromRun, BeforePip
<1>6. CASE RunPipSkipped \/ RunPipUnvendored \/ RunPipVendored
  <2>1. pc' = "DownloadNLTKCorpora"
    BY <1>6 DEF RunPipSkipped, RunPipUnvendored, RunPipVendored, Goto
  <2>2. dep'.libffi = dep.libffi
    <3>1. CASE RunPipSkipped
      BY <3>1 DEF RunPipSkipped
    <3>2. CASE RunPipUnvendored
      <4>1. PackagesOf(build.reqs) \in SUBSET (Package \cup Tool) /\ dep \in Dep
        BY PackagesType DEF TypeOK, Build
      <4> QED
        BY <3>2, <4>1, InstalledType DEF RunPipUnvendored
    <3>3. CASE RunPipVendored
      <4> DEFINE pkgs == PackagesOf(build.reqs) \cup
                         (IF app.vendor.sdist THEN CommonBuildDeps ELSE {})
      <4>1. pkgs \in SUBSET (Package \cup Tool) /\ dep \in Dep
        BY PackagesType DEF TypeOK, Build, Tool
      <4>2. PICK d \in Installed(dep, pkgs) : dep' = LinkBin(d)
        BY <3>3 DEF RunPipVendored
      <4> QED
        BY <4>1, <4>2, InstalledType
    <3> QED
      BY <1>6, <3>1, <3>2, <3>3
  <2> QED
    BY <2>1, <2>2 DEF LibrariesInv, BeforeRun, FromRun, BeforePip
<1>7. CASE \/ DownloadNLTKCorporaSkipped \/ DownloadNLTKCorpora \/ RewriteShebangs
           \/ CreateDefaultEnv \/ RemoveGenerated \/ CompleteSupply
  <2>1. pc' \in AfterPip /\ dep'.libffi = dep.libffi
    BY <1>7 DEF DownloadNLTKCorporaSkipped, DownloadNLTKCorpora, RewriteShebangs,
                CreateDefaultEnv, RemoveGenerated, CompleteSupply, Goto, AfterPip, TypeOK, Dep
  <2> QED
    BY <2>1 DEF LibrariesInv, BeforeRun, FromRun, BeforePip, AfterPip
<1>8. CASE MakeDepDirs \/ SetStagingEnvironment
  BY <1>8, LibrariesBeforeRun
<1> QED
  BY <1>1, <1>2, <1>3, <1>4, <1>5, <1>6, <1>7, <1>8 DEF SupplyNext

\* No later step installs a library.
LEMMA LibrariesRest ==
    ASSUME TypeOK, LibrariesInv, CondaNext \/ FinalizeNext \/ Fail \/ UNCHANGED vars
    PROVE  LibrariesInv'
<1>1. CASE CondaNext \/ FinalizeNext
  <2>1. pc' \in AfterPip \cup {"CondaUpdateAndClean", "CondaProfile"}
    BY <1>1 DEF CondaNext, CondaInstall, CondaUpdateAndClean, CondaProfile, FinalizeNext,
                FinalizeEnvironment, CollectstaticSkipped, HandleCollectstatic,
                ReplaceDepsDirWithLiteral, ReplaceLiteralWithDepsDirAtRuntime, PostCompile,
                SetLaunchEnvironment, Goto, AfterPip
  <2>2. dep'.libffi = dep.libffi
    BY <1>1 DEF CondaNext, CondaInstall, CondaUpdateAndClean, CondaProfile, FinalizeNext,
                FinalizeEnvironment, CollectstaticSkipped, HandleCollectstatic,
                ReplaceDepsDirWithLiteral, ReplaceLiteralWithDepsDirAtRuntime, PostCompile,
                SetLaunchEnvironment, TypeOK, Dep
  <2> QED
    BY <2>1, <2>2 DEF LibrariesInv, BeforeRun, FromRun, BeforePip, AfterPip
<1>2. CASE Fail \/ UNCHANGED vars
  BY <1>2 DEF Fail, vars, LibrariesInv, BeforeRun, FromRun, BeforePip
<1> QED
  BY <1>1, <1>2

-----------------------------------------------------------------------------
\* The libraries in every reachable state.
LEMMA LibrariesInvariance == Spec => [](TypeOK /\ LibrariesInv)
<1>1. Init => LibrariesInv
  BY DEF Init, LibrariesInv, BeforeRun, FromRun, BeforePip
<1>2. TypeOK /\ LibrariesInv /\ [Next]_vars => LibrariesInv'
  BY LibrariesBeforeRun, LibrariesFromRun, LibrariesRest DEF Next, Work
<1> QED
  BY <1>1, <1>2, StagingTypes, PTL DEF Spec

(***************************************************************************)
(* pip starts with libffi and libmemcache in place whenever a requirement  *)
(* it can see needs them, and with the directories that hold them on its   *)
(* search paths (HandlePylibmc, HandleFfi, SetStagingEnvironment).         *)
(***************************************************************************)
THEOREM LibrariesAreReady == Spec => []NativeLibrariesReady
<1>1. LibrariesInv => NativeLibrariesReady
  BY DEF LibrariesInv, NativeLibrariesReady, FromRun, BeforePip, BeforeRun, Subdir
<1> QED
  BY <1>1, LibrariesInvariance, PTL

(***************************************************************************)
(* However pipenv and the requirements combine, libffi is unpacked at most *)
(* once (installFfi).                                                      *)
(***************************************************************************)
THEOREM LibffiIsInstalledOnce == Spec => []LibffiOnce
<1>1. LibrariesInv => LibffiOnce
  BY DEF LibrariesInv, LibffiOnce
<1> QED
  BY <1>1, LibrariesInvariance, PTL
=============================================================================
