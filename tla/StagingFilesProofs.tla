------------------------- MODULE StagingFilesProofs -------------------------
(***************************************************************************)
(* What staging does to the files of the app and to those pip installs,    *)
(* for every app: the build directory gets its own requirements.txt back,  *)
(* every script is linked and portable, a vendored app is staged offline,  *)
(* and Django apps get their static files.                                 *)
(***************************************************************************)
EXTENDS StagingProofs

\* While a generated requirements.txt may be there; afterwards.
BeforeGeneration == {"AppDynamics", "AppHook", "Sealights"} \cup BeforePipEnv \cup CondaSteps
WhileGenerated == {"HandleRequirementstxt"} \cup BeforePip \cup
                  {"DownloadNLTKCorpora", "RewriteShebangs", "CreateDefaultEnv", "RemoveGenerated"}
AfterStatic == {"ReplaceDepsDirWithLiteral", "ReplaceLiteralWithDepsDirAtRuntime", "PostCompile",
                "SetLaunchEnvironment", "done"}
InFinalize == {"FinalizeEnvironment", "HandleCollectstatic"} \cup AfterStatic

\* No hook touches the app's requirements.txt.
Untouched == BoundAgents(app) = {} /\ app.preCompile = Absent

\* removeRequirementsText says whether what is there was generated.
RestoredInv ==
    Untouched =>
        /\ pc \in BeforeGeneration => build.reqs = app.reqs /\ ~proc.removeRequirementsText
        /\ pc \in WhileGenerated =>
              IF proc.removeRequirementsText THEN WithoutFile(build.reqs) = app.reqs
                                             ELSE build.reqs = app.reqs
        /\ pc \in {"CompleteSupply"} \cup InFinalize => build.reqs = app.reqs

\* Whatever is installed is linked; from RewriteShebangs on it is portable.
ScriptsInv ==
    /\ dep.bin = dep.site
    /\ pc \in {"CreateDefaultEnv", "RemoveGenerated", "CompleteSupply"} \cup InFinalize =>
          app.conda \/ dep.site \subseteq dep.portable

\* The apps OfflineWhenVendored speaks of: no option survives the stripping.
Vendored(a) ==
    /\ a.vendor # Absent
    /\ a.indexed \subseteq {<<Top, "space">>}
    /\ HasRequirements(a) \/ a.pipfile = Absent \/ a.lock # Absent

OfflineInv ==
    Vendored(app) => /\ build.indexed \subseteq {<<Top, "space">>}
                     /\ net \cap {"pip", "pipenv"} = {}

\* collectstatic sees the requirements and the environment it needs.
Collects(a) ==
    a.preCompile = Absent /\ ~a.disableCollectstatic /\ FindAnyPackage(a.reqs, DjangoNames)

CollectstaticInv ==
    /\ pc \notin AfterStatic \cup {"failed"} => build.static = FALSE
    /\ pc \in AfterStatic /\ Collects(app) => build.static = TRUE
    /\ pc \in {"RemoveGenerated", "CompleteSupply", "FinalizeEnvironment"} /\ ~app.conda =>
          DefaultEnv \subseteq dep.env
    /\ pc \in {"HandleCollectstatic"} \cup AfterStatic /\ ~app.conda =>
          DefaultEnv \subseteq proc.environ
    /\ build.static = TRUE /\ ~app.conda => DefaultEnv \subseteq proc.environ

-----------------------------------------------------------------------------
\* A requirements.txt is generated only where there is none, and remembered.
LEMMA Generation ==
    ASSUME TypeOK, Work, pc \in {"InstallPipEnv", "HandleRequirementstxt"}
    PROVE  \/ build' = build /\ proc'.removeRequirementsText = proc.removeRequirementsText
           \/ /\ build.reqs[Top] = Absent
              /\ \E pkgs \in SUBSET Package : build'.reqs = WithFile(build.reqs, pkgs)
              /\ proc'.removeRequirementsText = TRUE
<1>0. app \in App /\ proc \in Proc
  BY DEF TypeOK
<1>1. CASE InstallPipEnvSkipped
  BY <1>1 DEF InstallPipEnvSkipped
<1>2. CASE PipfileToRequirements
  <2>1. app.lock.pkgs \in SUBSET Package /\ app.lock.index \in BOOLEAN
    BY <1>0, <1>2, AppFields DEF PipfileToRequirements, Lock
  <2>2. build'.reqs = WithFile(build.reqs, app.lock.pkgs)
    BY <1>2, <2>1, GeneratedType DEF PipfileToRequirements, TypeOK
  <2>3. build.reqs[Top] = Absent /\ proc'.removeRequirementsText = TRUE
    BY <1>0, <1>2 DEF PipfileToRequirements, Proc
  <2> QED
    BY <2>1, <2>2, <2>3
<1>3. CASE PipenvLock
  <2>1. app.pipfile \in SUBSET Package
    BY <1>0, <1>3, AppFields DEF PipenvLock
  <2>2. build'.reqs = WithFile(build.reqs, app.pipfile)
    BY <1>3, <2>1, GeneratedType DEF PipenvLock, TypeOK
  <2>3. build.reqs[Top] = Absent /\ proc'.removeRequirementsText = TRUE
    BY <1>0, <1>3 DEF PipenvLock, Proc
  <2> QED
    BY <2>1, <2>2, <2>3
<1>4. CASE HandleRequirementstxt
  <2>1. CASE build.reqs[Top] = Absent /\ app.setup
    <3>1. {Self} \in SUBSET Package
      BY PackageAssumption
    <3>2. build'.reqs = WithFile(build.reqs, {Self})
      BY <1>4, <2>1, <3>1, GeneratedType DEF HandleRequirementstxt, TypeOK
    <3>3. proc'.removeRequirementsText = TRUE
      BY <1>0, <1>4, <2>1 DEF HandleRequirementstxt, Proc
    <3> QED
      BY <2>1, <3>1, <3>2, <3>3
  <2>2. CASE ~(build.reqs[Top] = Absent /\ app.setup)
    BY <1>4, <2>2 DEF HandleRequirementstxt
  <2> QED
    BY <2>1, <2>2
<1> QED
  BY <1>1, <1>2, <1>3, <1>4, StepAt

\* The requirements files on their way to the droplet.
LEMMA RestoredStep == ASSUME TypeOK, Route, RestoredInv, Work PROVE RestoredInv'
<1>0. /\ Flow /\ app' = app /\ build.reqs \in Tree
      /\ Untouched' = Untouched
  BY WorkFlows DEF TypeOK, Build, Untouched
<1> SUFFICES ASSUME Untouched PROVE RestoredInv'
  BY <1>0 DEF RestoredInv
<1> USE DEF RestoredInv, BeforeGeneration, WhileGenerated, AfterStatic, InFinalize, BeforePipEnv,
            CondaSteps, BeforePip
<1>1. CASE pc \in {"AppDynamics", "AppHook", "Sealights"}
  <2>1. /\ "appdynamics" \in app.services => app.appdAgent
        /\ "sealights" \notin app.services
    BY DEF Untouched, BoundAgents
  <2>2. build' = build /\ proc' = proc
    BY <1>1, <2>1, StepAt DEF AppDynamicsBeforeCompile, UsesAppDynamics, AppDynamicsSkipped,
                              AppHookBeforeCompile, SealightsBeforeCompile, SealightsSkipped,
                              Untouched
  <2> QED
    BY <1>0, <1>1, <2>2 DEF Flow
<1>2. CASE pc \in {"InstallPipEnv", "HandleRequirementstxt"}
  <2>1. pc' \in WhileGenerated /\ pc' \notin BeforeGeneration \cup {"CompleteSupply"} \cup InFinalize
    BY <1>0, <1>2 DEF Flow
  <2>2. IF proc.removeRequirementsText THEN WithoutFile(build.reqs) = app.reqs
                                       ELSE build.reqs = app.reqs
    BY <1>2
  <2>3. CASE build' = build /\ proc'.removeRequirementsText = proc.removeRequirementsText
    BY <1>0, <2>1, <2>2, <2>3
  <2>4. ASSUME build.reqs[Top] = Absent, proc'.removeRequirementsText = TRUE,
               NEW pkgs \in SUBSET Package, build'.reqs = WithFile(build.reqs, pkgs)
        PROVE  RestoredInv'
    <3>1. WithoutFile(build'.reqs) = build.reqs /\ WithoutFile(build.reqs) = build.reqs
      BY <1>0, <2>4, WithoutWritten
    <3>2. build.reqs = app.reqs
      BY <2>2, <3>1
    <3> QED
      BY <1>0, <2>1, <2>4, <3>1, <3>2
  <2> QED
    BY <1>2, <2>3, <2>4, Generation
<1>3. CASE pc = "RemoveGenerated"
  <2>1. build'.reqs = app.reqs
    BY <1>3, StepAt DEF RemoveGenerated, TypeOK, Build
  <2> QED
    BY <1>0, <1>3, <2>1 DEF Flow
<1>4. CASE pc \notin {"AppDynamics", "AppHook", "Sealights", "InstallPipEnv",
                      "HandleRequirementstxt", "RemoveGenerated"}
  <2>1. build'.reqs = build.reqs
    BY <1>4, BuildFrame
  <2>2. pc # "FinalizeEnvironment" =>
           proc'.removeRequirementsText = proc.removeRequirementsText
    BY <1>4, ProcFrame
  <2> QED
    BY <1>0, <1>4, <2>1, <2>2 DEF Flow
<1> QED
  BY <1>1, <1>2, <1>3, <1>4

\* Every installation ends with the links, and none comes after RewriteShebangs.
LEMMA ScriptsStep == ASSUME TypeOK, Route, ScriptsInv, Work PROVE ScriptsInv'
<1>0. Flow /\ app' = app /\ dep \in Dep
  BY WorkFlows DEF TypeOK
<1> USE DEF ScriptsInv, AfterStatic, InFinalize
<1>1. CASE pc \in {"InstallPython", "InstallPip", "InstallPipEnv", "RunPip"}
  <2>1. dep'.bin = dep'.site
    <3>1. CASE InstallPython
      BY <1>0, <3>1 DEF InstallPython, LinkBin, Dep
    <3>2. CASE InstallPip \/ PipenvLock \/ RunPipUnvendored \/ RunPipVendored
      BY <3>2, PipFrame
    <3>3. CASE InstallPipEnvSkipped \/ PipfileToRequirements \/ RunPipSkipped
      BY <3>3 DEF InstallPipEnvSkipped, PipfileToRequirements, RunPipSkipped
    <3> QED
      BY <1>1, <3>1, <3>2, <3>3, StepAt
  <2> QED
    BY <1>0, <1>1, <2>1 DEF Flow
<1>2. CASE pc = "RewriteShebangs"
  <2>1. dep'.site = dep.site /\ dep'.bin = dep.bin /\ dep.bin \subseteq dep'.portable
    BY <1>0, <1>2, StepAt DEF RewriteShebangs, Dep
  <2> QED
    BY <1>0, <1>2, <2>1
<1>3. CASE pc \notin {"InstallPython", "InstallPip", "InstallPipEnv", "RunPip", "RewriteShebangs"}
  <2>1. dep'.site = dep.site /\ dep'.bin = dep.bin /\ dep'.portable = dep.portable
    BY <1>3, DepFrame
  <2> QED
    BY <1>0, <1>3, <2>1 DEF Flow, Route, CondaSteps
<1> QED
  BY <1>1, <1>2, <1>3

\* Nothing goes to an index: pipenv need not lock, and pip finds no option.
LEMMA OfflineStep ==
    ASSUME TypeOK, Route, RequirementsInv, OfflineInv, Work PROVE OfflineInv'
<1>0. app' = app /\ app \in App /\ build \in Build
  BY WorkFlows DEF TypeOK
<1> DEFINE option == <<Top, "space">>
<1> HIDE DEF option
<1> SUFFICES ASSUME Vendored(app)
             PROVE  build'.indexed \subseteq {option} /\ net' \cap {"pip", "pipenv"} = {}
  BY <1>0 DEF OfflineInv, option
<1>1. build.indexed \subseteq {option} /\ net \cap {"pip", "pipenv"} = {}
  BY DEF OfflineInv, option
<1>2. OutsideTop(build.indexed) \subseteq {option}
  BY <1>1 DEF OutsideTop
<1>3. CASE pc \in {"AppHook", "RemoveGenerated"}
  <2>1. build' = build \/ build'.indexed = OutsideTop(build.indexed)
    BY <1>0, <1>3, StepAt DEF AppHookBeforeCompile, RemoveGenerated, Build
  <2>2. net' = net
    BY <1>3, ProcFrame
  <2> QED
    BY <1>1, <1>2, <2>1, <2>2
<1>4. CASE pc \in {"InstallPipEnv", "HandleRequirementstxt"}
  <2>1. ~PipenvLock
    <3>1. SUFFICES ASSUME PipenvLock PROVE FALSE
      OBVIOUS
    <3>2. HasRequirements(app) /\ pc \in BeforePipEnv /\ NoRequirementstxt
      BY <3>1 DEF PipenvLock, Goto, Vendored, BeforePipEnv, NoRequirementstxt
    <3> QED
      BY <3>2 DEF RequirementsInv, FromHooks, InRequirementstxt
  <2>2. /\ net' = net
        /\ build' = build \/ \E pkgs, index : GenerateRequirements(pkgs, index)
    <3>1. CASE InstallPipEnvSkipped
      BY <3>1 DEF InstallPipEnvSkipped
    <3>2. CASE PipfileToRequirements
      BY <3>2 DEF PipfileToRequirements
    <3>3. CASE HandleRequirementstxt
      BY <3>3 DEF HandleRequirementstxt
    <3> QED
      BY <1>4, <2>1, <3>1, <3>2, <3>3, StepAt
  <2>3. build'.indexed \subseteq {option}
    <3>1. ASSUME NEW pkgs, NEW index, GenerateRequirements(pkgs, index)
          PROVE  build'.indexed \subseteq {option}
      <4>1. build'.indexed = OutsideTop(build.indexed) \cup (IF index THEN {option} ELSE {})
        BY <1>0, <3>1 DEF GenerateRequirements, Build, option
      <4> QED
        BY <1>2, <4>1
    <3> QED
      BY <1>1, <2>2, <3>1
  <2> QED
    BY <1>1, <2>2, <2>3
<1>5. CASE pc = "RunPip"
  <2>1. ~RunPipUnvendored
    BY DEF Vendored, RunPipUnvendored
  <2>2. CASE RunPipSkipped
    BY <1>1, <2>2 DEF RunPipSkipped
  <2>3. CASE RunPipVendored
    <3>1. StrippedIndexed = {}
      BY <1>1 DEF StrippedIndexed, option
    <3>2. ~WantsInternet
      BY <3>1 DEF WantsInternet
    <3>3. build'.indexed = StrippedIndexed /\ net' = net
      BY <1>0, <2>3, <3>2 DEF RunPipVendored, Build
    <3> QED
      BY <1>1, <3>1, <3>3
  <2> QED
    BY <1>5, <2>1, <2>2, <2>3, StepAt
<1>6. CASE pc = "DownloadNLTKCorpora"
  <2>1. net' \in {net, net \cup {"nltk"}} /\ build' = build
    BY <1>6, StepAt DEF DownloadNLTKCorporaSkipped, DownloadNLTKCorpora
  <2> QED
    BY <1>1, <2>1
<1>7. CASE pc \notin {"AppHook", "RemoveGenerated", "InstallPipEnv", "HandleRequirementstxt",
                      "RunPip", "DownloadNLTKCorpora"}
  BY <1>1, <1>7, BuildFrame, ProcFrame
<1> QED
  BY <1>3, <1>4, <1>5, <1>6, <1>7

\* What finalize reads when it looks for Django is what the app brought.
LEMMA DjangoSeen ==
    ASSUME TypeOK, RequirementsInv, pc = "HandleCollectstatic", Collects(app)
    PROVE  UsesDjango
<1>1. app \in App /\ app.reqs[Top] # Absent /\ DjangoNames \cap PackagesOf(app.reqs) # {}
  BY DEF TypeOK, Collects, FindAnyPackage
<1>2. HasRequirements(app) /\ PackagesOf(app.reqs) \subseteq PreCompiled(app)
  BY <1>1 DEF Collects, HasRequirements, PreCompiled
<1>3. InRequirementstxt(Promise!Owed(app)) /\ PreCompiled(app) \subseteq Promise!Owed(app)
  BY <1>1, <1>2, OwedCases DEF RequirementsInv, FromHooks, AfterPip
<1> QED
  BY <1>1, <1>2, <1>3 DEF UsesDjango, FindAnyPackage, InRequirementstxt, NoRequirementstxt

\* The environment reaches collectstatic through the files supply leaves.
LEMMA CollectstaticStep ==
    ASSUME TypeOK, Route, RequirementsInv, CollectstaticInv, Work PROVE CollectstaticInv'
<1>0. Flow /\ app' = app /\ dep \in Dep /\ build \in Build
  BY WorkFlows DEF TypeOK
<1> USE DEF CollectstaticInv, AfterStatic
<1>1. CASE pc = "CreateDefaultEnv"
  <2>1. DefaultEnv \subseteq dep'.env
    <3>1. dep'.env = dep.env \cup DefaultEnv \cup
                        (IF proc.HasNltkData THEN {"NLTK_DATA"} ELSE {})
      BY <1>0, <1>1, StepAt DEF CreateDefaultEnv, Dep
    <3> QED
      BY <3>1
  <2>2. build'.static = build.static
    BY <1>1, BuildFrame
  <2> QED
    BY <1>0, <1>1, <2>1, <2>2 DEF Flow
<1>2. CASE pc = "FinalizeEnvironment"
  <2>1. proc'.environ = dep.env
    BY <1>2, StepAt DEF FinalizeEnvironment
  <2>2. build'.static = build.static
    BY <1>2, BuildFrame
  <2> QED
    BY <1>0, <1>2, <2>1, <2>2 DEF Flow
<1>3. CASE pc = "HandleCollectstatic"
  <2>1. pc' = "ReplaceDepsDirWithLiteral" /\ proc' = proc
    BY <1>3, StepAt DEF CollectstaticSkipped, HandleCollectstatic, Goto
  <2>2. Collects(app) => build'.static = TRUE
    <3>1. CASE HandleCollectstatic
      BY <1>0, <3>1 DEF HandleCollectstatic, Build
    <3>2. CASE CollectstaticSkipped
      BY <1>3, <3>2, DjangoSeen DEF CollectstaticSkipped, Collects
    <3> QED
      BY <1>3, <3>1, <3>2, StepAt
  <2>3. ~app.conda => DefaultEnv \subseteq proc.environ
    BY <1>3
  <2> QED
    BY <1>0, <2>1, <2>2, <2>3
<1>4. CASE pc \notin {"CreateDefaultEnv", "FinalizeEnvironment", "HandleCollectstatic"}
  <2>1. /\ build'.static = build.static /\ dep.env \subseteq dep'.env
        /\ proc.environ \subseteq proc'.environ
    BY <1>4, BuildFrame, DepFrame, ProcFrame
  <2> QED
    BY <1>0, <1>4, <2>1 DEF Flow, Route, CondaSteps
<1> QED
  BY <1>1, <1>2, <1>3, <1>4

-----------------------------------------------------------------------------
\* All four hold in every reachable state.
LEMMA FilesInvariance ==
    Spec => [](TypeOK /\ RestoredInv /\ ScriptsInv /\ OfflineInv /\ CollectstaticInv)
<1> DEFINE FilesInv == RestoredInv /\ ScriptsInv /\ OfflineInv /\ CollectstaticInv
<1>1. Init => FilesInv
  BY DEF Init, RestoredInv, ScriptsInv, OfflineInv, CollectstaticInv, Untouched, Vendored,
         BeforeGeneration, WhileGenerated, AfterStatic, InFinalize, BeforePip
<1>2. TypeOK /\ Route /\ RequirementsInv /\ FilesInv /\ [Next]_vars => FilesInv'
  <2>1. FilesInv /\ Fail => FilesInv'
    BY DEF Fail, RestoredInv, ScriptsInv, OfflineInv, CollectstaticInv, Untouched, Vendored,
           BeforeGeneration, WhileGenerated, AfterStatic, InFinalize, BeforePipEnv, CondaSteps,
           BeforePip
  <2>2. FilesInv /\ UNCHANGED vars => FilesInv'
    BY DEF vars, RestoredInv, ScriptsInv, OfflineInv, CollectstaticInv, Untouched, Vendored,
           Collects
  <2> QED
    BY <2>1, <2>2, RestoredStep, ScriptsStep, OfflineStep, CollectstaticStep DEF Next
<1> QED
  BY <1>1, <1>2, PackagesInvariance, PTL DEF Spec

(***************************************************************************)
(* A requirements.txt that supply generated is gone from the droplet, one  *)
(* that the app brought is there with all it includes: the flag that       *)
(* decides between them is set by whichever of InstallPipEnv and           *)
(* HandleRequirementstxt writes the file, and by nobody else.              *)
(***************************************************************************)
THEOREM BuildDirIsRestored == Spec => []BuildDirRestored
<1>1. RestoredInv => BuildDirRestored
  BY DEF RestoredInv, BuildDirRestored, StagedPython, Staged, Untouched, InFinalize, AfterStatic
<1> QED
  BY <1>1, FilesInvariance, PTL

(***************************************************************************)
(* However many times pip runs, the scripts of all it installed are linked *)
(* into bin and have a portable first line in the droplet.                 *)
(***************************************************************************)
THEOREM ScriptsAreUsable == Spec => []ScriptsUsable
<1>1. ScriptsInv => ScriptsUsable
  BY DEF ScriptsInv, ScriptsUsable, StagedPython, Staged, InFinalize, AfterStatic
<1> QED
  BY <1>1, FilesInvariance, PTL

(***************************************************************************)
(* A vendored app is staged without a package index, in every state and    *)
(* whether or not staging succeeds, if its only index options are those    *)
(* the buildpack strips and pipenv has nothing to lock.                    *)
(***************************************************************************)
THEOREM VendoredStaysOffline == Spec => []OfflineWhenVendored
<1>1. OfflineInv => OfflineWhenVendored
  BY DEF OfflineInv, OfflineWhenVendored, Vendored
<1> QED
  BY <1>1, FilesInvariance, PTL

(***************************************************************************)
(* collectstatic has run for an app whose requirements name Django, in     *)
(* whatever file they do, and ran with the environment of the installed    *)
(* interpreter, though finalize is another process than supply.            *)
(***************************************************************************)
THEOREM CollectstaticHasRun == Spec => []CollectstaticRan
<1>1. TypeOK /\ CollectstaticInv => CollectstaticRan
  <2> SUFFICES ASSUME TypeOK, CollectstaticInv PROVE CollectstaticRan
    OBVIOUS
  <2>1. build.static \in BOOLEAN
    BY DEF TypeOK, Build
  <2>2. {"PYTHONHOME", "PYTHONPATH"} \subseteq DefaultEnv
    BY DEF DefaultEnv
  <2> QED
    BY <2>1, <2>2 DEF CollectstaticInv, CollectstaticRan, Collects, Staged, AfterStatic
<1> QED
  BY <1>1, FilesInvariance, PTL
=============================================================================
