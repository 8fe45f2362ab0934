------------------------- MODULE StagingRuntimeProofs ------------------------
(***************************************************************************)
(* Which python a staging installs, and whether it announces NLTK's data,  *)
(* for every app, every manifest and every way of matching versions.       *)
(***************************************************************************)
EXTENDS StagingTypeProofs

BeforeRuntime == {"AppDynamics", "AppHook", "Sealights", "MakeDepDirs", "SetStagingEnvironment",
                  "Run", "SetupCacheDir", "CopyRuntimeTxt"}
BeforeInstallation == BeforeRuntime \cup {"HandlePipfile", "InstallPython"}
BeforeNltk == {"InstallPip", "InstallPipEnv", "HandleRequirementstxt", "HandlePylibmc", "HandleFfi",
               "UninstallUnusedDependencies", "RunPip", "DownloadNLTKCorpora", "RewriteShebangs",
               "CreateDefaultEnv"}
AfterNltk == {"RemoveGenerated", "CompleteSupply", "FinalizeEnvironment", "HandleCollectstatic",
              "ReplaceDepsDirWithLiteral", "ReplaceLiteralWithDepsDirAtRuntime", "PostCompile",
              "SetLaunchEnvironment", "done"}

\* The version on its way: from runtime.txt or Pipfile.lock into the dependency
\* directory, from there to the manifest, and into the interpreter.
VersionOnItsWay ==
    /\ pc \in BeforeRuntime => dep.runtime = Absent
    /\ pc = "HandlePipfile" => dep.runtime = app.runtime
    /\ pc = "InstallPython" => SelectedPython = RequestedPython(app)
    /\ pc \in BeforeNltk => dep.python = RequestedPython(app)
    /\ pc \in AfterNltk /\ ~app.conda => dep.python = RequestedPython(app)

\* HasNltkData says what was downloaded until the environment is written.
NltkOnItsWay ==
    /\ pc \in BeforeInstallation \cup CondaSteps => dep.nltkData = FALSE
    /\ pc \in BeforeInstallation \cup CondaSteps \cup BeforeNltk =>
          /\ "NLTK_DATA" \notin dep.env /\ "export NLTK_DATA" \notin dep.profile
          /\ proc.HasNltkData = dep.nltkData
    /\ pc \in AfterNltk =>
          /\ "NLTK_DATA" \in dep.env <=> dep.nltkData = TRUE
          /\ "export NLTK_DATA" \in dep.profile <=> dep.nltkData = TRUE
    /\ pc = "done" => build.launch = dep.profile

-----------------------------------------------------------------------------
\* The version that is asked for, by the file that comes first.
LEMMA RequestedCases ==
    ASSUME NEW a \in App
    PROVE  /\ a.runtime # Absent => RequestedPython(a) = MatchingPython[a.runtime]
           /\ a.runtime = Absent /\ a.lock # Absent =>
                 RequestedPython(a) = MatchingPython[FormattedVersion[a.lock.python]]
           /\ a.runtime = Absent /\ a.lock = Absent => RequestedPython(a) = DefaultVersion
  BY DEF RequestedPython

\* runtime.txt is looked for first, Pipfile.lock next; no other step has to do
\* with the version.
LEMMA VersionStep ==
    ASSUME TypeOK, Route, VersionOnItsWay, Work PROVE VersionOnItsWay'
<1>0. Flow /\ app' = app /\ app \in App /\ dep \in Dep
  BY WorkFlows DEF TypeOK
<1>1. CASE pc = "CopyRuntimeTxt"
  <2>1. pc' = "HandlePipfile" /\ dep.runtime = Absent
    BY <1>0, <1>1 DEF Flow, VersionOnItsWay, BeforeRuntime
  <2>2. dep'.runtime = app.runtime
    BY <1>0, <1>1, <2>1, StepAt DEF CopyRuntimeTxt, Dep
  <2> QED
    BY <1>0, <2>1, <2>2 DEF VersionOnItsWay, BeforeRuntime, BeforeNltk, AfterNltk
<1>2. CASE pc = "HandlePipfile"
  <2>1. pc' = "InstallPython" /\ dep.runtime = app.runtime
    BY <1>0, <1>2 DEF Flow, VersionOnItsWay
  <2>2. app.lock # Absent => FormattedVersion[app.lock.python] # Absent
    <3>1. app.lock # Absent => app.lock.python \in LockVersion
      BY <1>0, AppFields DEF Lock
    <3> QED
      BY <3>1, VersionAssumption
  <2>3. dep'.runtime = IF app.lock # Absent /\ app.runtime = Absent
                       THEN FormattedVersion[app.lock.python] ELSE app.runtime
    BY <1>0, <1>2, <2>1, StepAt DEF HandlePipfile, Dep
  <2>4. SelectedPython' = RequestedPython(app)
    BY <1>0, <2>2, <2>3, RequestedCases DEF SelectedPython
  <2> QED
    BY <1>0, <2>1, <2>4 DEF VersionOnItsWay, BeforeRuntime, BeforeNltk, AfterNltk
<1>3. CASE pc = "InstallPython"
  <2>1. pc' = "InstallPip" /\ SelectedPython = RequestedPython(app)
    BY <1>0, <1>3 DEF Flow, VersionOnItsWay
  <2>2. dep'.python = SelectedPython
    BY <1>0, <1>3, StepAt DEF InstallPython, LinkBin, Dep
  <2> QED
    BY <1>0, <2>1, <2>2 DEF VersionOnItsWay, BeforeRuntime, BeforeNltk, AfterNltk
<1>4. CASE pc \notin {"CopyRuntimeTxt", "HandlePipfile", "InstallPython"}
  <2>1. dep'.runtime = dep.runtime /\ dep'.python = dep.python
    BY <1>4, DepFrame
  <2> QED
    BY <1>0, <1>4, <2>1 DEF Flow, Route, VersionOnItsWay, BeforeRuntime, BeforeNltk, AfterNltk,
                            CondaSteps, SelectedPython
<1> QED
  BY <1>1, <1>2, <1>3, <1>4

\* Types, the route and the version in every reachable state.
LEMMA VersionInvariance == Spec => [](TypeOK /\ Route /\ VersionOnItsWay)
<1>1. Init => VersionOnItsWay
  BY DEF Init, VersionOnItsWay, BeforeRuntime, BeforeNltk, AfterNltk
<1>2. TypeOK /\ Route /\ VersionOnItsWay /\ [Next]_vars => VersionOnItsWay'
  <2>1. VersionOnItsWay /\ (Fail \/ UNCHANGED vars) => VersionOnItsWay'
    BY DEF Fail, vars, VersionOnItsWay, SelectedPython, BeforeRuntime, BeforeNltk, AfterNltk
  <2> QED
    BY <2>1, VersionStep DEF Next
<1> QED
  BY <1>1, <1>2, TypesAndRoute, PTL DEF Spec

(***************************************************************************)
(* The interpreter in the droplet is the one the app asked for: runtime.txt *)
(* beats Pipfile.lock beats the default, whatever versions there are and   *)
(* however they match.                                                     *)
(***************************************************************************)
THEOREM PythonIsRequested == Spec => []PythonAsRequested
<1>1. VersionOnItsWay => PythonAsRequested
  BY DEF VersionOnItsWay, PythonAsRequested, StagedPython, Staged, AfterNltk
<1> QED
  BY <1>1, VersionInvariance, PTL

-----------------------------------------------------------------------------
\* The corpora are downloaded, the environment says so, the launcher reads it;
\* no other step has to do with NLTK's data.
LEMMA NltkStep ==
    ASSUME TypeOK, Route, NltkOnItsWay, Work PROVE NltkOnItsWay'
<1>0. Flow /\ dep \in Dep /\ proc \in Proc /\ build \in Build
  BY WorkFlows DEF TypeOK
<1> USE DEF NltkOnItsWay, BeforeInstallation, BeforeRuntime, BeforeNltk, AfterNltk, CondaSteps
<1>1. CASE pc = "DownloadNLTKCorpora"
  <2>1. pc' = "RewriteShebangs" /\ dep'.env \subseteq dep.env \cup {"XDG_CACHE_HOME", "LIBFFI", "LIBMEMCACHED"}
        /\ dep'.profile = dep.profile
    BY <1>0, <1>1, DepFrame DEF Flow
  <2>2. proc'.HasNltkData = dep'.nltkData
    <3>1. CASE DownloadNLTKCorporaSkipped
      BY <1>1, <3>1 DEF DownloadNLTKCorporaSkipped
    <3>2. CASE DownloadNLTKCorpora
      BY <1>0, <3>2 DEF DownloadNLTKCorpora, Dep, Proc
    <3> QED
      BY <1>1, <3>1, <3>2, StepAt
  <2> QED
    BY <1>1, <2>1, <2>2
<1>2. CASE pc = "CreateDefaultEnv"
  <2>1. pc' = "RemoveGenerated" /\ dep'.nltkData = dep.nltkData
        /\ dep.nltkData \in BOOLEAN
    BY <1>0, <1>2, DepFrame DEF Flow, Dep
  <2>2. /\ "NLTK_DATA" \notin dep.env /\ "export NLTK_DATA" \notin dep.profile
        /\ proc.HasNltkData = dep.nltkData
    BY <1>2
  <2>3. /\ dep'.env = dep.env \cup DefaultEnv \cup
                         (IF proc.HasNltkData THEN {"NLTK_DATA"} ELSE {})
        /\ dep'.profile = dep.profile \cup {"python.sh"} \cup
                             (IF proc.HasNltkData THEN {"export NLTK_DATA"} ELSE {})
    BY <1>0, <1>2, StepAt DEF CreateDefaultEnv, Dep
  <2>4. CASE dep.nltkData = TRUE
    BY <2>1, <2>2, <2>3, <2>4
  <2>5. CASE dep.nltkData = FALSE
    BY <2>1, <2>2, <2>3, <2>5 DEF DefaultEnv
  <2> QED
    BY <2>1, <2>4, <2>5
<1>3. CASE pc = "SetLaunchEnvironment"
  <2>1. pc' = "done" /\ dep' = dep /\ build'.launch = dep.profile
    BY <1>0, <1>3, StepAt DEF SetLaunchEnvironment, Goto, Build
  <2> QED
    BY <1>3, <2>1
<1>4. CASE pc \notin {"DownloadNLTKCorpora", "CreateDefaultEnv", "SetLaunchEnvironment"}
  <2>1. /\ dep'.nltkData = dep.nltkData /\ dep.env \subseteq dep'.env
        /\ dep'.env \subseteq dep.env \cup {"XDG_CACHE_HOME", "LIBFFI", "LIBMEMCACHED"}
    BY <1>4, DepFrame
  <2>2. "export NLTK_DATA" \in dep'.profile <=> "export NLTK_DATA" \in dep.profile
    BY <1>4, DepFrame, ProfileFrame
  <2>3. pc # "FinalizeEnvironment" => proc'.HasNltkData = proc.HasNltkData
    BY <1>4, ProcFrame
  <2> QED
    BY <1>0, <1>4, <2>1, <2>2, <2>3 DEF Flow
<1> QED
  BY <1>1, <1>2, <1>3, <1>4

\* Types, the route and NLTK's data in every reachable state.
LEMMA NltkInvariance == Spec => [](TypeOK /\ Route /\ NltkOnItsWay)
<1>1. Init => NltkOnItsWay
  BY DEF Init, NltkOnItsWay, BeforeInstallation, BeforeRuntime, BeforeNltk, AfterNltk, CondaSteps
<1>2. TypeOK /\ Route /\ NltkOnItsWay /\ [Next]_vars => NltkOnItsWay'
  <2>1. NltkOnItsWay /\ (Fail \/ UNCHANGED vars) => NltkOnItsWay'
    BY DEF Fail, vars, NltkOnItsWay, BeforeInstallation, BeforeRuntime, BeforeNltk, AfterNltk,
           CondaSteps
  <2> QED
    BY <2>1, NltkStep DEF Next
<1> QED
  BY <1>1, <1>2, TypesAndRoute, PTL DEF Spec

(***************************************************************************)
(* NLTK_DATA is in the environment of later buildpacks and of the launched *)
(* app exactly when the corpora were downloaded: the field that carries    *)
(* the news inside the supply process does not outlive it, the two files   *)
(* do.                                                                     *)
(***************************************************************************)
THEOREM NltkDataIsAnnounced == Spec => []NltkDataAnnounced
<1>1. TypeOK /\ NltkOnItsWay => NltkDataAnnounced
  <2> SUFFICES ASSUME TypeOK, NltkOnItsWay, Staged
               PROVE  /\ "NLTK_DATA" \in dep.env <=> dep.nltkData
                      /\ "export NLTK_DATA" \in build.launch <=> dep.nltkData
    BY DEF NltkDataAnnounced
  <2>1. /\ "NLTK_DATA" \in dep.env <=> dep.nltkData = TRUE
        /\ "export NLTK_DATA" \in build.launch <=> dep.nltkData = TRUE
    BY DEF NltkOnItsWay, Staged, AfterNltk
  <2>2. dep.nltkData \in BOOLEAN
    BY DEF TypeOK, Dep
  <2> QED
    BY <2>1, <2>2
<1> QED
  BY <1>1, NltkInvariance, PTL
=============================================================================
