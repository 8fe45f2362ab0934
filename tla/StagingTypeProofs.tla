------------------------- MODULE StagingTypeProofs --------------------------
(***************************************************************************)
(* Every step of a staging leaves a state of the right kind, for every set *)
(* of packages, files, versions and apps; and which step follows which and *)
(* which steps write which part of the state, said once for the proofs     *)
(* that follow something through a staging.                                *)
(***************************************************************************)
EXTENDS Staging, TLAPS

(* What the ways in which staging writes requirements.txt do to the        *)
(* packages it names, the files it includes counted in.                    *)

\* A new requirements.txt is a file with the given packages, next to the others.
LEMMA WithFileType ==
    ASSUME NEW t \in Tree, NEW pkgs \in SUBSET Package
    PROVE  /\ WithFile(t, pkgs) \in Tree
           /\ WithFile(t, pkgs)[Top] = [pkgs |-> pkgs, includes |-> {}]
           /\ WithFile(t, pkgs)[Top] # Absent
  BY TopAssumption, AbsentAssumption DEF WithFile, Tree, Contents

\* A line appended gives a file, also when there was none.
LEMMA WithPackageType ==
    ASSUME NEW t \in Tree, NEW p \in Package
    PROVE  /\ WithPackage(t, p) \in Tree
           /\ WithPackage(t, p)[Top] # Absent
<1>1. CASE t[Top] = Absent
  BY <1>1, WithFileType DEF WithPackage
<1>2. CASE t[Top] # Absent
  <2>1. t[Top] \in Contents
    BY <1>2, TopAssumption DEF Tree
  <2>2. [t[Top] EXCEPT !.pkgs = @ \cup {p}] \in Contents
    BY <2>1 DEF Contents
  <2>3. WithPackage(t, p) = [t EXCEPT ![Top] = [t[Top] EXCEPT !.pkgs = @ \cup {p}]]
    BY <1>2 DEF WithPackage
  <2> QED
    BY <2>2, <2>3, TopAssumption, AbsentAssumption DEF Tree
<1> QED
  BY <1>1, <1>2

\* Removal leaves the other files.
LEMMA WithoutFileType ==
    ASSUME NEW t \in Tree
    PROVE  WithoutFile(t) \in Tree /\ WithoutFile(t)[Top] = Absent
  BY TopAssumption DEF WithoutFile, Tree

\* Requirements files name packages.
LEMMA PackagesType == ASSUME NEW t \in Tree PROVE PackagesOf(t) \subseteq Package
  BY DEF PackagesOf, Tree, Contents, Reach

\* A new requirements.txt includes nothing: it names what was written, no more.
LEMMA PackagesWithFile ==
    ASSUME NEW t \in Tree, NEW pkgs \in SUBSET Package
    PROVE  PackagesOf(WithFile(t, pkgs)) = pkgs
<1> DEFINE w == WithFile(t, pkgs)
<1>1. w[Top] = [pkgs |-> pkgs, includes |-> {}] /\ w[Top] # Absent
  BY WithFileType
<1>2. Includes(w, Top) = {}
  BY <1>1 DEF Includes
<1>3. Reach(w, Top) = {Top}
  <2>1. Top \in Reach(w, Top)
    BY TopAssumption DEF Reach
  <2>2. Closed(w, {Top})
    BY <1>2 DEF Closed
  <2>3. Reach(w, Top) \subseteq {Top}
    BY <2>2, TopAssumption DEF Reach
  <2> QED
    BY <2>1, <2>3
<1>4. {g \in Reach(w, Top) : w[g] # Absent} = {Top}
  BY <1>1, <1>3
<1> QED
  BY <1>1, <1>4 DEF PackagesOf

\* Without a requirements.txt nothing is named, whatever other files there are.
LEMMA PackagesOfNone ==
    ASSUME NEW t \in Tree, t[Top] = Absent PROVE PackagesOf(t) = {}
<1>1. Closed(t, {Top})
  BY DEF Closed, Includes
<1>2. Reach(t, Top) \subseteq {Top}
  BY <1>1, TopAssumption DEF Reach
<1> QED
  BY <1>2 DEF PackagesOf

\* A line appended adds what it names to what the file and its includes name.
LEMMA PackagesWithPackage ==
    ASSUME NEW t \in Tree, NEW p \in Package
    PROVE  PackagesOf(WithPackage(t, p)) = PackagesOf(t) \cup {p}
<1> DEFINE w == WithPackage(t, p)
<1>0. CASE t[Top] = Absent
  BY <1>0, PackagesOfNone, PackagesWithFile DEF WithPackage
<1>1. CASE t[Top] # Absent
  <2>1. t[Top] \in Contents
    BY <1>1, TopAssumption DEF Tree
  <2>2. w[Top] = [t[Top] EXCEPT !.pkgs = @ \cup {p}] /\ \A f \in ReqFile \ {Top} : w[f] = t[f]
    BY <1>1, TopAssumption DEF WithPackage, Tree
  <2>3. /\ w[Top].includes = t[Top].includes /\ w[Top].pkgs = t[Top].pkgs \cup {p}
        /\ w[Top] # Absent
    BY <2>1, <2>2, WithPackageType DEF Contents
  <2>4. \A f \in ReqFile : Includes(w, f) = Includes(t, f)
    BY <1>1, <2>2, <2>3 DEF Includes
  <2>5. \A C \in SUBSET ReqFile : Closed(w, C) <=> Closed(t, C)
    BY <2>4 DEF Closed
  <2>6. Reach(w, Top) = Reach(t, Top) /\ Top \in Reach(t, Top)
    BY <2>5, TopAssumption DEF Reach
  <2>7. \A f \in Reach(t, Top) : w[f] # Absent <=> t[f] # Absent
    BY <1>1, <2>2, <2>3 DEF Reach
  <2>8. \A f \in Reach(t, Top) \ {Top} : w[f].pkgs = t[f].pkgs
    BY <2>2 DEF Reach
  <2>9. \A q : q \in PackagesOf(w) <=> q \in PackagesOf(t) \cup {p}
    BY <1>1, <2>3, <2>6, <2>7, <2>8 DEF PackagesOf
  <2> QED
    BY <2>9
<1> QED
  BY <1>0, <1>1

\* Removal takes back a writing, and does nothing where there is no file.
LEMMA WithoutWritten ==
    ASSUME NEW t \in Tree, t[Top] = Absent, NEW pkgs \in SUBSET Package
    PROVE  WithoutFile(WithFile(t, pkgs)) = t /\ WithoutFile(t) = t
  BY TopAssumption DEF WithoutFile, WithFile, Tree

-----------------------------------------------------------------------------
(* What the steps read and write is of the right kind.                     *)

\* The fields of a pushed app that staging copies.
LEMMA AppFields ==
    ASSUME NEW a \in App
    PROVE  /\ a.reqs \in Tree /\ a.indexed \subseteq IndexOption
           /\ a.pipfile # Absent => a.pipfile \subseteq Package
           /\ a.lock # Absent => a.lock \in Lock
           /\ a.runtime \in PythonConstraint \cup {Absent}
           /\ a.procfile \in {Absent} \cup Seq(Process)
           /\ a.preCompile # Absent => a.preCompile \subseteq Package
           /\ a.services \subseteq Agent
  BY DEF App

\* An installation adds to site-packages and leaves the libraries alone; so does
\* linking the scripts.
LEMMA InstalledType ==
    ASSUME NEW d \in Dep, NEW pkgs \in SUBSET (Package \cup Tool), NEW e \in Installed(d, pkgs)
    PROVE  /\ e \in Dep /\ LinkBin(e) \in Dep
           /\ e.site = d.site \cup pkgs /\ LinkBin(e).site = d.site \cup pkgs
           /\ LinkBin(e).libffi = d.libffi /\ LinkBin(e).libmemcache = d.libmemcache
<1>1. PICK p \in {d.pth, "absolute"} :
        e = [d EXCEPT !.site = @ \cup pkgs, !.portable = @ \ pkgs, !.pth = p]
  BY DEF Installed
<1>2. /\ d.site \cup pkgs \in SUBSET (Package \cup Tool)
      /\ d.portable \ pkgs \in SUBSET (Package \cup Tool)
      /\ p \in {"none", "absolute", "literal"}
  BY DEF Dep
<1>3. e \in Dep
  BY <1>1, <1>2 DEF Dep
<1>4. LinkBin(e) \in Dep
  BY <1>3 DEF LinkBin, Dep
<1> QED
  BY <1>1, <1>3, <1>4 DEF LinkBin, Dep

\* WriteEnvFile with names the code uses adds files to deps/<index>/env.
LEMMA AddEnv ==
    ASSUME NEW d \in Dep, NEW names \in SUBSET EnvVar
    PROVE  [d EXCEPT !.env = @ \cup names] \in Dep
  BY DEF Dep

\* The same for WriteProfileD.
LEMMA AddProfile ==
    ASSUME NEW d \in Dep, NEW names \in SUBSET Script
    PROVE  [d EXCEPT !.profile = @ \cup names] \in Dep
  BY DEF Dep

\* The same for os.Setenv, with or without removeRequirementsText.
LEMMA AddEnviron ==
    ASSUME NEW names \in SUBSET EnvVar, proc \in Proc
    PROVE  /\ [proc EXCEPT !.environ = @ \cup names] \in Proc
           /\ [proc EXCEPT !.environ = @ \cup names, !.removeRequirementsText = TRUE] \in Proc
  BY DEF Proc

\* installFfi counts one more installation or changes nothing.
LEMMA WithFfiType == ASSUME NEW d \in Dep PROVE WithFfi(d) \in Dep
<1>1. {"LIBFFI"} \subseteq EnvVar
  BY DEF EnvVar
<1>2. d.env \cup {"LIBFFI"} \in SUBSET EnvVar /\ d.libffi + 1 \in Nat
  BY <1>1 DEF Dep
<1> QED
  BY <1>2 DEF WithFfi, Dep

\* The index options of the files that requirements.txt includes.
LEMMA OutsideTopType ==
    ASSUME build \in Build PROVE OutsideTop(build.indexed) \in SUBSET IndexOption
<1>1. build.indexed \in SUBSET IndexOption
  BY DEF Build
<1> QED
  BY <1>1 DEF OutsideTop

\* writeTempRequirementsTxt leaves a build directory.
LEMMA GeneratedType ==
    ASSUME build \in Build, NEW pkgs \in SUBSET Package, NEW index \in BOOLEAN,
           GenerateRequirements(pkgs, index)
    PROVE  /\ build' \in Build
           /\ build'.reqs = WithFile(build.reqs, pkgs)
<1>1. build.reqs \in Tree
  BY DEF Build
<1>2. WithFile(build.reqs, pkgs) \in Tree
  BY <1>1, WithFileType
<1>3. OutsideTop(build.indexed) \cup (IF index THEN {<<Top, "space">>} ELSE {}) \in SUBSET IndexOption
  <2>1. <<Top, "space">> \in IndexOption
    BY TopAssumption DEF IndexOption
  <2>2. OutsideTop(build.indexed) \in SUBSET IndexOption
    BY OutsideTopType
  <2> QED
    BY <2>1, <2>2
<1> QED
  BY <1>2, <1>3 DEF GenerateRequirements, Build

\* An agent's hook leaves a build directory: the Procfile has a first process.
LEMMA WithAgentType ==
    ASSUME TypeOK, NEW a \in Agent, ProcfileAccepted
    PROVE  WithAgent(a) \in Build
<1>1. AgentPackage[a] \in Package
  BY PackageAssumption DEF Agent, AgentPackage
<1>2. WithPackage(build.reqs, AgentPackage[a]) \in Tree
  BY <1>1, WithPackageType DEF TypeOK, Build
<1>3. build.procfile # Absent => GenerateStartUpCommand(build.procfile, a) \in Seq(Process)
  <2> SUFFICES ASSUME build.procfile # Absent
               PROVE  GenerateStartUpCommand(build.procfile, a) \in Seq(Process)
    OBVIOUS
  <2>1. build.procfile \in Seq(Process) /\ build.procfile # <<>>
    BY DEF TypeOK, Build, ProcfileAccepted
  <2>5. build.procfile[1] \in Process
    BY <2>1
  <2>2. build.procfile[1].agents \in Seq(Agent)
    BY <2>5 DEF Process
  <2>3. <<a>> \o build.procfile[1].agents \in Seq(Agent)
    BY <2>2
  <2>4. [type |-> "web", agents |-> <<a>> \o build.procfile[1].agents] \in Process
    BY <2>3 DEF Process
  <2> QED
    BY <2>1, <2>4 DEF GenerateStartUpCommand
<1> QED
  BY <1>2, <1>3 DEF WithAgent, TypeOK, Build

-----------------------------------------------------------------------------
\* A fresh container is well typed.
LEMMA InitType == Init => TypeOK
<1> SUFFICES ASSUME Init PROVE TypeOK
  OBVIOUS
<1>1. app \in App
  BY AppsAssumption DEF Init
<1>2. build \in Build
  BY <1>1, AppFields DEF Init, Build
<1>3. dep \in Dep /\ proc \in Proc
  BY DEF Init, Dep, Proc
<1> QED
  BY <1>1, <1>2, <1>3 DEF TypeOK, Init, Step

\* The steps of the hooks.
LEMMA HooksTypes == ASSUME TypeOK, HooksNext PROVE TypeOK'
<1>1. CASE AppDynamicsBeforeCompile
  <2>1. build' \in Build
    BY <1>1, WithAgentType DEF AppDynamicsBeforeCompile, Agent
  <2>2. {"appdynamics.sh"} \in SUBSET Script
    BY DEF Script
  <2>3. dep' \in Dep
    BY <1>1, <2>2, AddProfile DEF AppDynamicsBeforeCompile, TypeOK
  <2> QED
    BY <1>1, <2>1, <2>3 DEF TypeOK, AppDynamicsBeforeCompile, Goto, Step
<1>2. CASE AppDynamicsSkipped
  BY <1>2 DEF TypeOK, AppDynamicsSkipped, Goto, Step
<1>3. CASE AppHookBeforeCompile
  <2>1. build' \in Build
    <3>1. CASE app.preCompile = Absent
      BY <1>3, <3>1 DEF AppHookBeforeCompile, TypeOK
    <3>2. CASE app.preCompile # Absent
      <4>1. app.preCompile \subseteq Package
        BY <3>2, AppFields DEF TypeOK
      <4>2. build.reqs \in Tree
        BY DEF TypeOK, Build
      <4>3. /\ WithFile(build.reqs, app.preCompile) \in Tree
            /\ OutsideTop(build.indexed) \in SUBSET IndexOption
        BY <4>1, <4>2, WithFileType DEF TypeOK, Build, OutsideTop
      <4> QED
        BY <1>3, <3>2, <4>3 DEF AppHookBeforeCompile, TypeOK, Build
    <3> QED
      BY <3>1, <3>2
  <2> QED
    BY <1>3, <2>1 DEF TypeOK, AppHookBeforeCompile, Goto, Step
<1>4. CASE SealightsBeforeCompile
  <2>1. build' \in Build
    BY <1>4, WithAgentType DEF SealightsBeforeCompile, Agent
  <2> QED
    BY <1>4, <2>1 DEF TypeOK, SealightsBeforeCompile, Goto, Step
<1>5. CASE SealightsSkipped
  BY <1>5 DEF TypeOK, SealightsSkipped, Goto, Step
<1> QED
  BY <1>1, <1>2, <1>3, <1>4, <1>5 DEF HooksNext

\* The steps of supply.
LEMMA SupplyTypes == ASSUME TypeOK, SupplyNext PROVE TypeOK'
<1>1. CASE MakeDepDirs
  BY <1>1 DEF TypeOK, MakeDepDirs, Goto, Step, Dep
<1>2. CASE SetStagingEnvironment
  BY <1>2 DEF TypeOK, SetStagingEnvironment, Goto, Step, Proc, Dep
<1>3. CASE Run
  BY <1>3 DEF TypeOK, Run, Goto, Step
<1>4. CASE SetupCacheDir
  BY <1>4 DEF TypeOK, SetupCacheDir, Goto, Step, Proc, Dep, EnvVar
<1>5. CASE CopyRuntimeTxt
  <2>1. dep' \in Dep
    BY <1>5, AppFields DEF CopyRuntimeTxt, TypeOK, Dep
  <2> QED
    BY <1>5, <2>1 DEF TypeOK, CopyRuntimeTxt, Goto, Step
<1>6. CASE HandlePipfile
  <2>1. app.lock # Absent => FormattedVersion[app.lock.python] \in PythonConstraint
    BY AppFields, VersionAssumption DEF Lock, TypeOK
  <2>2. dep' \in Dep
    BY <1>6, <2>1 DEF HandlePipfile, TypeOK, Dep
  <2> QED
    BY <1>6, <2>2 DEF TypeOK, HandlePipfile, Goto, Step
<1>7. CASE InstallPython
  <2>1. SelectedPython \in PythonVersion
    BY <1>7, VersionAssumption DEF InstallPython, SelectedPython, TypeOK, Dep
  <2>2. dep.site \cup {"pip"} \in SUBSET (Package \cup Tool)
    BY DEF TypeOK, Dep, Tool
  <2>3. dep' \in Dep
    BY <1>7, <2>1, <2>2 DEF InstallPython, LinkBin, TypeOK, Dep
  <2>4. {"PYTHONPATH", "CFLAGS"} \in SUBSET EnvVar
    BY DEF EnvVar
  <2>5. proc' \in Proc
    BY <1>7, <2>4, AddEnviron DEF InstallPython, TypeOK
  <2> QED
    BY <1>7, <2>3, <2>5 DEF TypeOK, InstallPython, Goto, Step
<1>8. CASE InstallPip
  <2>1. {"pip"} \in SUBSET (Package \cup Tool)
    BY DEF Tool
  <2>2. dep' \in Dep
    BY <1>8, <2>1, InstalledType DEF InstallPip, TypeOK
  <2> QED
    BY <1>8, <2>2 DEF TypeOK, InstallPip, Goto, Step
<1>9. CASE InstallPipEnvSkipped
  BY <1>9 DEF TypeOK, InstallPipEnvSkipped, Goto, Step
<1>10. CASE PipfileToRequirements
  <2>1. app.lock.pkgs \in SUBSET Package /\ app.lock.index \in BOOLEAN
    BY <1>10, AppFields DEF PipfileToRequirements, TypeOK, Lock
  <2>2. build' \in Build
    BY <1>10, <2>1, GeneratedType DEF PipfileToRequirements, TypeOK
  <2>3. proc' \in Proc
    BY <1>10 DEF PipfileToRequirements, TypeOK, Proc
  <2> QED
    BY <1>10, <2>2, <2>3 DEF TypeOK, PipfileToRequirements, Goto, Step
<1>11. CASE PipenvLock
  <2>1. app.pipfile \in SUBSET Package
    BY <1>11, AppFields DEF PipenvLock, TypeOK
  <2>2. build' \in Build
    BY <1>11, <2>1, GeneratedType DEF PipenvLock, TypeOK
  <2>3. PipenvTools \in SUBSET (Package \cup Tool) /\ WithFfi(dep) \in Dep
    BY WithFfiType DEF TypeOK, Tool
  <2>4. dep' \in Dep
    BY <1>11, <2>3, InstalledType DEF PipenvLock
  <2>5. {"LIBFFI"} \in SUBSET EnvVar
    BY DEF EnvVar
  <2>6. proc' \in Proc
    BY <1>11, <2>5, AddEnviron DEF PipenvLock, TypeOK
  <2> QED
    BY <1>11, <2>2, <2>4, <2>6 DEF TypeOK, PipenvLock, Goto, Step
<1>12. CASE HandleRequirementstxt
  <2>1. {Self} \in SUBSET Package
    BY PackageAssumption
  <2>2. build' \in Build
    BY <1>12, <2>1, GeneratedType DEF HandleRequirementstxt, TypeOK
  <2>3. proc' \in Proc
    BY <1>12 DEF HandleRequirementstxt, TypeOK, Proc
  <2> QED
    BY <1>12, <2>2, <2>3 DEF TypeOK, HandleRequirementstxt, Goto, Step
<1>13. CASE HandlePylibmc
  <2>1. {"LIBMEMCACHED"} \in SUBSET EnvVar
    BY DEF EnvVar
  <2>2. proc' \in Proc
    BY <1>13, <2>1, AddEnviron DEF HandlePylibmc, TypeOK
  <2>7. dep.libmemcache + 1 \in Nat /\ dep.env \cup {"LIBMEMCACHED"} \in SUBSET EnvVar
    BY <2>1 DEF TypeOK, Dep
  <2>3. [dep EXCEPT !.libmemcache = @ + 1, !.env = @ \cup {"LIBMEMCACHED"}] \in Dep
    BY <2>7 DEF TypeOK, Dep
  <2> QED
    BY <1>13, <2>2, <2>3 DEF TypeOK, HandlePylibmc, Goto, Step
<1>14. CASE HandleFfi
  <2>1. {"LIBFFI"} \in SUBSET EnvVar
    BY DEF EnvVar
  <2>2. proc' \in Proc
    BY <1>14, <2>1, AddEnviron DEF HandleFfi, TypeOK
  <2>3. dep' \in Dep
    BY <1>14, WithFfiType DEF HandleFfi, TypeOK
  <2> QED
    BY <1>14, <2>2, <2>3 DEF TypeOK, HandleFfi, Goto, Step
<1>15. CASE UninstallUnusedDependencies
  BY <1>15 DEF TypeOK, UninstallUnusedDependencies, Goto, Step
<1>16. CASE RunPipSkipped
  BY <1>16 DEF TypeOK, RunPipSkipped, Goto, Step, Proc, EnvVar
<1>17. CASE RunPipUnvendored
  <2>1. PackagesOf(build.reqs) \in SUBSET (Package \cup Tool)
    BY PackagesType DEF TypeOK, Build
  <2>2. dep' \in Dep
    BY <1>17, <2>1, InstalledType DEF RunPipUnvendored, TypeOK
  <2>3. {"PIP_CERT"} \in SUBSET EnvVar
    BY DEF EnvVar
  <2>4. proc' \in Proc
    BY <1>17, <2>3, AddEnviron DEF RunPipUnvendored, TypeOK
  <2> QED
    BY <1>17, <2>2, <2>4 DEF TypeOK, RunPipUnvendored, Goto, Step
<1>18. CASE RunPipVendored
  <2>1. PackagesOf(build.reqs) \cup (IF app.vendor.sdist THEN CommonBuildDeps ELSE {})
          \in SUBSET (Package \cup Tool)
    BY PackagesType DEF TypeOK, Build, Tool
  <2>2. dep' \in Dep
    BY <1>18, <2>1, InstalledType DEF RunPipVendored, TypeOK
  <2>3. {"PIP_CERT"} \in SUBSET EnvVar
    BY DEF EnvVar
  <2>4. proc' \in Proc
    BY <1>18, <2>3, AddEnviron DEF RunPipVendored, TypeOK
  <2>5. build' \in Build
    BY <1>18 DEF RunPipVendored, TypeOK, Build, StrippedIndexed
  <2>6. pc' \in Step /\ net' \in SUBSET {"pipenv", "pip", "nltk"} /\ app' \in App
    BY <1>18 DEF RunPipVendored, TypeOK, Goto, Step
  <2> QED
    BY <2>2, <2>4, <2>5, <2>6 DEF TypeOK
<1>19. CASE DownloadNLTKCorporaSkipped
  BY <1>19 DEF TypeOK, DownloadNLTKCorporaSkipped, Goto, Step
<1>20. CASE DownloadNLTKCorpora
  BY <1>20 DEF TypeOK, DownloadNLTKCorpora, Goto, Step, Dep, Proc
<1>21. CASE RewriteShebangs
  BY <1>21 DEF TypeOK, RewriteShebangs, Goto, Step, Dep
<1>22. CASE CreateDefaultEnv
  <2>1. DefaultEnv \cup (IF proc.HasNltkData THEN {"NLTK_DATA"} ELSE {}) \in SUBSET EnvVar
    BY DEF EnvVar, DefaultEnv
  <2>2. {"python.sh"} \cup (IF proc.HasNltkData THEN {"export NLTK_DATA"} ELSE {}) \in SUBSET Script
    BY DEF Script
  <2>3. dep' \in Dep
    BY <1>22, <2>1, <2>2 DEF CreateDefaultEnv, TypeOK, Dep
  <2> QED
    BY <1>22, <2>3 DEF TypeOK, CreateDefaultEnv, Goto, Step
<1>23. CASE RemoveGenerated
  <2>1. OutsideTop(build.indexed) \in SUBSET IndexOption
    BY OutsideTopType DEF TypeOK
  <2> QED
    BY <1>23, <2>1, WithoutFileType DEF TypeOK, RemoveGenerated, Goto, Step, Build
<1>24. CASE CompleteSupply
  BY <1>24 DEF TypeOK, CompleteSupply, Goto, Step, Dep
<1> QED
  BY <1>1, <1>2, <1>3, <1>4, <1>5, <1>6, <1>7, <1>8, <1>9, <1>10, <1>11, <1>12,
     <1>13, <1>14, <1>15, <1>16, <1>17, <1>18, <1>19, <1>20, <1>21, <1>22,
     <1>23, <1>24 DEF SupplyNext

\* The steps of conda.
LEMMA CondaTypes == ASSUME TypeOK, CondaNext PROVE TypeOK'
<1>1. CASE CondaInstall
  BY <1>1 DEF TypeOK, CondaInstall, Goto, Step, Dep
<1>2. CASE CondaUpdateAndClean
  BY <1>2 DEF TypeOK, CondaUpdateAndClean, Goto, Step, Dep, Proc, EnvVar
<1>3. CASE CondaProfile
  <2>1. {"conda.sh"} \in SUBSET Script
    BY DEF Script
  <2>2. PICK linked \in BOOLEAN :
            dep' = [dep EXCEPT !.condaBin = linked, !.profile = @ \cup {"conda.sh"}]
    BY <1>3 DEF CondaProfile
  <2>3. dep' \in Dep
    BY <2>1, <2>2 DEF TypeOK, Dep
  <2> QED
    BY <1>3, <2>3 DEF TypeOK, CondaProfile, Goto, Step
<1> QED
  BY <1>1, <1>2, <1>3 DEF CondaNext

\* The steps of finalize.
LEMMA FinalizeTypes == ASSUME TypeOK, FinalizeNext PROVE TypeOK'
<1>1. CASE FinalizeEnvironment
  BY <1>1 DEF TypeOK, FinalizeEnvironment, Goto, Step, Dep, Proc
<1>2. CASE CollectstaticSkipped
  BY <1>2 DEF TypeOK, CollectstaticSkipped, Goto, Step
<1>3. CASE HandleCollectstatic
  BY <1>3 DEF TypeOK, HandleCollectstatic, Goto, Step, Build
<1>4. CASE ReplaceDepsDirWithLiteral
  BY <1>4 DEF TypeOK, ReplaceDepsDirWithLiteral, Goto, Step, Dep
<1>5. CASE ReplaceLiteralWithDepsDirAtRuntime
  <2>1. {"python.fixeggs.sh"} \in SUBSET Script
    BY DEF Script
  <2>2. dep' \in Dep
    BY <1>5, <2>1, AddProfile DEF ReplaceLiteralWithDepsDirAtRuntime, TypeOK
  <2> QED
    BY <1>5, <2>2 DEF TypeOK, ReplaceLiteralWithDepsDirAtRuntime, Goto, Step
<1>6. CASE PostCompile
  BY <1>6 DEF TypeOK, PostCompile, Goto, Step
<1>7. CASE SetLaunchEnvironment
  BY <1>7 DEF TypeOK, SetLaunchEnvironment, Goto, Step, Build, Dep
<1> QED
  BY <1>1, <1>2, <1>3, <1>4, <1>5, <1>6, <1>7 DEF FinalizeNext

-----------------------------------------------------------------------------
(***************************************************************************)
(* Type correctness of a staging: every file, field and environment        *)
(* variable the steps write is of the kind later steps read.               *)
(***************************************************************************)
THEOREM StagingTypes == Spec => []TypeOK
<1>1. TypeOK /\ [Next]_vars => TypeOK'
  <2> SUFFICES ASSUME TypeOK, [Next]_vars PROVE TypeOK'
    OBVIOUS
  <2>1. CASE HooksNext \/ SupplyNext \/ CondaNext \/ FinalizeNext
    BY <2>1, HooksTypes, SupplyTypes, CondaTypes, FinalizeTypes
  <2>2. CASE Fail
    BY <2>2 DEF Fail, TypeOK
  <2>3. CASE UNCHANGED vars
    BY <2>3 DEF vars, TypeOK
  <2> QED
    BY <2>1, <2>2, <2>3 DEF Next, Work
<1> QED
  BY InitType, <1>1, PTL DEF Spec

-----------------------------------------------------------------------------
(* The order of the steps.                                                 *)

PythonSteps == {"SetupCacheDir", "CopyRuntimeTxt", "HandlePipfile", "InstallPython", "InstallPip",
                "InstallPipEnv", "HandleRequirementstxt", "HandlePylibmc", "HandleFfi",
                "UninstallUnusedDependencies", "RunPip", "DownloadNLTKCorpora",
                "RewriteShebangs", "CreateDefaultEnv", "RemoveGenerated"}
CondaSteps == {"CondaInstall", "CondaUpdateAndClean", "CondaProfile"}

\* Which step follows which, failures left out.
Flow ==
    \/ pc = "AppDynamics" /\ pc' = "AppHook"
    \/ pc = "AppHook" /\ pc' = "Sealights"
    \/ pc = "Sealights" /\ pc' = "MakeDepDirs"
    \/ pc = "MakeDepDirs" /\ pc' = "SetStagingEnvironment"
    \/ pc = "SetStagingEnvironment" /\ pc' = "Run"
    \/ pc = "Run" /\ ~app.conda /\ pc' = "SetupCacheDir"
    \/ pc = "SetupCacheDir" /\ pc' = "CopyRuntimeTxt"
    \/ pc = "CopyRuntimeTxt" /\ pc' = "HandlePipfile"
    \/ pc = "HandlePipfile" /\ pc' = "InstallPython"
    \/ pc = "InstallPython" /\ pc' = "InstallPip"
    \/ pc = "InstallPip" /\ pc' = "InstallPipEnv"
    \/ pc = "InstallPipEnv" /\ pc' = "HandleRequirementstxt"
    \/ pc = "HandleRequirementstxt" /\ pc' = "HandlePylibmc"
    \/ pc = "HandlePylibmc" /\ pc' = "HandleFfi"
    \/ pc = "HandleFfi" /\ pc' = "UninstallUnusedDependencies"
    \/ pc = "UninstallUnusedDependencies" /\ pc' = "RunPip"
    \/ pc = "RunPip" /\ pc' = "DownloadNLTKCorpora"
    \/ pc = "DownloadNLTKCorpora" /\ pc' = "RewriteShebangs"
    \/ pc = "RewriteShebangs" /\ pc' = "CreateDefaultEnv"
    \/ pc = "CreateDefaultEnv" /\ pc' = "RemoveGenerated"
    \/ pc = "RemoveGenerated" /\ pc' = "CompleteSupply"
    \/ pc = "Run" /\ app.conda /\ pc' = "CondaInstall"
    \/ pc = "CondaInstall" /\ pc' = "CondaUpdateAndClean"
    \/ pc = "CondaUpdateAndClean" /\ pc' = "CondaProfile"
    \/ pc = "CondaProfile" /\ pc' = "CompleteSupply"
    \/ pc = "CompleteSupply" /\ pc' = "FinalizeEnvironment"
    \/ pc = "FinalizeEnvironment" /\ pc' = "HandleCollectstatic"
    \/ pc = "HandleCollectstatic" /\ pc' = "ReplaceDepsDirWithLiteral"
    \/ pc = "ReplaceDepsDirWithLiteral" /\ pc' = "ReplaceLiteralWithDepsDirAtRuntime"
    \/ pc = "ReplaceLiteralWithDepsDirAtRuntime" /\ pc' = "PostCompile"
    \/ pc = "PostCompile" /\ pc' = "SetLaunchEnvironment"
    \/ pc = "SetLaunchEnvironment" /\ pc' = "done"

\* Every step that does not fail is followed by the one named after it.
LEMMA WorkFlows == ASSUME Work PROVE Flow /\ app' = app
<1>1. CASE HooksNext
  BY <1>1 DEF HooksNext, AppDynamicsBeforeCompile, AppDynamicsSkipped, AppHookBeforeCompile,
              SealightsBeforeCompile, SealightsSkipped, Goto, Flow
<1>2. CASE SupplyNext
  BY <1>2 DEF SupplyNext, MakeDepDirs, SetStagingEnvironment, Run, SetupCacheDir,
              CopyRuntimeTxt, HandlePipfile, InstallPython, InstallPip, InstallPipEnvSkipped,
              PipfileToRequirements, PipenvLock, HandleRequirementstxt, HandlePylibmc, HandleFfi,
              UninstallUnusedDependencies, RunPipSkipped, RunPipUnvendored, RunPipVendored,
              DownloadNLTKCorporaSkipped, DownloadNLTKCorpora, RewriteShebangs,
              CreateDefaultEnv, RemoveGenerated, CompleteSupply, Goto, Flow
<1>3. CASE CondaNext \/ FinalizeNext
  BY <1>3 DEF CondaNext, CondaInstall, CondaUpdateAndClean, CondaProfile, FinalizeNext,
              FinalizeEnvironment, CollectstaticSkipped, HandleCollectstatic,
              ReplaceDepsDirWithLiteral, ReplaceLiteralWithDepsDirAtRuntime, PostCompile,
              SetLaunchEnvironment, Goto, Flow
<1> QED
  BY <1>1, <1>2, <1>3 DEF Work

\* Supply is either RunPython or conda.
Route == (pc \in PythonSteps => ~app.conda) /\ (pc \in CondaSteps => app.conda)

\* Types and the route hold in every reachable state.
LEMMA TypesAndRoute == Spec => [](TypeOK /\ Route)
<1>1. Init => Route
  BY DEF Init, Route, PythonSteps, CondaSteps
<1>2. Route /\ [Next]_vars => Route'
  <2> SUFFICES ASSUME Route, [Next]_vars PROVE Route'
    OBVIOUS
  <2>1. CASE Work
    <3>1. Flow /\ app' = app
      BY <2>1, WorkFlows
    <3> QED
      BY <3>1 DEF Flow, Route, PythonSteps, CondaSteps
  <2>2. CASE Fail \/ UNCHANGED vars
    BY <2>2 DEF Fail, vars, Route, PythonSteps, CondaSteps
  <2> QED
    BY <2>1, <2>2 DEF Next
<1> QED
  BY <1>1, <1>2, StagingTypes, PTL DEF Spec

-----------------------------------------------------------------------------
(* Who writes what.                                                        *)

\* The step that runs at each name.
LEMMA StepAt ==
    ASSUME Work
    PROVE  /\ pc = "AppDynamics" => AppDynamicsBeforeCompile \/ AppDynamicsSkipped
           /\ pc = "AppHook" => AppHookBeforeCompile
           /\ pc = "Sealights" => SealightsBeforeCompile \/ SealightsSkipped
           /\ pc = "MakeDepDirs" => MakeDepDirs
           /\ pc = "SetStagingEnvironment" => SetStagingEnvironment
           /\ pc = "SetupCacheDir" => SetupCacheDir
           /\ pc = "CopyRuntimeTxt" => CopyRuntimeTxt
           /\ pc = "HandlePipfile" => HandlePipfile
           /\ pc = "InstallPython" => InstallPython
           /\ pc = "InstallPip" => InstallPip
           /\ pc = "InstallPipEnv" => InstallPipEnvSkipped \/ PipfileToRequirements \/ PipenvLock
           /\ pc = "HandleRequirementstxt" => HandleRequirementstxt
           /\ pc = "HandlePylibmc" => HandlePylibmc
           /\ pc = "HandleFfi" => HandleFfi
           /\ pc = "RunPip" => RunPipSkipped \/ RunPipUnvendored \/ RunPipVendored
           /\ pc = "DownloadNLTKCorpora" => DownloadNLTKCorporaSkipped \/ DownloadNLTKCorpora
           /\ pc = "RewriteShebangs" => RewriteShebangs
           /\ pc = "CreateDefaultEnv" => CreateDefaultEnv
           /\ pc = "RemoveGenerated" => RemoveGenerated
           /\ pc = "CondaInstall" => CondaInstall
           /\ pc = "CondaUpdateAndClean" => CondaUpdateAndClean
           /\ pc = "CondaProfile" => CondaProfile
           /\ pc = "FinalizeEnvironment" => FinalizeEnvironment
           /\ pc = "HandleCollectstatic" => CollectstaticSkipped \/ HandleCollectstatic
           /\ pc = "ReplaceDepsDirWithLiteral" => ReplaceDepsDirWithLiteral
           /\ pc = "ReplaceLiteralWithDepsDirAtRuntime" => ReplaceLiteralWithDepsDirAtRuntime
           /\ pc = "SetLaunchEnvironment" => SetLaunchEnvironment
<1> USE DEF Goto
<1>1. CASE HooksNext
  BY <1>1 DEF HooksNext, AppDynamicsBeforeCompile, AppDynamicsSkipped, AppHookBeforeCompile,
              SealightsBeforeCompile, SealightsSkipped
<1>2. CASE SupplyNext
  BY <1>2 DEF SupplyNext, MakeDepDirs, SetStagingEnvironment, Run, SetupCacheDir,
              CopyRuntimeTxt, HandlePipfile, InstallPython, InstallPip, InstallPipEnvSkipped,
              PipfileToRequirements, PipenvLock, HandleRequirementstxt, HandlePylibmc, HandleFfi,
              UninstallUnusedDependencies, RunPipSkipped, RunPipUnvendored, RunPipVendored,
              DownloadNLTKCorporaSkipped, DownloadNLTKCorpora, RewriteShebangs,
              CreateDefaultEnv, RemoveGenerated, CompleteSupply
<1>3. CASE CondaNext \/ FinalizeNext
  BY <1>3 DEF CondaNext, CondaInstall, CondaUpdateAndClean, CondaProfile, FinalizeNext,
              FinalizeEnvironment, CollectstaticSkipped, HandleCollectstatic,
              ReplaceDepsDirWithLiteral, ReplaceLiteralWithDepsDirAtRuntime, PostCompile,
              SetLaunchEnvironment
<1> QED
  BY <1>1, <1>2, <1>3 DEF Work

\* The steps that write in the build directory, and what they leave alone.
LEMMA BuildFrame ==
    ASSUME TypeOK, Work
    PROVE  /\ pc \notin {"AppDynamics", "AppHook", "Sealights", "InstallPipEnv",
                         "HandleRequirementstxt", "RemoveGenerated"} => build'.reqs = build.reqs
           /\ pc \notin {"AppDynamics", "Sealights"} => build'.procfile = build.procfile
           /\ pc \notin {"AppHook", "InstallPipEnv", "HandleRequirementstxt", "RunPip",
                         "RemoveGenerated"} => build'.indexed = build.indexed
           /\ pc # "HandleCollectstatic" => build'.static = build.static
           /\ pc # "SetLaunchEnvironment" => build'.launch = build.launch
<1>1. build \in Build
  BY DEF TypeOK
<1>2. CASE HooksNext
  BY <1>1, <1>2 DEF HooksNext, AppDynamicsBeforeCompile, AppDynamicsSkipped,
                    AppHookBeforeCompile, SealightsBeforeCompile, SealightsSkipped, Goto,
                    WithAgent, Build
<1>3. CASE SupplyNext
  BY <1>1, <1>3 DEF SupplyNext, MakeDepDirs, SetStagingEnvironment, Run, SetupCacheDir,
              CopyRuntimeTxt, HandlePipfile, InstallPython, InstallPip, InstallPipEnvSkipped,
              PipfileToRequirements, PipenvLock, HandleRequirementstxt, HandlePylibmc, HandleFfi,
              UninstallUnusedDependencies, RunPipSkipped, RunPipUnvendored, RunPipVendored,
              DownloadNLTKCorporaSkipped, DownloadNLTKCorpora, RewriteShebangs,
              CreateDefaultEnv, RemoveGenerated, CompleteSupply, Goto, GenerateRequirements, Build
<1>4. CASE CondaNext \/ FinalizeNext
  BY <1>1, <1>4 DEF CondaNext, CondaInstall, CondaUpdateAndClean, CondaProfile, FinalizeNext,
              FinalizeEnvironment, CollectstaticSkipped, HandleCollectstatic,
              ReplaceDepsDirWithLiteral, ReplaceLiteralWithDepsDirAtRuntime, PostCompile,
              SetLaunchEnvironment, Goto, Build
<1> QED
  BY <1>2, <1>3, <1>4 DEF Work

\* The same for the running process and for the package indexes.
LEMMA ProcFrame ==
    ASSUME TypeOK, Work
    PROVE  /\ pc \notin {"InstallPipEnv", "HandleRequirementstxt", "FinalizeEnvironment"} =>
                 proc'.removeRequirementsText = proc.removeRequirementsText
           /\ pc \notin {"DownloadNLTKCorpora", "FinalizeEnvironment"} =>
                 proc'.HasNltkData = proc.HasNltkData
           /\ pc # "FinalizeEnvironment" => proc.environ \subseteq proc'.environ
           /\ pc \notin {"InstallPipEnv", "RunPip", "DownloadNLTKCorpora"} => net' = net
<1>1. proc \in Proc
  BY DEF TypeOK
<1>2. CASE HooksNext
  BY <1>2 DEF HooksNext, AppDynamicsBeforeCompile, AppDynamicsSkipped,
              AppHookBeforeCompile, SealightsBeforeCompile, SealightsSkipped
<1>3. CASE SupplyNext
  BY <1>1, <1>3 DEF SupplyNext, MakeDepDirs, SetStagingEnvironment, Run, SetupCacheDir,
              CopyRuntimeTxt, HandlePipfile, InstallPython, InstallPip, InstallPipEnvSkipped,
              PipfileToRequirements, PipenvLock, HandleRequirementstxt, HandlePylibmc, HandleFfi,
              UninstallUnusedDependencies, RunPipSkipped, RunPipUnvendored, RunPipVendored,
              DownloadNLTKCorporaSkipped, DownloadNLTKCorpora, RewriteShebangs,
              CreateDefaultEnv, RemoveGenerated, CompleteSupply, Goto, Proc
<1>4. CASE CondaNext \/ FinalizeNext
  BY <1>1, <1>4 DEF CondaNext, CondaInstall, CondaUpdateAndClean, CondaProfile, FinalizeNext,
              FinalizeEnvironment, CollectstaticSkipped, HandleCollectstatic,
              ReplaceDepsDirWithLiteral, ReplaceLiteralWithDepsDirAtRuntime, PostCompile,
              SetLaunchEnvironment, Goto, Proc
<1> QED
  BY <1>2, <1>3, <1>4 DEF Work

\* installFfi writes a count and an environment variable, nothing else.
LEMMA WithFfiKeeps ==
    ASSUME NEW d \in Dep
    PROVE  /\ WithFfi(d) \in Dep
           /\ WithFfi(d).env \in {d.env, d.env \cup {"LIBFFI"}}
           /\ \A field \in {"runtime", "python", "conda", "site", "bin", "portable", "pth",
                            "nltkData", "profile"} : WithFfi(d)[field] = d[field]
<1>1. CASE "LIBFFI" \in proc.environ
  BY <1>1 DEF WithFfi
<1>2. CASE "LIBFFI" \notin proc.environ
  <2>1. WithFfi(d) = [d EXCEPT !.libffi = @ + 1, !.env = @ \cup {"LIBFFI"}]
    BY <1>2 DEF WithFfi
  <2> QED
    BY <2>1, WithFfiType DEF Dep
<1> QED
  BY <1>1, <1>2

\* pip writes packages, scripts and .pth files, and its scripts are linked.
LEMMA LinkedKeeps ==
    ASSUME NEW d0 \in Dep, NEW P \in SUBSET (Package \cup Tool), NEW d \in Installed(d0, P)
    PROVE  /\ LinkBin(d).site = d0.site \cup P /\ LinkBin(d).bin = d0.site \cup P
           /\ \A field \in {"runtime", "python", "conda", "nltkData", "env", "profile"} :
                 LinkBin(d)[field] = d0[field]
<1>1. PICK p \in {d0.pth, "absolute"} :
        d = [d0 EXCEPT !.site = @ \cup P, !.portable = @ \ P, !.pth = p]
  BY DEF Installed
<1> QED
  BY <1>1 DEF LinkBin, Dep

\* Each step that runs pip installs certain packages and links what there is.
LEMMA InstallsByPip ==
    ASSUME TypeOK, InstallPip \/ PipenvLock \/ RunPipUnvendored \/ RunPipVendored
    PROVE  \/ InstallPip /\ dep' = dep
           \/ \E d0 \in {dep, WithFfi(dep)}, P \in SUBSET (Package \cup Tool) :
                 /\ \E d \in Installed(d0, P) : dep' = LinkBin(d)
                 /\ InstallPip => P = {"pip"}
                 /\ PipenvLock => P = PipenvTools
                 /\ RunPipUnvendored => P = PackagesOf(build.reqs)
                 /\ RunPipVendored => P = PackagesOf(build.reqs) \cup
                                          (IF app.vendor.sdist THEN CommonBuildDeps ELSE {})
<1>1. CASE InstallPip
  <2>1. {"pip"} \in SUBSET (Package \cup Tool)
    BY DEF Tool
  <2>2. ~PipenvLock /\ ~RunPipUnvendored /\ ~RunPipVendored
    BY <1>1 DEF InstallPip, PipenvLock, RunPipUnvendored, RunPipVendored, Goto
  <2>3. dep' = dep \/ \E d \in Installed(dep, {"pip"}) : dep' = LinkBin(d)
    BY <1>1 DEF InstallPip
  <2> QED
    BY <1>1, <2>1, <2>2, <2>3
<1>2. CASE PipenvLock
  <2>1. PipenvTools \in SUBSET (Package \cup Tool)
    BY DEF Tool
  <2>2. ~InstallPip /\ ~RunPipUnvendored /\ ~RunPipVendored
    BY <1>2 DEF InstallPip, PipenvLock, RunPipUnvendored, RunPipVendored, Goto
  <2>3. \E d \in Installed(WithFfi(dep), PipenvTools) : dep' = LinkBin(d)
    BY <1>2 DEF PipenvLock
  <2> QED
    BY <1>2, <2>1, <2>2, <2>3
<1>3. CASE RunPipUnvendored
  <2>1. PackagesOf(build.reqs) \in SUBSET (Package \cup Tool)
    BY PackagesType DEF TypeOK, Build
  <2>2. ~InstallPip /\ ~PipenvLock /\ ~RunPipVendored
    BY <1>3 DEF InstallPip, PipenvLock, RunPipUnvendored, RunPipVendored, Goto
  <2>3. \E d \in Installed(dep, PackagesOf(build.reqs)) : dep' = LinkBin(d)
    BY <1>3 DEF RunPipUnvendored
  <2> QED
    BY <1>3, <2>1, <2>2, <2>3
<1>4. CASE RunPipVendored
  <2> DEFINE pkgs == PackagesOf(build.reqs) \cup
                     (IF app.vendor.sdist THEN CommonBuildDeps ELSE {})
  <2>1. pkgs \in SUBSET (Package \cup Tool)
    BY PackagesType DEF TypeOK, Build, Tool
  <2>2. ~InstallPip /\ ~PipenvLock /\ ~RunPipUnvendored
    BY <1>4 DEF InstallPip, PipenvLock, RunPipUnvendored, RunPipVendored, Goto
  <2>3. \E d \in Installed(dep, pkgs) : dep' = LinkBin(d)
    BY <1>4 DEF RunPipVendored
  <2> QED
    BY <1>4, <2>1, <2>2, <2>3
<1> QED
  BY <1>1, <1>2, <1>3, <1>4

\* What the steps that run pip do to the dependency directory.
LEMMA PipFrame ==
    ASSUME TypeOK, InstallPip \/ PipenvLock \/ RunPipUnvendored \/ RunPipVendored
    PROVE  /\ dep' = dep \/ dep'.bin = dep'.site
           /\ InstallPip => dep'.site \in {dep.site, dep.site \cup {"pip"}}
           /\ PipenvLock => dep'.site = dep.site \cup PipenvTools
           /\ RunPipUnvendored => dep'.site = dep.site \cup PackagesOf(build.reqs)
           /\ RunPipVendored => dep'.site = dep.site \cup PackagesOf(build.reqs) \cup
                                            (IF app.vendor.sdist THEN CommonBuildDeps ELSE {})
           /\ dep'.runtime = dep.runtime /\ dep'.python = dep.python /\ dep'.conda = dep.conda
           /\ dep'.nltkData = dep.nltkData /\ dep'.profile = dep.profile
           /\ dep'.env \in {dep.env, dep.env \cup {"LIBFFI"}}
<1>0. dep \in Dep
  BY DEF TypeOK
<1>1. CASE InstallPip /\ dep' = dep
  <2>1. ~PipenvLock /\ ~RunPipUnvendored /\ ~RunPipVendored
    BY <1>1 DEF InstallPip, PipenvLock, RunPipUnvendored, RunPipVendored, Goto
  <2> QED
    BY <1>1, <2>1
<1>2. ASSUME NEW d0 \in {dep, WithFfi(dep)}, NEW P \in SUBSET (Package \cup Tool),
             NEW d \in Installed(d0, P), dep' = LinkBin(d)
      PROVE  /\ dep'.site = dep.site \cup P /\ dep'.bin = dep'.site
             /\ dep'.runtime = dep.runtime /\ dep'.python = dep.python /\ dep'.conda = dep.conda
             /\ dep'.nltkData = dep.nltkData /\ dep'.profile = dep.profile
             /\ dep'.env \in {dep.env, dep.env \cup {"LIBFFI"}}
  <2>1. /\ d0 \in Dep /\ d0.site = dep.site
        /\ d0.runtime = dep.runtime /\ d0.python = dep.python /\ d0.conda = dep.conda
        /\ d0.nltkData = dep.nltkData /\ d0.profile = dep.profile
        /\ d0.env \in {dep.env, dep.env \cup {"LIBFFI"}}
    BY <1>0, WithFfiKeeps
  <2>2. /\ LinkBin(d).site = d0.site \cup P /\ LinkBin(d).bin = d0.site \cup P
        /\ \A field \in {"runtime", "python", "conda", "nltkData", "env", "profile"} :
              LinkBin(d)[field] = d0[field]
    BY <2>1, LinkedKeeps
  <2> QED
    BY <1>2, <2>1, <2>2
<1> QED
  BY <1>1, <1>2, InstallsByPip

\* The steps that write in the dependency directory, and what they leave alone.
LEMMA DepFrame ==
    ASSUME TypeOK, Work
    PROVE  /\ pc \notin {"CopyRuntimeTxt", "HandlePipfile"} => dep'.runtime = dep.runtime
           /\ pc # "InstallPython" => dep'.python = dep.python
           /\ pc \notin {"CondaInstall", "CondaUpdateAndClean"} => dep'.conda = dep.conda
           /\ pc \notin {"InstallPython", "InstallPip", "InstallPipEnv", "RunPip"} =>
                 /\ dep'.site = dep.site /\ dep'.bin = dep.bin
                 /\ pc # "RewriteShebangs" => dep'.portable = dep.portable
                 /\ pc # "ReplaceDepsDirWithLiteral" => dep'.pth = dep.pth
           /\ pc # "DownloadNLTKCorpora" => dep'.nltkData = dep.nltkData
           /\ dep.env \subseteq dep'.env
           /\ pc # "CreateDefaultEnv" =>
                 dep'.env \subseteq dep.env \cup {"XDG_CACHE_HOME", "LIBFFI", "LIBMEMCACHED"}
           /\ pc \notin {"AppDynamics", "CreateDefaultEnv", "CondaProfile",
                         "ReplaceLiteralWithDepsDirAtRuntime"} => dep'.profile = dep.profile
<1>1. dep \in Dep
  BY DEF TypeOK
<1>2. CASE HooksNext
  BY <1>1, <1>2 DEF HooksNext, AppDynamicsBeforeCompile, AppDynamicsSkipped,
                    AppHookBeforeCompile, SealightsBeforeCompile, SealightsSkipped, Goto, Dep
<1>3. CASE InstallPip \/ PipenvLock \/ RunPipUnvendored \/ RunPipVendored
  <2>1. pc \in {"InstallPip", "InstallPipEnv", "RunPip"}
    BY <1>3 DEF InstallPip, PipenvLock, RunPipUnvendored, RunPipVendored, Goto
  <2> QED
    BY <1>3, <2>1, PipFrame
<1>4. CASE HandleFfi
  <2>1. pc = "HandleFfi" /\ (dep' = dep \/ dep' = WithFfi(dep))
    BY <1>4 DEF HandleFfi, Goto
  <2> QED
    BY <1>1, <2>1, WithFfiKeeps
<1>5. CASE \/ MakeDepDirs \/ SetStagingEnvironment \/ Run \/ SetupCacheDir \/ CopyRuntimeTxt
           \/ HandlePipfile \/ InstallPython \/ InstallPipEnvSkipped
           \/ PipfileToRequirements \/ HandleRequirementstxt
  <2>1. CASE MakeDepDirs \/ SetStagingEnvironment \/ Run \/ SetupCacheDir
    BY <1>1, <2>1 DEF MakeDepDirs, SetStagingEnvironment, Run, SetupCacheDir, Goto, Dep
  <2>2. CASE CopyRuntimeTxt \/ HandlePipfile
    BY <1>1, <2>2 DEF CopyRuntimeTxt, HandlePipfile, Goto, Dep
  <2>3. CASE InstallPython
    BY <1>1, <2>3 DEF InstallPython, LinkBin, Goto, Dep
  <2>4. CASE InstallPipEnvSkipped \/ PipfileToRequirements \/ HandleRequirementstxt
    BY <2>4 DEF InstallPipEnvSkipped, PipfileToRequirements, HandleRequirementstxt
  <2> QED
    BY <1>5, <2>1, <2>2, <2>3, <2>4
<1>6. CASE \/ UninstallUnusedDependencies \/ RunPipSkipped
           \/ DownloadNLTKCorporaSkipped \/ DownloadNLTKCorpora \/ RewriteShebangs
           \/ RemoveGenerated \/ CompleteSupply
  BY <1>1, <1>6
     DEF UninstallUnusedDependencies, RunPipSkipped, DownloadNLTKCorporaSkipped,
         DownloadNLTKCorpora, RewriteShebangs, RemoveGenerated, CompleteSupply, Goto, Dep
<1>7. CASE HandlePylibmc
  <2>1. \/ dep' = dep
        \/ dep' = [dep EXCEPT !.libmemcache = @ + 1, !.env = @ \cup {"LIBMEMCACHED"}]
    BY <1>7 DEF HandlePylibmc
  <2>2. pc = "HandlePylibmc"
    BY <1>7 DEF HandlePylibmc, Goto
  <2>3. /\ dep.env \subseteq dep'.env /\ dep'.env \subseteq dep.env \cup {"LIBMEMCACHED"}
        /\ dep'.runtime = dep.runtime /\ dep'.python = dep.python /\ dep'.conda = dep.conda
        /\ dep'.site = dep.site /\ dep'.bin = dep.bin /\ dep'.portable = dep.portable
        /\ dep'.pth = dep.pth /\ dep'.nltkData = dep.nltkData /\ dep'.profile = dep.profile
    <3>1. CASE dep' = dep
      BY <3>1
    <3>2. CASE dep' = [dep EXCEPT !.libmemcache = @ + 1, !.env = @ \cup {"LIBMEMCACHED"}]
      <4> DEFINE n == dep.libmemcache + 1
      <4>1. dep' = [dep EXCEPT !.libmemcache = n, !.env = dep.env \cup {"LIBMEMCACHED"}]
        BY <3>2
      <4> HIDE DEF n
      <4> QED
        BY <1>1, <4>1 DEF Dep
    <3> QED
      BY <2>1, <3>1, <3>2
  <2> QED
    BY <2>2, <2>3
<1>8. CASE CreateDefaultEnv
  <2> DEFINE names == DefaultEnv \cup (IF proc.HasNltkData THEN {"NLTK_DATA"} ELSE {})
             scripts == {"python.sh"} \cup
                        (IF proc.HasNltkData THEN {"export NLTK_DATA"} ELSE {})
  <2>1. /\ pc = "CreateDefaultEnv"
        /\ dep' = [dep EXCEPT !.env = @ \cup names, !.profile = @ \cup scripts]
    BY <1>8 DEF CreateDefaultEnv, Goto
  <2> HIDE DEF names, scripts
  <2> QED
    BY <1>1, <2>1 DEF Dep
<1>9. CASE CondaNext \/ FinalizeNext
  BY <1>1, <1>9 DEF CondaNext, CondaInstall, CondaUpdateAndClean, CondaProfile, FinalizeNext,
              FinalizeEnvironment, CollectstaticSkipped, HandleCollectstatic,
              ReplaceDepsDirWithLiteral, ReplaceLiteralWithDepsDirAtRuntime, PostCompile,
              SetLaunchEnvironment, Goto, Dep
<1> QED
  BY <1>2, <1>3, <1>4, <1>5, <1>6, <1>7, <1>8, <1>9 DEF Work, SupplyNext

\* Who adds which launch script.
LEMMA ProfileFrame ==
    ASSUME TypeOK, Work
    PROVE  /\ pc = "AppDynamics" =>
                 dep'.profile = dep.profile \cup
                     (IF "appdynamics" \in BoundAgents(app) THEN {"appdynamics.sh"} ELSE {})
           /\ pc = "CreateDefaultEnv" =>
                 dep'.profile = dep.profile \cup {"python.sh"} \cup
                     (IF proc.HasNltkData THEN {"export NLTK_DATA"} ELSE {})
           /\ pc = "CondaProfile" => dep'.profile = dep.profile \cup {"conda.sh"}
           /\ pc = "ReplaceLiteralWithDepsDirAtRuntime" =>
                 dep'.profile = dep.profile \cup {"python.fixeggs.sh"}
<1>0. dep \in Dep
  BY DEF TypeOK
<1>1. CASE pc = "AppDynamics"
  BY <1>0, <1>1, StepAt DEF AppDynamicsBeforeCompile, AppDynamicsSkipped, UsesAppDynamics,
                            BoundAgents, Dep
<1>2. CASE pc = "CreateDefaultEnv"
  BY <1>0, <1>2, StepAt DEF CreateDefaultEnv, Dep
<1>3. CASE pc = "CondaProfile"
  BY <1>0, <1>3, StepAt DEF CondaProfile, Dep
<1>4. CASE pc = "ReplaceLiteralWithDepsDirAtRuntime"
  BY <1>0, <1>4, StepAt DEF ReplaceLiteralWithDepsDirAtRuntime, Dep
<1> QED
  BY <1>1, <1>2, <1>3, <1>4
=============================================================================
