------------------------------- MODULE Staging ------------------------------
(***************************************************************************)
(* One staging of an app, from the first hook to the droplet: hooks,       *)
(* supply (Python or conda), finalize.  Everything runs in one sequence of *)
(* processes; what makes it hard is that each part decides by looking for  *)
(* files that an earlier part may have created, rewritten or removed.      *)
(***************************************************************************)
EXTENDS Hooks, Supply, Conda, Finalize

Work == HooksNext \/ SupplyNext \/ CondaNext \/ FinalizeNext

Next == Work \/ Fail

\* Every command that is started ends; a step need not fail.
Spec == Init /\ [][Next]_vars /\ WF_vars(Work)

-----------------------------------------------------------------------------
Staged == pc = "done"
StagedPython == Staged /\ ~app.conda

-----------------------------------------------------------------------------
(* Safety.                                                                 *)

(***************************************************************************)
(* A staged app has all it declares: whichever of requirements.txt,        *)
(* Pipfile.lock, Pipfile and setup.py comes first reaches pip, through the *)
(* files InstallPipEnv and HandleRequirementstxt generate.  With an agent  *)
(* bound it holds only for apps that bring a requirements.txt.             *)
(***************************************************************************)
DeclaredInstalled ==
    StagedPython /\ (BoundAgents(app) = {} \/ HasRequirements(app))
        => Declared(app) \subseteq dep.site

(***************************************************************************)
(* When pip is about to build packages, the native library a requirement   *)
(* needs is unpacked, named in the environment, and in directories that    *)
(* were on the search paths when SetStagingEnvironment computed them.      *)
(***************************************************************************)
NativeLibrariesReady ==
    pc = "RunPip" =>
        /\ FindAnyPackage(build.reqs, FfiNames) =>
              dep.libffi > 0 /\ "LIBFFI" \in proc.environ
        /\ FindAnyPackage(build.reqs, {"pylibmc"}) =>
              dep.libmemcache > 0 /\ "LIBMEMCACHED" \in proc.environ
        /\ {"bin", "lib", "include", "pkgconfig"} \subseteq proc.paths

(***************************************************************************)
(* Both the pipenv installation and HandleFfi bootstrap libffi; whichever  *)
(* comes second finds LIBFFI set and leaves it.                            *)
(***************************************************************************)
LibffiOnce == dep.libffi <= 1

(***************************************************************************)
(* The droplet has the requirements files of the pushed app: the file that *)
(* supply generates is gone by the end, the app's own is kept.  (The index *)
(* options that a vendored staging strips from it do not come back.)       *)
(***************************************************************************)
BuildDirRestored ==
    StagedPython /\ BoundAgents(app) = {} /\ app.preCompile = Absent
        => build.reqs = app.reqs

(***************************************************************************)
(* Every script pip installed is linked into deps/<index>/bin and starts   *)
(* with a portable first line: no installation comes after the last        *)
(* LinkDirectoryInDepDir or after RewriteShebangs.                         *)
(***************************************************************************)
ScriptsUsable == StagedPython => dep.bin = dep.site /\ dep.site \subseteq dep.portable

(***************************************************************************)
(* runtime.txt beats Pipfile.lock beats the manifest's default; the        *)
(* interpreter installed is the one selected so.                           *)
(***************************************************************************)
PythonAsRequested == StagedPython => dep.python = RequestedPython(app)

(***************************************************************************)
(* An app with a vendor directory is staged without going to a package     *)
(* index, as long as nothing but its requirements.txt (in the spelling the *)
(* buildpack strips) or its Pipfile.lock names one and pipenv need not     *)
(* lock.                                                                   *)
(***************************************************************************)
OfflineWhenVendored ==
    app.vendor # Absent /\ app.indexed \subseteq {<<Top, "space">>}
        /\ (HasRequirements(app) \/ app.pipfile = Absent \/ app.lock # Absent)
        => net \cap {"pip", "pipenv"} = {}

(***************************************************************************)
(* collectstatic has run in the droplet of a Django app whose              *)
(* requirements file names Django, in the environment supply wrote.        *)
(***************************************************************************)
CollectstaticRan ==
    /\ Staged /\ app.preCompile = Absent /\ ~app.disableCollectstatic
         /\ FindAnyPackage(app.reqs, DjangoNames) => build.static
    /\ build.static /\ ~app.conda => {"PYTHONHOME", "PYTHONPATH"} \subseteq proc.environ

(***************************************************************************)
(* NLTK_DATA is announced, to later buildpacks and at launch, exactly when *)
(* the corpora were downloaded.                                            *)
(***************************************************************************)
NltkDataAnnounced ==
    Staged => /\ "NLTK_DATA" \in dep.env <=> dep.nltkData
              /\ "export NLTK_DATA" \in build.launch <=> dep.nltkData

(***************************************************************************)
(* Every bound agent is installed and runs the first process of the        *)
(* Procfile, Sealights outside AppDynamics and both outside what the app   *)
(* runs its command under itself; other processes are untouched.           *)
(* AppDynamics is lost when bin/pre_compile rewrites requirements.txt.     *)
(***************************************************************************)
AgentsInstalled ==
    StagedPython => \A x \in BoundAgents(app) :
        (x = "sealights" \/ app.preCompile = Absent) => AgentPackage[x] \in dep.site

AgentsRunFirstProcess ==
    Staged /\ app.procfile # Absent /\ BoundAgents(app) # {} =>
        /\ build.procfile[1].type = "web"
        /\ build.procfile[1].agents = Wrappers(app) \o app.procfile[1].agents
        /\ Len(build.procfile) = Len(app.procfile)
        /\ \A i \in 2 .. Len(app.procfile) : build.procfile[i] = app.procfile[i]

(***************************************************************************)
(* The droplet has one runtime and the launch scripts of that one; no      *)
(* .pth file keeps a staging path, and the script that fills in the launch *)
(* path is there.                                                          *)
(***************************************************************************)
LaunchesOneRuntime ==
    Staged =>
        /\ (dep.python = Absent) = (dep.conda = "updated")
        /\ ("python.sh" \in build.launch) = (dep.python # Absent)
        /\ ("conda.sh" \in build.launch) = (dep.python = Absent)
        /\ dep.pth # "absolute"
        /\ "python.fixeggs.sh" \in build.launch

-----------------------------------------------------------------------------
(* The abstract specification.                                             *)

\* What of the final state goes into the droplet.
Droplet == [conda |-> dep.conda = "updated", python |-> dep.python, site |-> dep.site,
            procfile |-> build.procfile, launch |-> build.launch]

Promise == INSTANCE StagingPromise WITH
    status  <- CASE pc = "done" -> "staged" [] pc = "failed" -> "rejected" [] OTHER -> "staging",
    droplet <- IF Staged THEN Droplet ELSE Absent

(***************************************************************************)
(* A staging keeps the promise: it ends with a droplet that honours what   *)
(* the app asked for when it was pushed, whatever hooks and steps did to   *)
(* the files in between, or with no droplet.                               *)
(***************************************************************************)
KeepsPromise == Promise!Spec

-----------------------------------------------------------------------------
(* Progress.                                                               *)

\* What staging can object to in an app.
WellFormed(a) ==
    LET reqs == IF a.preCompile = Absent THEN a.reqs ELSE WithFile(a.reqs, a.preCompile)
    IN  /\ BoundAgents(a) # {} => a.procfile # <<>>
        /\ Readable(reqs)
        /\ FindAnyPackage(reqs, DjangoNames) => a.managePy \/ a.disableCollectstatic
        /\ ~a.conda =>
              /\ RequestedPython(a) # Absent
              /\ a.pip # "other"
              /\ a.vendor # Absent =>
                    Declared(a) \cup {AgentPackage[x] : x \in BoundAgents(a)}
                        \subseteq a.vendor.pkgs \cup {Self}

(***************************************************************************)
(* A well-formed app is staged unless a command or a file operation fails: *)
(* no combination of files, hooks and generated requirements leads to a    *)
(* step that cannot but return an error, or back to an earlier step.       *)
(***************************************************************************)
WellFormedNeverRejected == WellFormed(app) => <>(pc \in {"done", "failed"})

-----------------------------------------------------------------------------
(* What tests and the change log say and the code does not do.             *)

(***************************************************************************)
(* An app with a Pipfile.lock and no requirements.txt gets the packages of *)
(* its Pipfile.lock (integration/pipenv_test.go:36 and 47).  The file an   *)
(* agent's hook creates makes InstallPipEnv return early.                  *)
(***************************************************************************)
LockInstalled ==
    StagedPython /\ ~HasRequirements(app) /\ app.pipfile # Absent /\ app.lock # Absent
        => app.lock.pkgs \subseteq dep.site

(***************************************************************************)
(* collectstatic runs for an app that uses Django (finalize_test.go:88 and *)
(* 94).  What finalize reads is gone when supply had generated it.         *)
(***************************************************************************)
DjangoCollected ==
    StagedPython /\ DjangoNames \cap Declared(app) # {} /\ app.managePy
        /\ ~app.disableCollectstatic => build.static

(***************************************************************************)
(* A completely vendored app does not access the internet, even if it uses *)
(* pipenv (CHANGELOG:1645).  Without a Pipfile.lock pipenv resolves the    *)
(* Pipfile online before anyone looks for the vendor directory.            *)
(***************************************************************************)
VendoredOffline ==
    app.vendor # Absent /\ app.indexed \subseteq {<<Top, "space">>}
        /\ Declared(app) \subseteq app.vendor.pkgs => net \cap {"pip", "pipenv"} = {}

(***************************************************************************)
(* "Remove lines from requirements.txt that begin with -i, --index-url and *)
(* --extra-index-url because specifying index links here makes pip always  *)
(* want internet access" (supply.go:698): a vendored app whose options are *)
(* all in its requirements.txt is installed offline.  The expression does  *)
(* not match "--index-url=<url>".                                          *)
(***************************************************************************)
IndexLinesRemoved ==
    app.vendor # Absent /\ HasRequirements(app) /\ OutsideTop(app.indexed) = {}
        => "pip" \notin net
=============================================================================
