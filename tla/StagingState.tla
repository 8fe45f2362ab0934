---------------------------- MODULE StagingState ----------------------------
(***************************************************************************)
(* What one staging of an app works on: the app as pushed, the build       *)
(* directory it rewrites, the dependency directory it fills, and what the  *)
(* running buildpack process remembers.  The steps are in Hooks, Supply,   *)
(* Conda and Finalize; Staging puts them together.                         *)
(***************************************************************************)
EXTENDS PushedApp

Subdir == {"bin", "lib", "include", "pkgconfig"}
EnvVar == {"XDG_CACHE_HOME", "LIBFFI", "LIBMEMCACHED", "PYTHONPATH", "LIBRARY_PATH",
           "PYTHONHOME", "PYTHONUNBUFFERED", "PYTHONHASHSEED", "LANG", "NLTK_DATA",
           "CFLAGS", "PIP_CERT", "CONDA_PKGS_DIRS"}
Script == {"appdynamics.sh", "python.sh", "export NLTK_DATA", "conda.sh", "python.fixeggs.sh"}

VARIABLES
    pc,      \* the function about to run, "done" or "failed"
    app,     \* the app as pushed; never changes
    build,   \* the build directory, as far as staging changes it
    dep,     \* the dependency directory, deps/<index>
    proc,    \* environment and fields of the running process
    net      \* the commands that went to a package index

vars == <<pc, app, build, dep, proc, net>>

Step == {"AppDynamics", "AppHook", "Sealights", "MakeDepDirs", "SetStagingEnvironment", "Run",
         "SetupCacheDir", "CopyRuntimeTxt", "HandlePipfile", "InstallPython", "InstallPip",
         "InstallPipEnv", "HandleRequirementstxt", "HandlePylibmc", "HandleFfi",
         "UninstallUnusedDependencies", "RunPip", "DownloadNLTKCorpora", "RewriteShebangs",
         "CreateDefaultEnv", "RemoveGenerated", "CondaInstall", "CondaUpdateAndClean",
         "CondaProfile", "CompleteSupply", "FinalizeEnvironment", "HandleCollectstatic",
         "ReplaceDepsDirWithLiteral", "ReplaceLiteralWithDepsDirAtRuntime", "PostCompile",
         "SetLaunchEnvironment"}

Build == [reqs : Tree, indexed : SUBSET IndexOption, procfile : {Absent} \cup Seq(Process),
          static : BOOLEAN,               \* collectstatic has run
          launch : SUBSET Script]         \* scripts the launcher sources

Dep == [dirs : SUBSET Subdir,
        runtime : PythonConstraint \cup {Absent},
        python : PythonVersion \cup {Absent},
        conda : {"none", "installed", "updated"},
        condaBin : BOOLEAN,               \* its commands are linked into bin
        site : SUBSET (Package \cup Tool),
        bin : SUBSET (Package \cup Tool),
        portable : SUBSET (Package \cup Tool),
        pth : {"none", "absolute", "literal"},
        libffi : Nat, libmemcache : Nat,  \* times bootstrapped
        nltkData : BOOLEAN,
        env : SUBSET EnvVar,              \* files of deps/<index>/env
        profile : SUBSET Script,          \* files of deps/<index>/profile.d
        config : BOOLEAN]                 \* config.yml is written

Proc == [environ : SUBSET EnvVar, paths : SUBSET Subdir,
         removeRequirementsText : BOOLEAN, HasNltkData : BOOLEAN]

(***************************************************************************)
(* Shape of the state: every step leaves a value of the right kind.        *)
(***************************************************************************)
TypeOK ==
    /\ pc \in Step \cup {"done", "failed"}
    /\ app \in App
    /\ build \in Build
    /\ dep \in Dep
    /\ proc \in Proc
    /\ net \in SUBSET {"pipenv", "pip", "nltk"}

\* A fresh container: the app's files, an empty dependency directory.
Init ==
    /\ pc = "AppDynamics"
    /\ app \in Apps
    /\ build = [reqs |-> app.reqs, indexed |-> app.indexed, procfile |-> app.procfile,
                static |-> FALSE, launch |-> {}]
    /\ dep = [dirs |-> {}, runtime |-> Absent, python |-> Absent, conda |-> "none",
              condaBin |-> FALSE,
              site |-> {}, bin |-> {}, portable |-> {}, pth |-> "none",
              libffi |-> 0, libmemcache |-> 0, nltkData |-> FALSE,
              env |-> {}, profile |-> {}, config |-> FALSE]
    /\ proc = [environ |-> {}, paths |-> {}, removeRequirementsText |-> FALSE,
               HasNltkData |-> FALSE]
    /\ net = {}

\* The step named from runs and the one named to is next.
Goto(from, to) == pc = from /\ pc' = to

(***************************************************************************)
(* Any step can return an error (a file that cannot be read, a download or *)
(* a command that fails); its caller then exits with a non-zero code and   *)
(* the platform discards the container.                                    *)
(***************************************************************************)
Fail ==
    /\ pc \in Step
    /\ pc' = "failed"
    /\ UNCHANGED <<app, build, dep, proc, net>>
=============================================================================
