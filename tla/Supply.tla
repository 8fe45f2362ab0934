------------------------------- MODULE Supply -------------------------------
(***************************************************************************)
(* The supply phase (src/python/supply/supply.go, RunPython and what it    *)
(* calls) and the start and the end of its main program.  One action per   *)
(* step of RunPython, in the order of the calls.                           *)
(***************************************************************************)
EXTENDS StagingState

FfiNames == {"pymysql", "argon2-cffi", "bcrypt", "cffi", "cryptography", "django[argon2]",
             "Django[argon2]", "django[bcrypt]", "Django[bcrypt]", "PyNaCl", "pyOpenSSL",
             "PyOpenSSL", "requests[security]", "misaka"}

\* What pip leaves behind: packages in site-packages, scripts that name the
\* staging interpreter, and perhaps .pth files with staging paths.
Installed(d, pkgs) ==
    {[d EXCEPT !.site = @ \cup pkgs, !.portable = @ \ pkgs, !.pth = p] : p \in {d.pth, "absolute"}}

\* LinkDirectoryInDepDir(python/bin, "bin"): every script of python/bin.
LinkBin(d) == [d EXCEPT !.bin = d.site]

-----------------------------------------------------------------------------
(* main of supply/cli, up to supply.Run.                                   *)

MakeDepDirs ==
    /\ Goto("MakeDepDirs", "SetStagingEnvironment")
    /\ dep.dirs \cap Subdir = {}
    /\ dep' = [dep EXCEPT !.dirs = Subdir]
    /\ UNCHANGED <<app, build, proc, net>>

\* Mistake: the environment is computed before the directories are made.
SetStagingEnvironmentEarly ==
    /\ Goto("SetStagingEnvironment", "Run")
    /\ proc' = [proc EXCEPT !.environ = @ \cup dep.env]
    /\ UNCHANGED <<app, build, dep, net>>

\* The search paths name the directories that exist now, and only those.
SetStagingEnvironment ==
    /\ Goto("SetStagingEnvironment", "Run")
    /\ proc' = [proc EXCEPT !.paths = dep.dirs, !.environ = @ \cup dep.env]
    /\ UNCHANGED <<app, build, dep, net>>

Run ==
    /\ pc = "Run"
    /\ pc' = IF app.conda THEN "CondaInstall" ELSE "SetupCacheDir"
    /\ UNCHANGED <<app, build, dep, proc, net>>

-----------------------------------------------------------------------------
(* RunPython.                                                              *)

SetupCacheDir ==
    /\ Goto("SetupCacheDir", "CopyRuntimeTxt")
    /\ proc' = [proc EXCEPT !.environ = @ \cup {"XDG_CACHE_HOME"}]
    /\ dep' = [dep EXCEPT !.env = @ \cup {"XDG_CACHE_HOME"}]
    /\ UNCHANGED <<app, build, net>>

CopyRuntimeTxt ==
    /\ Goto("CopyRuntimeTxt", "HandlePipfile")
    /\ dep' = IF app.runtime = Absent THEN dep ELSE [dep EXCEPT !.runtime = app.runtime]
    /\ UNCHANGED <<app, build, proc, net>>

\* Mistake: the version of Pipfile.lock wins over runtime.txt.
HandlePipfileFirst ==
    /\ Goto("HandlePipfile", "InstallPython")
    /\ dep' = IF app.lock # Absent
              THEN [dep EXCEPT !.runtime = FormattedVersion[app.lock.python]]
              ELSE dep
    /\ UNCHANGED <<app, build, proc, net>>

\* Mistake: the version is copied as Pipfile.lock has it.
HandlePipfileVerbatim ==
    /\ Goto("HandlePipfile", "InstallPython")
    /\ dep' = IF app.lock # Absent /\ dep.runtime = Absent
              THEN [dep EXCEPT !.runtime = app.lock.python]
              ELSE dep
    /\ UNCHANGED <<app, build, proc, net>>

HandlePipfile ==
    /\ Goto("HandlePipfile", "InstallPython")
    /\ dep' = IF app.lock # Absent /\ dep.runtime = Absent
              THEN [dep EXCEPT !.runtime = FormattedVersion[app.lock.python]]
              ELSE dep
    /\ UNCHANGED <<app, build, proc, net>>

SelectedPython ==
    IF dep.runtime = Absent THEN DefaultVersion ELSE MatchingPython[dep.runtime]

\* The interpreter comes with pip; its bin and lib are linked into deps/<index>.
InstallPython ==
    /\ Goto("InstallPython", "InstallPip")
    /\ SelectedPython # Absent
    /\ dep' = LinkBin([dep EXCEPT !.python = SelectedPython, !.site = @ \cup {"pip"}])
    /\ proc' = [proc EXCEPT !.environ = @ \cup {"PYTHONPATH", "CFLAGS"}]
    /\ UNCHANGED <<app, build, net>>

\* BP_PIP_VERSION: unset keeps the interpreter's pip, "latest" installs the
\* manifest's one, anything else is an error.
InstallPip ==
    /\ Goto("InstallPip", "InstallPipEnv")
    /\ app.pip \in {"unset", "latest"}
    /\ IF app.pip = "unset" THEN UNCHANGED dep
       ELSE \E d \in Installed(dep, {"pip"}) : dep' = LinkBin(d)
    /\ UNCHANGED <<app, build, proc, net>>

\* Mistake: libffi is installed without looking at LIBFFI.
WithFfiAgain(d) == [d EXCEPT !.libffi = @ + 1, !.env = @ \cup {"LIBFFI"}]

\* installFfi: only if LIBFFI does not name this buildpack's directory yet.
WithFfi(d) ==
    IF "LIBFFI" \in proc.environ THEN d
    ELSE [d EXCEPT !.libffi = @ + 1, !.env = @ \cup {"LIBFFI"}]

\* writeTempRequirementsTxt
GenerateRequirements(pkgs, index) ==
    build' = [build EXCEPT !.reqs = WithFile(@, pkgs),
                           !.indexed = OutsideTop(@) \cup
                                          (IF index THEN {<<Top, "space">>} ELSE {})]

InstallPipEnvSkipped ==
    /\ build.reqs[Top] # Absent \/ app.pipfile = Absent
    /\ Goto("InstallPipEnv", "HandleRequirementstxt")
    /\ UNCHANGED <<app, build, dep, proc, net>>

\* Mistake: Pipfile.lock is converted although there is a requirements.txt.
PipfileToRequirementsAnyway ==
    /\ app.pipfile # Absent
    /\ app.lock # Absent
    /\ Goto("InstallPipEnv", "HandleRequirementstxt")
    /\ GenerateRequirements(app.lock.pkgs, app.lock.index)
    /\ proc' = [proc EXCEPT !.removeRequirementsText = TRUE]
    /\ UNCHANGED <<app, dep, net>>

\* pipfileToRequirements: the sources and the default packages of Pipfile.lock.
PipfileToRequirements ==
    /\ build.reqs[Top] = Absent
    /\ app.pipfile # Absent
    /\ app.lock # Absent
    /\ Goto("InstallPipEnv", "HandleRequirementstxt")
    /\ GenerateRequirements(app.lock.pkgs, app.lock.index)
    /\ proc' = [proc EXCEPT !.removeRequirementsText = TRUE]
    /\ UNCHANGED <<app, dep, net>>

\* No lock file: install pipenv from the buildpack and let it resolve the Pipfile.
PipenvLock ==
    /\ build.reqs[Top] = Absent
    /\ app.pipfile # Absent
    /\ app.lock = Absent
    /\ Goto("InstallPipEnv", "HandleRequirementstxt")
    /\ \E d \in Installed(WithFfi(dep), PipenvTools) : dep' = LinkBin(d)
    /\ GenerateRequirements(app.pipfile, TRUE)
    /\ proc' = [proc EXCEPT !.environ = @ \cup {"LIBFFI"}, !.removeRequirementsText = TRUE]
    /\ net' = net \cup {"pipenv"}
    /\ UNCHANGED app

\* Mistake: setup.py alone decides.
HandleRequirementstxtBySetup ==
    /\ Goto("HandleRequirementstxt", "HandlePylibmc")
    /\ IF app.setup
       THEN /\ GenerateRequirements({Self}, FALSE)
            /\ proc' = [proc EXCEPT !.removeRequirementsText = TRUE]
       ELSE UNCHANGED <<build, proc>>
    /\ UNCHANGED <<app, dep, net>>

HandleRequirementstxt ==
    /\ Goto("HandleRequirementstxt", "HandlePylibmc")
    /\ IF build.reqs[Top] = Absent /\ app.setup
       THEN /\ GenerateRequirements({Self}, FALSE)
            /\ proc' = [proc EXCEPT !.removeRequirementsText = TRUE]
       ELSE UNCHANGED <<build, proc>>
    /\ UNCHANGED <<app, dep, net>>

HandlePylibmc ==
    /\ Goto("HandlePylibmc", "HandleFfi")
    /\ Readable(build.reqs)
    /\ IF FindAnyPackage(build.reqs, {"pylibmc"})
       THEN /\ dep' = [dep EXCEPT !.libmemcache = @ + 1, !.env = @ \cup {"LIBMEMCACHED"}]
            /\ proc' = [proc EXCEPT !.environ = @ \cup {"LIBMEMCACHED"}]
       ELSE UNCHANGED <<dep, proc>>
    /\ UNCHANGED <<app, build, net>>

HandleFfi ==
    /\ Goto("HandleFfi", "UninstallUnusedDependencies")
    /\ Readable(build.reqs)
    /\ IF FindAnyPackage(build.reqs, FfiNames)
       THEN /\ dep' = WithFfi(dep)
            /\ proc' = [proc EXCEPT !.environ = @ \cup {"LIBFFI"}]
       ELSE UNCHANGED <<dep, proc>>
    /\ UNCHANGED <<app, build, net>>

\* requirements-declared.txt is never there: the dependency directory is new
\* and no step writes the file.
UninstallUnusedDependencies ==
    /\ Goto("UninstallUnusedDependencies", "RunPip")
    /\ UNCHANGED <<app, build, dep, proc, net>>

\* shouldRunPip also points PIP_CERT at the system's certificates.
ShouldRunPip == build.reqs[Top] # Absent

RunPipSkipped ==
    /\ ~ShouldRunPip
    /\ Goto("RunPip", "DownloadNLTKCorpora")
    /\ proc' = [proc EXCEPT !.environ = @ \cup {"PIP_CERT"}]
    /\ UNCHANGED <<app, build, dep, net>>

\* Mistake: the scripts pip installed are not linked.
RunPipUnvendoredUnlinked ==
    /\ app.vendor = Absent
    /\ ShouldRunPip
    /\ Goto("RunPip", "DownloadNLTKCorpora")
    /\ dep' \in Installed(dep, PackagesOf(build.reqs))
    /\ proc' = [proc EXCEPT !.environ = @ \cup {"PIP_CERT"}]
    /\ net' = net \cup {"pip"}
    /\ UNCHANGED <<app, build>>

RunPipUnvendored ==
    /\ app.vendor = Absent
    /\ ShouldRunPip
    /\ Goto("RunPip", "DownloadNLTKCorpora")
    /\ \E d \in Installed(dep, PackagesOf(build.reqs)) : dep' = LinkBin(d)
    /\ proc' = [proc EXCEPT !.environ = @ \cup {"PIP_CERT"}]
    /\ net' = net \cup {"pip"}
    /\ UNCHANGED <<app, build>>

\* Mistake: index options stay in requirements.txt.
UnstrippedIndexed == build.indexed

\* Index options with a space before the URL are stripped from requirements.txt
\* alone; any other that pip reads makes it want the internet, --no-index or not.
StrippedIndexed == build.indexed \ {<<Top, "space">>}

WantsInternet == \E o \in StrippedIndexed : o[1] \in Reach(build.reqs, Top)

RunPipVendored ==
    /\ app.vendor # Absent
    /\ ShouldRunPip
    /\ Goto("RunPip", "DownloadNLTKCorpora")
    /\ build' = [build EXCEPT !.indexed = StrippedIndexed]
    /\ WantsInternet \/ PackagesOf(build.reqs) \ {Self} \subseteq app.vendor.pkgs
    /\ net' = IF WantsInternet THEN net \cup {"pip"} ELSE net
    /\ \E d \in Installed(dep, PackagesOf(build.reqs) \cup
                               (IF app.vendor.sdist THEN CommonBuildDeps ELSE {})) :
            dep' = LinkBin(d)
    /\ proc' = [proc EXCEPT !.environ = @ \cup {"PIP_CERT"}]
    /\ UNCHANGED app

\* "nltk.downloader -h" failing, for whatever reason, ends the step without error.
DownloadNLTKCorporaSkipped ==
    /\ Goto("DownloadNLTKCorpora", "RewriteShebangs")
    /\ UNCHANGED <<app, build, dep, proc, net>>

\* Mistake: HasNltkData is not set.
DownloadNLTKCorporaSilently ==
    /\ Goto("DownloadNLTKCorpora", "RewriteShebangs")
    /\ "nltk" \in dep.site
    /\ app.nltk
    /\ dep' = [dep EXCEPT !.nltkData = TRUE]
    /\ net' = net \cup {"nltk"}
    /\ UNCHANGED <<app, build, proc>>

DownloadNLTKCorpora ==
    /\ Goto("DownloadNLTKCorpora", "RewriteShebangs")
    /\ "nltk" \in dep.site
    /\ app.nltk
    /\ dep' = [dep EXCEPT !.nltkData = TRUE]
    /\ proc' = [proc EXCEPT !.HasNltkData = TRUE]
    /\ net' = net \cup {"nltk"}
    /\ UNCHANGED <<app, build>>

RewriteShebangs ==
    /\ Goto("RewriteShebangs", "CreateDefaultEnv")
    /\ dep' = [dep EXCEPT !.portable = @ \cup dep.bin]
    /\ UNCHANGED <<app, build, proc, net>>

DefaultEnv == {"PYTHONPATH", "LIBRARY_PATH", "PYTHONHOME", "PYTHONUNBUFFERED",
               "PYTHONHASHSEED", "LANG"}

CreateDefaultEnv ==
    /\ Goto("CreateDefaultEnv", "RemoveGenerated")
    /\ dep' = [dep EXCEPT
                 !.env = @ \cup DefaultEnv \cup (IF proc.HasNltkData THEN {"NLTK_DATA"} ELSE {}),
                 !.profile = @ \cup {"python.sh"} \cup
                             (IF proc.HasNltkData THEN {"export NLTK_DATA"} ELSE {})]
    /\ UNCHANGED <<app, build, proc, net>>

\* Mistake: requirements.txt is removed even if the app brought it.
RemoveAlways ==
    /\ Goto("RemoveGenerated", "CompleteSupply")
    /\ build' = [build EXCEPT !.reqs = WithoutFile(@), !.indexed = OutsideTop(@)]
    /\ UNCHANGED <<app, dep, proc, net>>

\* The end of RunPython: the requirements.txt it generated goes again.
RemoveGenerated ==
    /\ Goto("RemoveGenerated", "CompleteSupply")
    /\ build' = IF proc.removeRequirementsText
                THEN [build EXCEPT !.reqs = WithoutFile(@), !.indexed = OutsideTop(@)]
                ELSE build
    /\ UNCHANGED <<app, dep, proc, net>>

-----------------------------------------------------------------------------
\* The end of main: config.yml, then the clean-up of the dependency cache (AppCache).
CompleteSupply ==
    /\ Goto("CompleteSupply", "FinalizeEnvironment")
    /\ dep' = [dep EXCEPT !.config = TRUE]
    /\ UNCHANGED <<app, build, proc, net>>

SupplyNext ==
    \/ MakeDepDirs \/ SetStagingEnvironment \/ Run
    \/ SetupCacheDir \/ CopyRuntimeTxt \/ HandlePipfile \/ InstallPython \/ InstallPip
    \/ InstallPipEnvSkipped \/ PipfileToRequirements \/ PipenvLock
    \/ HandleRequirementstxt \/ HandlePylibmc \/ HandleFfi \/ UninstallUnusedDependencies
    \/ RunPipSkipped \/ RunPipUnvendored \/ RunPipVendored
    \/ DownloadNLTKCorporaSkipped \/ DownloadNLTKCorpora
    \/ RewriteShebangs \/ CreateDefaultEnv \/ RemoveGenerated
    \/ CompleteSupply
=============================================================================
