----------------------------- MODULE PushedApp ------------------------------
(***************************************************************************)
(* The app as it is pushed, and what it asks for: nothing here depends on  *)
(* how staging goes about it.  StagingState adds the state of a staging,   *)
(* StagingPromise says what a droplet owes the app.                        *)
(***************************************************************************)
EXTENDS Requirements, Naturals, Sequences

CONSTANTS
    PythonConstraint,  \* what runtime.txt can say, "python-" left out
    PythonVersion,     \* the python versions of the buildpack's manifest
    LockVersion,       \* what python_version of a Pipfile.lock can say
    FormattedVersion,  \* formatVersion, from LockVersion to PythonConstraint
    MatchingPython,    \* FindMatchingVersion, to PythonVersion or Absent
    DefaultVersion,    \* the manifest's default python
    Apps               \* the pushed apps of a model

(***************************************************************************)
(* Names the code spells out.                                              *)
(***************************************************************************)
Self == "-e ."                           \* the app itself, as a requirement
AgentPackage == [appdynamics |-> "appdynamics",
                 sealights   |-> "sealights-python-agent"]
Agent == {"appdynamics", "sealights"}

PipenvTools == {"setuptools_scm", "pytest-runner", "parver", "invoke", "pipenv", "wheel"}
CommonBuildDeps == {"flit-core", "poetry-core", "wheel", "setuptools"}
Tool == PipenvTools \cup CommonBuildDeps \cup {"pip"}

(***************************************************************************)
(* A Procfile is one process per line, <<>> when no line has a colon; a    *)
(* process records the agents its command runs under, the outermost first. *)
(***************************************************************************)
Process == [type : {"web", "worker"}, agents : Seq(Agent)]

(***************************************************************************)
(* Options that name an index (-i, --index-url, --extra-index-url), by the *)
(* file they are in and by how they are separated from the URL.            *)
(***************************************************************************)
IndexOption == ReqFile \X {"space", "equals"}
OutsideTop(options) == {o \in options : o[1] # Top}

Lock == [pkgs : SUBSET Package, index : BOOLEAN, python : LockVersion]
Vendor == [pkgs : SUBSET Package, sdist : BOOLEAN]

App ==
  [reqs : Tree,                                \* requirements.txt and its includes
   indexed : SUBSET IndexOption,               \* the index options of those files
   setup : BOOLEAN,                            \* setup.py exists
   pipfile : {Absent} \cup SUBSET Package,   \* Pipfile: what "pipenv lock" resolves
   lock : Lock \cup {Absent},                  \* Pipfile.lock
   runtime : PythonConstraint \cup {Absent},   \* runtime.txt
   conda : BOOLEAN,                            \* environment.yml exists
   vendor : Vendor \cup {Absent},              \* the vendor directory
   nltk : BOOLEAN,                             \* nltk.txt exists
   managePy : BOOLEAN,                         \* a manage.py at most two levels down
   procfile : {Absent} \cup Seq(Process),
   preCompile : {Absent} \cup SUBSET Package,\* the requirements.txt bin/pre_compile writes
   services : SUBSET Agent,                    \* bound services, by VCAP_SERVICES
   appdAgent : BOOLEAN,                        \* APPD_AGENT is set
   pip : {"unset", "latest", "other"},         \* BP_PIP_VERSION
   disableCollectstatic : BOOLEAN]             \* DISABLE_COLLECTSTATIC is set

ASSUME PackageAssumption == {Self, "appdynamics", "sealights-python-agent"} \subseteq Package
ASSUME VersionAssumption ==
    /\ Absent \notin PythonConstraint \cup PythonVersion
    /\ DefaultVersion \in PythonVersion
    /\ FormattedVersion \in [LockVersion -> PythonConstraint]
    /\ MatchingPython \in [PythonConstraint -> PythonVersion \cup {Absent}]
ASSUME AbsentIsNoValue ==
    /\ Absent \notin Lock
    /\ Absent \notin Vendor
    /\ Absent \notin Seq(Process)
    /\ \A S \in SUBSET Package : Absent # S
ASSUME AppsAssumption == Apps \subseteq App

-----------------------------------------------------------------------------
(* What the app asks for.                                                  *)

\* The agents whose hooks act on the app.
BoundAgents(a) == {x \in a.services : x = "appdynamics" => ~a.appdAgent}

\* In the order in which they wrap the first process of the Procfile: Sealights,
\* whose hook comes last, outside AppDynamics.
Wrappers(a) ==
    (IF "sealights" \in BoundAgents(a) THEN <<"sealights">> ELSE <<>>)
        \o (IF "appdynamics" \in BoundAgents(a) THEN <<"appdynamics">> ELSE <<>>)

HasRequirements(a) == a.preCompile # Absent \/ a.reqs[Top] # Absent

\* The first of bin/pre_compile's requirements.txt, requirements.txt,
\* Pipfile.lock with a Pipfile, Pipfile, setup.py.
Declared(a) ==
    CASE a.preCompile # Absent -> a.preCompile
      [] a.preCompile = Absent /\ a.reqs[Top] # Absent -> PackagesOf(a.reqs)
      [] ~HasRequirements(a) /\ a.pipfile # Absent /\ a.lock # Absent -> a.lock.pkgs
      [] ~HasRequirements(a) /\ a.pipfile # Absent /\ a.lock = Absent -> a.pipfile
      [] ~HasRequirements(a) /\ a.pipfile = Absent /\ a.setup -> {Self}
      [] OTHER -> {}

RequestedPython(a) ==
    CASE a.runtime # Absent -> MatchingPython[a.runtime]
      [] a.runtime = Absent /\ a.lock # Absent -> MatchingPython[FormattedVersion[a.lock.python]]
      [] OTHER -> DefaultVersion
=============================================================================
