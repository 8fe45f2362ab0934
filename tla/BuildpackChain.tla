---------------------------- MODULE BuildpackChain ---------------------------
(***************************************************************************)
(* Several buildpacks in one staging, and the launch of what they built:   *)
(* how the environment and the profile scripts of each reach the others    *)
(* (libbuildpack/stager.go).  The platform runs the supply of every        *)
(* buildpack in order and the finalize of the last alone, each in a        *)
(* process of its own; a container then sources the profile directory in   *)
(* the order of the names.  What supply does inside is Staging's subject;  *)
(* here it is what it leaves for others.  "python" is this buildpack for   *)
(* an app of RunPython, "conda" for one with an environment.yml.           *)
(***************************************************************************)
EXTENDS Naturals, FiniteSets, SequencesExt

CONSTANTS
    Other,        \* other buildpacks
    Command, Script,   \* names of commands and of profile scripts
    Commands,     \* from Other to the commands its bin directory holds
    EnvFiles,     \* from Other to the variables it writes env files for
    Scripts,      \* from Other to the names of its profile scripts
    Chains        \* the orders of buildpacks of a model

Buildpack == Other \cup {"python", "conda"}
PathVar == {"PATH", "LD_LIBRARY_PATH", "LIBRARY_PATH"}
Var == PathVar \cup {"PYTHONHOME", "LANG"}

\* The scripts of this buildpack that change what is modelled.
OwnScript == {"python.sh", "python.fixeggs.sh", "conda.sh"}

ASSUME OtherAssumption ==
    /\ Other \cap {"python", "conda"} = {}
    /\ {"python", "pip"} \subseteq Command
    /\ OwnScript \cup {"appdynamics.sh"} \subseteq Script
    /\ Commands \in [Other -> SUBSET Command]
    /\ EnvFiles \in [Other -> SUBSET Var]
    /\ Scripts \in [Other -> SUBSET (Script \ OwnScript)]
    \* What a buildpack sets for those after it, a script of its sets at launch.
    /\ \A o \in Other : EnvFiles[o] # {} => Scripts[o] # {}
\* This buildpack is in the chain once, for an app of one kind.
ASSUME ChainsAssumption ==
    \A c \in Chains :
        /\ c \in Seq(Buildpack)
        /\ \E i \in DOMAIN c : /\ c[i] \in {"python", "conda"}
                              /\ \A j \in DOMAIN c : c[j] \in {"python", "conda"} => j = i

VARIABLES
    chain,    \* the buildpacks in their order
    phase,    \* "supply", "finalize" or "launch"
    at,       \* the index of the buildpack that runs
    pc,
    user,     \* the variables the user sets
    environ,  \* those of the running process: per variable the indices of
              \* the dependency directories it names, 0 for the user's value
    built,    \* environ of finalize
    deps,     \* per index: what the dependency directory holds
    profile,  \* from <<index, name>> of a script to whose script it is
    front,    \* what 000_multi-supply.sh puts in front of each variable
    sourced   \* the scripts the container has sourced

vars == <<chain, phase, at, pc, user, environ, built, deps, profile, front, sourced>>

Final == Len(chain)

\* "pth": the paths that installed files name: none, those of staging, a
\* literal in their place, or those of the container.
DepDir == [dirs : SUBSET {"bin", "lib"}, commands : SUBSET Command, env : SUBSET Var,
           scripts : SUBSET Script, pth : {"none", "staging", "literal", "container"}]
NoDep == [dirs |-> {}, commands |-> {}, env |-> {}, scripts |-> {}, pth |-> "none"]

Init ==
    /\ chain \in Chains
    /\ phase = "supply" /\ at = 1 /\ pc = "MakeDepDirs"
    /\ user \in [Var -> {<<>>, <<0>>}]
    /\ user["PATH"] = <<0>> /\ user["PYTHONHOME"] = <<>>
    /\ environ = user
    /\ built = user
    /\ deps = [i \in 1 .. Final |-> NoDep]
    /\ profile = <<>>
    /\ front = [v \in PathVar |-> <<>>]
    /\ sourced = {}

-----------------------------------------------------------------------------
(* The stager.                                                             *)

\* The members of a set of indices, the highest first.
Descending(S) ==
    CHOOSE s \in [1 .. Cardinality(S) -> S] :
        /\ \A i \in S : \E k \in DOMAIN s : s[k] = i
        /\ \A j, k \in DOMAIN s : j < k => s[j] > s[k]

\* Mistake: the first buildpack's directory comes first.
existingDepsDirsAppended(dir) == Reverse(Descending({i \in 1 .. Final : dir \in deps[i].dirs}))

\* The directories in the order of their index are each put in front.
existingDepsDirs(dir) == Descending({i \in 1 .. Final : dir \in deps[i].dirs})

stagingEnvVarDirs == [v \in PathVar |-> IF v = "PATH" THEN "bin" ELSE "lib"]
launchEnvVarDirs == stagingEnvVarDirs

Writers(v) == {i \in 1 .. Final : v \in deps[i].env}

\* Mistake: the files of the last buildpack are read last.
EnvFileOfLast(v) == CHOOSE i \in Writers(v) : \A j \in Writers(v) : j <= i

\* The files are read from the last buildpack to the first: the first wins.
EnvFileOfFirst(v) == CHOOSE i \in Writers(v) : \A j \in Writers(v) : i <= j

\* The main program of supply makes the directories before the environment.
MakeDepDirs ==
    /\ pc = "MakeDepDirs"
    /\ pc' = "SetStagingEnvironment"
    /\ deps' = [deps EXCEPT ![at].dirs = @ \cup {"bin", "lib"}]
    /\ UNCHANGED <<chain, phase, at, user, environ, built, profile, front, sourced>>

\* An env file replaces what the directories gave, LIBRARY_PATH too.
SetStagingEnvironment ==
    /\ pc = "SetStagingEnvironment"
    /\ pc' = "Run"
    /\ environ' = [v \in Var |->
          IF Writers(v) # {} THEN <<EnvFileOfFirst(v)>>
          ELSE IF v \in PathVar THEN existingDepsDirs(stagingEnvVarDirs[v]) \o environ[v]
          ELSE environ[v]]
    /\ UNCHANGED <<chain, phase, at, user, built, deps, profile, front, sourced>>

\* Mistake: two buildpacks' scripts of one name share a file.
ScriptFilesUnprefixed ==
    LET names == UNION {deps[i].scripts : i \in 1 .. Final}
    IN  [f \in {<<0, n>> : n \in names} |->
            CHOOSE i \in 1 .. Final : f[2] \in deps[i].scripts]

\* Mistake: the copies are named after the buildpack that makes them.
ScriptFilesOfCopier ==
    [f \in UNION {{<<Final, n>> : n \in deps[i].scripts} : i \in 1 .. Final} |-> Final]

\* The copies are named after the directory they are from.
ScriptFiles ==
    [f \in UNION {{<<i, n>> : n \in deps[i].scripts} : i \in 1 .. Final} |-> f[1]]

SetLaunchEnvironment ==
    /\ pc = "SetLaunchEnvironment"
    /\ phase' = "launch" /\ pc' = "Launch"
    /\ front' = [v \in PathVar |-> existingDepsDirs(launchEnvVarDirs[v])]
    /\ profile' = ScriptFiles
    /\ UNCHANGED <<chain, at, user, environ, built, deps, sourced>>

-----------------------------------------------------------------------------
(* What the buildpacks leave.                                              *)

\* The app may have packages with path files, and an agent.
SupplyPython ==
    /\ chain[at] = "python"
    /\ environ' = [environ EXCEPT !["PATH"] = <<at>> \o @]
    /\ \E pth \in {"none", "staging"}, agent \in {{}, {"appdynamics.sh"}} :
          deps' = [deps EXCEPT ![at] =
                     [dirs |-> @.dirs, commands |-> {"python", "pip"},
                      env |-> {"PYTHONHOME", "LIBRARY_PATH", "LANG"},
                      scripts |-> {"python.sh"} \cup agent, pth |-> pth]]

\* The packages of a conda environment name its directory.
SupplyConda ==
    /\ chain[at] = "conda"
    /\ deps' = [deps EXCEPT ![at] =
                  [dirs |-> @.dirs, commands |-> {"python", "pip"}, env |-> {},
                   scripts |-> {"conda.sh"}, pth |-> "staging"]]
    /\ UNCHANGED environ

SupplyOther ==
    /\ chain[at] \in Other
    /\ deps' = [deps EXCEPT ![at] =
                  [dirs |-> @.dirs, commands |-> Commands[chain[at]],
                   env |-> EnvFiles[chain[at]], scripts |-> Scripts[chain[at]],
                   pth |-> "none"]]
    /\ UNCHANGED environ

Supply ==
    /\ phase = "supply" /\ pc = "Run"
    /\ SupplyPython \/ SupplyConda \/ SupplyOther
    /\ pc' = "Exit"
    /\ UNCHANGED <<chain, phase, at, user, built, profile, front, sourced>>

\* Mistake: no script to put the container's directory in.
FinalizePythonUnscripted ==
    /\ chain[Final] \in {"python", "conda"}
    /\ deps' = [deps EXCEPT
          ![Final].pth = IF chain[Final] = "python" /\ @ = "staging" THEN "literal" ELSE @]

\* ReplaceDepsDirWithLiteral looks at python's packages only; both it and the
\* script it relies on are of finalize.
FinalizePython ==
    /\ chain[Final] \in {"python", "conda"}
    /\ deps' = [deps EXCEPT
          ![Final].pth = IF chain[Final] = "python" /\ @ = "staging" THEN "literal" ELSE @,
          ![Final].scripts = @ \cup {"python.fixeggs.sh"}]

FinalizeOther == chain[Final] \in Other /\ UNCHANGED deps

Finalize ==
    /\ phase = "finalize" /\ pc = "Run"
    /\ FinalizePython \/ FinalizeOther
    /\ pc' = "SetLaunchEnvironment"
    /\ built' = environ
    /\ UNCHANGED <<chain, phase, at, user, environ, profile, front, sourced>>

-----------------------------------------------------------------------------
(* The platform.                                                           *)

NextProcess ==
    /\ pc = "Exit"
    /\ IF at < Final THEN at' = at + 1 /\ pc' = "MakeDepDirs" /\ UNCHANGED phase
                    ELSE phase' = "finalize" /\ pc' = "SetStagingEnvironment" /\ UNCHANGED at
    /\ environ' = user
    /\ UNCHANGED <<chain, user, built, deps, profile, front, sourced>>

\* Mistake: the user's directories come first.
LaunchValueBehind(v) == user[v] \o front[v]

\* The value in front of the one that is set.
LaunchValue(v) == front[v] \o user[v]

\* A container starts with 000_multi-supply.sh, the first name of all.
Launch ==
    /\ pc = "Launch"
    /\ pc' = "SourceScripts"
    /\ environ' = [v \in Var |-> IF v \in PathVar THEN LaunchValue(v) ELSE user[v]]
    /\ UNCHANGED <<chain, phase, at, user, built, deps, profile, front, sourced>>

\* "export LANG=${LANG:-en_US.UTF-8}" keeps a value that is set.
PythonSh(i) ==
    /\ environ' = [environ EXCEPT !["PYTHONHOME"] = <<i>>,
                                  !["LANG"] = IF @ = <<>> THEN <<i>> ELSE @]
    /\ UNCHANGED deps

FixeggsSh(i) ==
    /\ deps' = [deps EXCEPT ![i].pth = IF @ = "literal" THEN "container" ELSE @]
    /\ UNCHANGED environ

\* The files of the environment are rewritten, then it is activated.
CondaSh(i) ==
    /\ deps' = [deps EXCEPT ![i].pth = "container"]
    /\ environ' = [environ EXCEPT !["PATH"] = <<i>> \o @]

\* Scripts of others set what is unset.
OtherSh(i) ==
    /\ environ' = [v \in Var |->
          IF chain[i] \in Other /\ v \in EnvFiles[chain[i]] /\ environ[v] = <<>>
          THEN <<i>> ELSE environ[v]]
    /\ UNCHANGED deps

SourceScript(f) ==
    /\ pc = "SourceScripts"
    /\ f \notin sourced
    /\ \A g \in DOMAIN profile \ sourced : f[1] <= g[1]
    /\ CASE f[2] = "python.sh" -> PythonSh(profile[f])
         [] f[2] = "python.fixeggs.sh" -> FixeggsSh(profile[f])
         [] f[2] = "conda.sh" -> CondaSh(profile[f])
         [] OTHER -> OtherSh(profile[f])
    /\ sourced' = sourced \cup {f}
    /\ UNCHANGED <<chain, phase, at, pc, user, built, profile, front>>

StartApp ==
    /\ pc = "SourceScripts"
    /\ DOMAIN profile \subseteq sourced
    /\ pc' = "running"
    /\ UNCHANGED <<chain, phase, at, user, environ, built, deps, profile, front, sourced>>

Next ==
    \/ MakeDepDirs \/ SetStagingEnvironment \/ Supply
    \/ NextProcess \/ Finalize \/ SetLaunchEnvironment
    \/ Launch \/ (\E f \in DOMAIN profile : SourceScript(f)) \/ StartApp

Spec == Init /\ [][Next]_vars

-----------------------------------------------------------------------------
TypeOK ==
    /\ chain \in Chains
    /\ phase \in {"supply", "finalize", "launch"}
    /\ at \in 1 .. Final
    /\ pc \in {"MakeDepDirs", "SetStagingEnvironment", "Run", "Exit",
               "SetLaunchEnvironment", "Launch", "SourceScripts", "running"}
    /\ \A v \in Var : /\ user[v] \in {<<>>, <<0>>}
                      /\ \A e \in {environ, built} :
                            e[v] \in Seq(0 .. Final)
    /\ deps \in [1 .. Final -> DepDir]
    /\ \A i \in at + 1 .. Final : deps[i] = NoDep
    /\ \A f \in DOMAIN profile : f[2] \in deps[profile[f]].scripts
    /\ \A v \in PathVar : front[v] \in Seq(1 .. Final)
    /\ sourced \subseteq DOMAIN profile

\* This buildpack's index.
Python == CHOOSE i \in 1 .. Final : chain[i] \in {"python", "conda"}

\* The index of the first directory on PATH with the command, 0 for none.
FirstWith(command) ==
    LET found == {k \in DOMAIN environ["PATH"] :
                    LET i == environ["PATH"][k]
                    IN  i # 0 /\ "bin" \in deps[i].dirs /\ command \in deps[i].commands}
    IN  IF found = {} THEN 0
        ELSE environ["PATH"][CHOOSE k \in found : \A l \in found : k <= l]

\* No other buildpack replaces the variable with an env file of its own.
LeftAlone(v) == \A i \in 1 .. Final : chain[i] \in Other => v \notin EnvFiles[chain[i]]

(***************************************************************************)
(* Once the python of this buildpack is there, every process that runs     *)
(* after it finds this python first, and its PYTHONHOME, whatever earlier  *)
(* buildpacks brought, unless a later one brings its own or another one    *)
(* replaces the variable.                                                  *)
(***************************************************************************)
PythonFindsItsHome ==
    /\ pc \in {"Run", "Exit", "running"}
    /\ deps[Python].commands # {}
    =>
    /\ LeftAlone("PATH") /\ (\A i \in Python + 1 .. Final : "python" \notin deps[i].commands)
          => FirstWith("python") = Python
    /\ LeftAlone("PYTHONHOME") =>
          \/ phase = "supply" /\ at = Python
          \/ environ["PYTHONHOME"] = (IF chain[Python] = "python" THEN <<Python>> ELSE <<>>)

(***************************************************************************)
(* The launched app searches the dependency directories in the order in    *)
(* which finalize did; only conda's own directory comes before.            *)
(***************************************************************************)
SearchOrderKept ==
    pc = "running" =>
        /\ LeftAlone("LD_LIBRARY_PATH") =>
              environ["LD_LIBRARY_PATH"] = built["LD_LIBRARY_PATH"]
        /\ LeftAlone("PATH") =>
              environ["PATH"] = (IF chain[Python] = "conda" THEN <<Python>> ELSE <<>>)
                                    \o built["PATH"]

(***************************************************************************)
(* When several buildpacks set one variable, the app runs with the value   *)
(* that finalize saw, and with the user's value of LANG when there is one. *)
(* (python.sh sets PYTHONHOME whether it is set or not.)                   *)
(***************************************************************************)
VariablesAgree ==
    pc = "running" =>
        /\ environ["LANG"] = IF user["LANG"] # <<>> THEN user["LANG"] ELSE built["LANG"]
        /\ LeftAlone("PYTHONHOME") => environ["PYTHONHOME"] = built["PYTHONHOME"]

(***************************************************************************)
(* Every profile script that any buildpack of the chain wrote is sourced   *)
(* before the app starts, also when two have the same name.                *)
(***************************************************************************)
EveryScriptSourced ==
    pc = "running" =>
        \A i \in 1 .. Final : \A n \in deps[i].scripts :
            \E f \in sourced : f[2] = n /\ profile[f] = i

(***************************************************************************)
(* In the container no installed file names a directory of staging when    *)
(* this buildpack finalizes the chain, or the app is conda's.              *)
(***************************************************************************)
PathFilesResolve ==
    pc = "running" /\ (Python = Final \/ chain[Python] = "conda")
        => deps[Python].pth \in {"none", "container"}

(***************************************************************************)
(* The same wherever this buildpack stands: it can be a supply buildpack   *)
(* (CHANGELOG:2022 "Add support for supply buildpacks"), and packages are  *)
(* provided during supply (CHANGELOG:1963 "Provide pip/conda packages and  *)
(* nltk corpora during supply").  Path files are rewritten in finalize.    *)
(***************************************************************************)
SuppliedPackagesResolve ==
    pc = "running" => deps[Python].pth \in {"none", "container"}
=============================================================================
