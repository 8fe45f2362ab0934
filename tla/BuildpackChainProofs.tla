------------------------ MODULE BuildpackChainProofs -------------------------
(***************************************************************************)
(* The profile scripts, the path files and the environment of              *)
(* BuildpackChain, for chains of any length and whatever the other         *)
(* buildpacks leave.                                                       *)
(***************************************************************************)
EXTENDS BuildpackChain, FiniteSetTheorems, SequenceTheorems, TLAPS

Shape ==
    /\ chain \in Chains
    /\ at \in 1 .. Final
    /\ phase # "supply" => at = Final
    /\ pc = "SetLaunchEnvironment" => phase = "finalize"
    /\ pc \in {"Launch", "SourceScripts", "running"} <=> phase = "launch"
    /\ deps \in [1 .. Final -> DepDir]
    /\ \A i \in at + 1 .. Final : deps[i] = NoDep

\* The profile directory is complete from its making on; an app starts when
\* all of it is sourced.
ProfileKept ==
    /\ IF phase = "launch" THEN profile = ScriptFiles ELSE sourced = {}
    /\ pc = "running" => DOMAIN profile \subseteq sourced

Supplied(i) == i < at \/ phase # "supply" \/ pc = "Exit"
Finalized == phase = "launch" \/ pc = "SetLaunchEnvironment"

\* Conda's directory holds the script that rewrites its paths.
CondaPaths ==
    \A i \in 1 .. at :
        chain[i] = "conda" =>
            /\ deps[i].pth # "literal"
            /\ Supplied(i) => "conda.sh" \in deps[i].scripts
            /\ phase = "launch" /\ <<i, "conda.sh">> \in sourced => deps[i].pth = "container"

\* So does that of python when it is the last buildpack.
PythonPaths ==
    chain[Final] = "python" /\ Finalized =>
        /\ deps[Final].pth # "staging"
        /\ "python.fixeggs.sh" \in deps[Final].scripts
        /\ phase = "launch" /\ <<Final, "python.fixeggs.sh">> \in sourced
              => deps[Final].pth # "literal"

Inv == Shape /\ ProfileKept /\ CondaPaths /\ PythonPaths
-----------------------------------------------------------------------------
LEMMA ChainLength ==
    ASSUME chain \in Chains
    PROVE  Final \in Nat \ {0} /\ \A i \in 1 .. Final : chain[i] \in Buildpack
  BY ChainsAssumption DEF Final

LEMMA EmptyDep == NoDep \in DepDir
  BY DEF NoDep, DepDir

\* A script that a directory holds is a file of the profile directory.
LEMMA FileOf ==
    ASSUME NEW i \in 1 .. Final, NEW n \in deps[i].scripts
    PROVE  <<i, n>> \in DOMAIN ScriptFiles /\ ScriptFiles[<<i, n>>] = i
  BY DEF ScriptFiles

\* A file of the profile directory is a script of the directory it is named after.
LEMMA ScriptOf ==
    ASSUME NEW f \in DOMAIN ScriptFiles
    PROVE  /\ f = <<f[1], f[2]>> /\ f[1] \in 1 .. Final
           /\ ScriptFiles[f] = f[1]
  BY DEF ScriptFiles

\* The copies depend on the scripts alone.
LEMMA SameScripts ==
    ASSUME Final' = Final, \A i \in 1 .. Final : deps'[i].scripts = deps[i].scripts
    PROVE  ScriptFiles' = ScriptFiles
  BY DEF ScriptFiles

-----------------------------------------------------------------------------
(* One lemma per action.                                                   *)

LEMMA InitInv == Init => Inv
<1> SUFFICES ASSUME Init PROVE Inv
  OBVIOUS
<1>1. Final \in Nat \ {0}
  BY ChainLength DEF Init
<1>2. Shape /\ ProfileKept
  BY <1>1, EmptyDep DEF Init, Shape, ProfileKept
<1>3. CondaPaths /\ PythonPaths
  BY <1>1 DEF Init, CondaPaths, PythonPaths, Supplied, Finalized, NoDep
<1> QED
  BY <1>2, <1>3 DEF Inv

LEMMA MakeDepDirsInv == ASSUME Inv, MakeDepDirs PROVE Inv'
<1>1. Final' = Final /\ Final \in Nat \ {0} /\ at \in 1 .. Final /\ phase' = phase
  BY ChainLength DEF Inv, Shape, MakeDepDirs, Final
<1>2. PICK d \in SUBSET {"bin", "lib"} : deps' = [deps EXCEPT ![at].dirs = d]
  BY <1>1 DEF MakeDepDirs, Inv, Shape, DepDir
<1>3. deps' \in [1 .. Final -> DepDir]
  BY <1>1, <1>2, ZenonT(30) DEF Inv, Shape, DepDir
<1>4. \A i \in 1 .. Final : deps'[i].scripts = deps[i].scripts /\ deps'[i].pth = deps[i].pth
  BY <1>1, <1>2 DEF Inv, Shape, DepDir
<1>5. Shape'
  BY <1>1, <1>2, <1>3 DEF Inv, Shape, MakeDepDirs, NoDep
<1>6. ProfileKept'
  BY <1>1, <1>4, SameScripts DEF Inv, Shape, ProfileKept, MakeDepDirs
<1>7. CondaPaths' /\ PythonPaths'
  BY <1>1, <1>4 DEF Inv, Shape, CondaPaths, PythonPaths, Supplied, Finalized, MakeDepDirs
<1> QED
  BY <1>5, <1>6, <1>7 DEF Inv

\* Steps that leave the dependency directories and the profile alone.
LEMMA EnvironmentInv ==
    ASSUME Inv, SetStagingEnvironment \/ Launch \/ StartApp PROVE Inv'
<1>1. UNCHANGED <<chain, phase, at, deps, profile, sourced>> /\ Final' = Final
  BY DEF SetStagingEnvironment, Launch, StartApp, Final
<1>2. /\ pc' \in {"Launch", "SourceScripts", "running"} <=> phase' = "launch"
      /\ pc # "Exit" /\ pc' # "Exit"
      /\ pc' # "SetLaunchEnvironment"
  BY DEF Inv, Shape, SetStagingEnvironment, Launch, StartApp
<1>3. Shape'
  BY <1>1, <1>2 DEF Inv, Shape
<1>4. ProfileKept'
  <2>1. ScriptFiles' = ScriptFiles
    BY <1>1, SameScripts
  <2>2. pc' = "running" => DOMAIN profile' \subseteq sourced'
    BY <1>1 DEF SetStagingEnvironment, Launch, StartApp
  <2> QED
    BY <1>1, <2>1, <2>2 DEF Inv, ProfileKept
<1>5. CondaPaths' /\ PythonPaths'
  BY <1>1, <1>2 DEF Inv, CondaPaths, PythonPaths, Supplied, Finalized
<1> QED
  BY <1>3, <1>4, <1>5 DEF Inv

\* What supply leaves, as one directory.
LEMMA SuppliedDir ==
    ASSUME NEW dirs \in SUBSET {"bin", "lib"}, NEW commands \in SUBSET Command,
           NEW env \in SUBSET Var, NEW scripts \in SUBSET Script,
           NEW pth \in {"none", "staging"},
           chain[at] = "conda" => "conda.sh" \in scripts,
           deps' = [deps EXCEPT ![at] = [dirs |-> dirs, commands |-> commands, env |-> env,
                                         scripts |-> scripts, pth |-> pth]]
    PROVE  \E d \in DepDir :
              /\ deps' = [deps EXCEPT ![at] = d]
              /\ chain[at] = "conda" => d.pth # "literal" /\ "conda.sh" \in d.scripts
<1> DEFINE d == [dirs |-> dirs, commands |-> commands, env |-> env,
                 scripts |-> scripts, pth |-> pth]
<1>1. d \in DepDir
  BY DEF DepDir
<1>2. d.pth # "literal" /\ d.scripts = scripts /\ deps' = [deps EXCEPT ![at] = d]
  OBVIOUS
<1> QED
  <2> HIDE DEF d
  <2> QED
    BY <1>1, <1>2

LEMMA SupplyInv == ASSUME Inv, Supply PROVE Inv'
<1>1. /\ UNCHANGED <<chain, phase, at, profile, sourced>> /\ pc' = "Exit"
      /\ phase = "supply" /\ Final' = Final
      /\ Final \in Nat \ {0} /\ at \in 1 .. Final
  BY ChainLength DEF Inv, Shape, Supply, Final
<1>2. PICK d \in DepDir :
         /\ deps' = [deps EXCEPT ![at] = d]
         /\ chain[at] = "conda" => d.pth # "literal" /\ "conda.sh" \in d.scripts
  <2>1. deps[at].dirs \in SUBSET {"bin", "lib"}
    BY <1>1 DEF Inv, Shape, DepDir
  <2>2. CASE SupplyPython
    <3>1. PICK pth \in {"none", "staging"}, agent \in {{}, {"appdynamics.sh"}} :
             deps' = [deps EXCEPT ![at] =
                        [dirs |-> deps[at].dirs, commands |-> {"python", "pip"},
                         env |-> {"PYTHONHOME", "LIBRARY_PATH", "LANG"},
                         scripts |-> {"python.sh"} \cup agent, pth |-> pth]]
      BY <1>1, <2>2 DEF SupplyPython, Inv, Shape
    <3>2. {"python.sh"} \cup agent \in SUBSET Script /\ {"python", "pip"} \in SUBSET Command
      BY OtherAssumption DEF OwnScript
    <3>3. {"PYTHONHOME", "LIBRARY_PATH", "LANG"} \in SUBSET Var
      BY DEF Var, PathVar
    <3> QED
      BY <2>1, <2>2, <3>1, <3>2, <3>3, SuppliedDir DEF SupplyPython
  <2>3. CASE SupplyConda
    <3>1. {"conda.sh"} \in SUBSET Script /\ {"python", "pip"} \in SUBSET Command
      BY OtherAssumption DEF OwnScript
    <3>2. deps' = [deps EXCEPT ![at] =
                     [dirs |-> deps[at].dirs, commands |-> {"python", "pip"}, env |-> {},
                      scripts |-> {"conda.sh"}, pth |-> "staging"]]
      BY <1>1, <2>3 DEF SupplyConda, Inv, Shape
    <3> QED
      BY <2>1, <3>1, <3>2, SuppliedDir
  <2>4. CASE SupplyOther
    <3>1. chain[at] \in Other /\ chain[at] # "conda"
      BY <2>4, OtherAssumption DEF SupplyOther
    <3>2. deps' = [deps EXCEPT ![at] =
                     [dirs |-> deps[at].dirs, commands |-> Commands[chain[at]],
                      env |-> EnvFiles[chain[at]], scripts |-> Scripts[chain[at]],
                      pth |-> "none"]]
      BY <1>1, <2>4 DEF SupplyOther, Inv, Shape
    <3>3. /\ Commands[chain[at]] \in SUBSET Command /\ EnvFiles[chain[at]] \in SUBSET Var
          /\ Scripts[chain[at]] \in SUBSET Script
      BY <3>1, OtherAssumption
    <3> QED
      BY <2>1, <3>1, <3>2, <3>3, SuppliedDir
  <2> QED
    BY <2>2, <2>3, <2>4 DEF Supply
<1>6. /\ deps \in [1 .. Final -> DepDir] /\ deps' \in [1 .. Final -> DepDir]
      /\ deps'[at] = d /\ \A i \in 1 .. Final : i # at => deps'[i] = deps[i]
  <2>1. deps \in [1 .. Final -> DepDir] /\ at \in 1 .. Final
    BY <1>1 DEF Inv, Shape
  <2>2. deps' = [deps EXCEPT ![at] = d]
    BY <1>2
  <2> QED
    BY <2>1, <2>2
<1>3. Shape'
  <2>1. \A i \in at + 1 .. Final : deps'[i] = NoDep
    BY <1>1, <1>6 DEF Inv, Shape
  <2>2. pc # "running" /\ pc # "Launch" /\ pc # "SourceScripts"
    BY <1>1 DEF Inv, Shape
  <2> QED
    BY <1>1, <1>6, <2>1, <2>2 DEF Inv, Shape, NoDep
<1>4. ProfileKept' /\ PythonPaths'
  BY <1>1 DEF Inv, ProfileKept, PythonPaths, Finalized
<1>5. CondaPaths'
  BY <1>1, <1>2, <1>6 DEF Inv, CondaPaths, Supplied
<1> QED
  BY <1>3, <1>4, <1>5 DEF Inv

LEMMA NextProcessInv == ASSUME Inv, NextProcess PROVE Inv'
<1>1. /\ UNCHANGED <<chain, deps, profile, sourced>> /\ Final' = Final
      /\ Final \in Nat \ {0} /\ at \in 1 .. Final /\ pc = "Exit"
  BY ChainLength DEF Inv, Shape, NextProcess, Final
<1>2. phase # "launch" /\ phase' # "launch"
  BY <1>1 DEF Inv, Shape, NextProcess
<1>3. Shape'
  BY <1>1, <1>2 DEF Inv, Shape, NextProcess
<1>4. ProfileKept' /\ PythonPaths'
  BY <1>1, <1>2 DEF Inv, ProfileKept, PythonPaths, Finalized, NextProcess
<1>5. CondaPaths'
  <2>0. \A i \in 1 .. at : Supplied(i)
    BY <1>1 DEF Supplied
  <2>1. CASE at < Final
    <3>1. deps[at + 1] = NoDep
      BY <1>1, <2>1 DEF Inv, Shape
    <3>2. at' = at + 1 /\ pc' = "MakeDepDirs" /\ phase' = phase
      BY <2>1 DEF NextProcess
    <3>3. phase = "supply"
      BY <1>1, <2>1 DEF Inv, Shape
    <3>4. \A i \in 1 .. at : chain[i] = "conda" =>
             deps[i].pth # "literal" /\ "conda.sh" \in deps[i].scripts
      BY <2>0 DEF Inv, CondaPaths
    <3>5. deps[at + 1].pth = "none" /\ \A i \in Nat : i = at + 1 => ~(Supplied(i)')
      BY <1>1, <3>1, <3>2, <3>3 DEF NoDep, Supplied
    <3>6. \A i \in 1 .. at + 1 : i \in 1 .. at \/ i = at + 1
      BY <1>1
    <3> QED
      BY <1>1, <1>2, <3>2, <3>4, <3>5, <3>6 DEF CondaPaths
  <2>2. CASE ~(at < Final)
    BY <1>1, <1>2, <2>2 DEF Inv, CondaPaths, Supplied, NextProcess
  <2> QED
    BY <2>1, <2>2
<1> QED
  BY <1>3, <1>4, <1>5 DEF Inv

LEMMA FinalizeInv == ASSUME Inv, Finalize PROVE Inv'
<1>1. /\ UNCHANGED <<chain, phase, at, profile, sourced>> /\ Final' = Final
      /\ phase = "finalize" /\ pc' = "SetLaunchEnvironment"
      /\ Final \in Nat \ {0} /\ at = Final
  BY ChainLength DEF Inv, Shape, Finalize, Final
<1>2. PICK d \in DepDir :
         /\ deps' = [deps EXCEPT ![Final] = d]
         /\ deps[Final].scripts \subseteq d.scripts
         /\ chain[Final] = "conda" => d.pth = deps[Final].pth
         /\ chain[Final] = "python" =>
               d.pth # "staging" /\ "python.fixeggs.sh" \in d.scripts
  <2>1. deps[Final] \in DepDir
    BY <1>1 DEF Inv, Shape
  <2>2. CASE FinalizePython
    <3> DEFINE d == [deps[Final] EXCEPT
                       !.pth = IF chain[Final] = "python" /\ @ = "staging" THEN "literal" ELSE @,
                       !.scripts = @ \cup {"python.fixeggs.sh"}]
    <3>1. "python.fixeggs.sh" \in Script
      BY OtherAssumption DEF OwnScript
    <3>2. d \in DepDir
      BY <2>1, <3>1 DEF DepDir
    <3>3. deps' = [deps EXCEPT ![Final] = d]
      BY <1>1, <2>1, <2>2 DEF FinalizePython, Inv, Shape, DepDir
    <3> QED
      BY <2>1, <3>2, <3>3 DEF DepDir
  <2>3. CASE FinalizeOther
    <3>1. chain[Final] # "conda" /\ chain[Final] # "python"
      BY <2>3, OtherAssumption DEF FinalizeOther
    <3>2. deps' = [deps EXCEPT ![Final] = deps[Final]]
      BY <1>1, <2>3 DEF FinalizeOther, Inv, Shape
    <3> QED
      BY <2>1, <3>1, <3>2
  <2> QED
    BY <2>2, <2>3 DEF Finalize
<1>3. Shape'
  BY <1>1, <1>2 DEF Inv, Shape
<1>4. ProfileKept' /\ PythonPaths'
  BY <1>1, <1>2 DEF Inv, Shape, ProfileKept, PythonPaths
<1>5. CondaPaths'
  BY <1>1, <1>2 DEF Inv, Shape, CondaPaths, Supplied
<1> QED
  BY <1>3, <1>4, <1>5 DEF Inv

LEMMA SetLaunchEnvironmentInv == ASSUME Inv, SetLaunchEnvironment PROVE Inv'
<1>1. /\ UNCHANGED <<chain, at, deps, sourced>> /\ Final' = Final
      /\ pc = "SetLaunchEnvironment" /\ phase' = "launch" /\ pc' = "Launch"
      /\ profile' = ScriptFiles
  BY DEF SetLaunchEnvironment, Final
<1>2. phase # "launch" /\ sourced = {}
  BY <1>1 DEF Inv, Shape, ProfileKept
<1>3. ScriptFiles' = ScriptFiles
  BY <1>1, SameScripts
<1>4. Shape' /\ ProfileKept'
  BY <1>1, <1>2, <1>3 DEF Inv, Shape, ProfileKept
<1>5. CondaPaths'
  <2>1. at = Final /\ \A i \in 1 .. at : Supplied(i)
    BY <1>1, <1>2 DEF Inv, Shape, Supplied
  <2> QED
    BY <1>1, <1>2, <2>1 DEF Inv, CondaPaths
<1>6. PythonPaths'
  BY <1>1, <1>2 DEF Inv, PythonPaths, Finalized
<1> QED
  BY <1>4, <1>5, <1>6 DEF Inv

\* A script of the container rewrites paths towards the container only.
LEMMA SourceScriptInv ==
    ASSUME Inv, NEW f \in DOMAIN profile, SourceScript(f) PROVE Inv'
<1>1. /\ UNCHANGED <<chain, phase, at, pc, profile>> /\ sourced' = sourced \cup {f}
      /\ Final' = Final /\ pc = "SourceScripts" /\ phase = "launch" /\ at = Final
      /\ Final \in Nat \ {0}
  BY ChainLength DEF Inv, Shape, SourceScript, Final
<1>2. profile = ScriptFiles
  BY <1>1 DEF Inv, ProfileKept
<1> DEFINE owner == profile[f]
<1>3. f = <<owner, f[2]>> /\ owner \in 1 .. Final
  BY <1>2, ScriptOf
<1>4. /\ deps \in [1 .. Final -> DepDir]
      /\ deps[owner] \in DepDir
  BY <1>3 DEF Inv, Shape
<1>5. PICK pth \in {deps[owner].pth, "container"} :
         /\ deps' = [deps EXCEPT ![owner].pth = pth]
         /\ f[2] = "conda.sh" => pth = "container"
         /\ f[2] = "python.fixeggs.sh" => pth # "literal"
  <2>1. deps = [deps EXCEPT ![owner].pth = deps[owner].pth]
    BY <1>3, <1>4 DEF DepDir
  <2> QED
    BY <2>1 DEF SourceScript, PythonSh, FixeggsSh, CondaSh, OtherSh
<1>6. deps' \in [1 .. Final -> DepDir]
  BY <1>3, <1>4, <1>5 DEF DepDir
<1>7. /\ deps'[owner].pth = pth
      /\ \A j \in 1 .. Final : deps'[j].scripts = deps[j].scripts
      /\ \A j \in 1 .. Final : j # owner => deps'[j] = deps[j]
  BY <1>3, <1>4, <1>5 DEF DepDir
<1>8. ScriptFiles' = ScriptFiles
  <2>1. \A j \in 1 .. Final : deps'[j].scripts = deps[j].scripts
    BY <1>7
  <2> QED
    BY <1>1, <2>1, SameScripts
<1>9. Shape' /\ ProfileKept'
  BY <1>1, <1>2, <1>6, <1>8 DEF Inv, Shape, ProfileKept
<1>10. CondaPaths'
  <2> SUFFICES ASSUME NEW j \in 1 .. Final, chain[j] = "conda"
               PROVE  /\ deps'[j].pth # "literal"
                      /\ "conda.sh" \in deps'[j].scripts
                      /\ <<j, "conda.sh">> \in sourced' => deps'[j].pth = "container"
    BY <1>1 DEF CondaPaths
  <2>1. /\ deps[j].pth # "literal" /\ "conda.sh" \in deps[j].scripts
        /\ <<j, "conda.sh">> \in sourced => deps[j].pth = "container"
    BY <1>1 DEF Inv, CondaPaths, Supplied
  <2>2. <<j, "conda.sh">> = f => j = owner /\ f[2] = "conda.sh"
    BY <1>3
  <2> QED
    BY <1>1, <1>5, <1>7, <2>1, <2>2
<1>11. PythonPaths'
  <2> SUFFICES ASSUME chain[Final] = "python"
               PROVE  /\ deps'[Final].pth # "staging"
                      /\ "python.fixeggs.sh" \in deps'[Final].scripts
                      /\ <<Final, "python.fixeggs.sh">> \in sourced'
                            => deps'[Final].pth # "literal"
    BY <1>1 DEF PythonPaths
  <2>1. /\ deps[Final].pth # "staging" /\ "python.fixeggs.sh" \in deps[Final].scripts
        /\ <<Final, "python.fixeggs.sh">> \in sourced => deps[Final].pth # "literal"
    BY <1>1 DEF Inv, PythonPaths, Finalized
  <2>2. <<Final, "python.fixeggs.sh">> = f => Final = owner /\ f[2] = "python.fixeggs.sh"
    BY <1>3
  <2> QED
    BY <1>1, <1>5, <1>7, <2>1, <2>2
<1> QED
  BY <1>9, <1>10, <1>11 DEF Inv

LEMMA StutterInv == ASSUME Inv, UNCHANGED vars PROVE Inv'
  BY DEF vars, Inv, Shape, ProfileKept, CondaPaths, PythonPaths, Supplied, Finalized,
     ScriptFiles, Final

(***************************************************************************)
(* Every step of the buildpacks, the platform and the container keeps the  *)
(* invariant.                                                              *)
(***************************************************************************)
LEMMA Invariance == Spec => []Inv
<1>1. Inv /\ [Next]_vars => Inv'
  BY MakeDepDirsInv, EnvironmentInv, SupplyInv, NextProcessInv, FinalizeInv,
     SetLaunchEnvironmentInv, SourceScriptInv, StutterInv DEF Next
<1> QED
  BY <1>1, InitInv, PTL DEF Spec

-----------------------------------------------------------------------------
(***************************************************************************)
(* Every profile script of every buildpack is sourced before the app       *)
(* starts, under a name of its own.                                        *)
(***************************************************************************)
THEOREM ScriptsSourced == Spec => []EveryScriptSourced
<1>1. Inv => EveryScriptSourced
  <2> SUFFICES ASSUME Inv, pc = "running", NEW i \in 1 .. Final, NEW n \in deps[i].scripts
               PROVE  \E f \in sourced : f[2] = n /\ profile[f] = i
    BY DEF EveryScriptSourced
  <2>1. profile = ScriptFiles /\ DOMAIN profile \subseteq sourced
    BY DEF Inv, Shape, ProfileKept
  <2>2. <<i, n>> \in sourced /\ profile[<<i, n>>] = i
    BY <2>1, FileOf
  <2> QED
    BY <2>2
<1> QED
  BY <1>1, Invariance, PTL

(***************************************************************************)
(* When this buildpack is the last of the chain, or the app is conda's, no *)
(* file that staging installed names a directory of staging in the         *)
(* container.                                                              *)
(***************************************************************************)
THEOREM PathsResolve == Spec => []PathFilesResolve
<1>1. Inv => PathFilesResolve
  <2> SUFFICES ASSUME Inv, pc = "running", Python = Final \/ chain[Python] = "conda"
               PROVE  deps[Python].pth \in {"none", "container"}
    BY DEF PathFilesResolve
  <2>1. /\ phase = "launch" /\ at = Final /\ chain \in Chains
        /\ profile = ScriptFiles /\ DOMAIN profile \subseteq sourced
    BY DEF Inv, Shape, ProfileKept
  <2>2. Python \in 1 .. Final /\ chain[Python] \in {"python", "conda"}
    <3>1. \E i \in 1 .. Final : chain[i] \in {"python", "conda"}
      BY <2>1, ChainsAssumption DEF Final
    <3> QED
      BY <3>1 DEF Python
  <2>3. deps[Python].pth \in {"none", "staging", "literal", "container"}
    BY <2>2 DEF Inv, Shape, DepDir
  <2>4. CASE chain[Python] = "conda"
    <3>1. /\ "conda.sh" \in deps[Python].scripts
          /\ <<Python, "conda.sh">> \in sourced => deps[Python].pth = "container"
      BY <2>1, <2>2, <2>4 DEF Inv, CondaPaths, Supplied
    <3>2. <<Python, "conda.sh">> \in sourced
      BY <2>1, <2>2, <3>1, FileOf
    <3> QED
      BY <3>1, <3>2
  <2>5. CASE chain[Python] = "python" /\ Python = Final
    <3>1. /\ deps[Final].pth # "staging" /\ "python.fixeggs.sh" \in deps[Final].scripts
          /\ <<Final, "python.fixeggs.sh">> \in sourced => deps[Final].pth # "literal"
      BY <2>1, <2>5 DEF Inv, PythonPaths, Finalized
    <3>2. <<Final, "python.fixeggs.sh">> \in sourced
      BY <2>1, <2>2, <2>5, <3>1, FileOf
    <3> QED
      BY <2>3, <2>5, <3>1, <3>2
  <2> QED
    BY <2>2, <2>4, <2>5
<1> QED
  BY <1>1, Invariance, PTL
-----------------------------------------------------------------------------
(* The environment: what is where at each step, once for all that follows. *)

Typed ==
    /\ phase \in {"supply", "finalize", "launch"}
    /\ pc \in {"MakeDepDirs", "SetStagingEnvironment", "Run", "Exit",
               "SetLaunchEnvironment", "Launch", "SourceScripts", "running"}
    /\ pc \in {"MakeDepDirs", "Exit"} => phase = "supply"
    /\ user \in [Var -> {<<>>, <<0>>}] /\ user["PATH"] = <<0>> /\ user["PYTHONHOME"] = <<>>
    /\ environ \in [Var -> Seq(0 .. Final)]
    /\ built \in [Var -> Seq(0 .. Final)]
    /\ front \in [PathVar -> Seq(1 .. Final)]
    /\ phase # "launch" => profile = <<>>
    /\ sourced \subseteq DOMAIN profile
    /\ pc = "Launch" => sourced = {}

CommandsOf(b) == IF b \in Other THEN Commands[b] ELSE {"python", "pip"}
EnvOf(b) == IF b \in Other THEN EnvFiles[b]
            ELSE IF b = "python" THEN {"PYTHONHOME", "LIBRARY_PATH", "LANG"} ELSE {}

HasDirs(i) == i <= at /\ (i = at => pc # "MakeDepDirs")
HasSupplied(i) == i <= at /\ Supplied(i)

\* What each dependency directory holds.
Holds(i) ==
    /\ deps[i].dirs = IF HasDirs(i) THEN {"bin", "lib"} ELSE {}
    /\ deps[i].commands = IF HasSupplied(i) THEN CommandsOf(chain[i]) ELSE {}
    /\ deps[i].env = IF HasSupplied(i) THEN EnvOf(chain[i]) ELSE {}
    /\ "python.sh" \in deps[i].scripts <=> HasSupplied(i) /\ chain[i] = "python"
    /\ "conda.sh" \in deps[i].scripts <=> HasSupplied(i) /\ chain[i] = "conda"
    /\ chain[i] \in Other => deps[i].scripts = IF HasSupplied(i) THEN Scripts[chain[i]] ELSE {}

Contents == \A i \in 1 .. Final : Holds(i)

Lowest(S) == CHOOSE i \in S : \A j \in S : i <= j
LangWriters == {i \in 1 .. Final : "LANG" \in EnvOf(chain[i])}

\* The scripts that set LANG.
SetsLang(f) == f[1] \in LangWriters /\ (chain[f[1]] = "python" => f[2] = "python.sh")

\* The directories of the buildpacks so far, then the user's.
SearchPath(v) == Descending(1 .. at) \o user[v]

\* The home of this buildpack's python, if it has one.
PythonHome == IF chain[Python] = "python" THEN <<Python>> ELSE <<>>

\* The environment of a process of staging.
StagingEnviron ==
    /\ pc \in {"MakeDepDirs", "SetStagingEnvironment"} => environ = user
    /\ pc \in {"Run", "Exit"} =>
          /\ LeftAlone("LD_LIBRARY_PATH") =>
                environ["LD_LIBRARY_PATH"] = SearchPath("LD_LIBRARY_PATH")
          /\ LeftAlone("PATH") =>
                environ["PATH"] = IF pc = "Exit" /\ chain[at] = "python"
                                  THEN <<at>> \o SearchPath("PATH") ELSE SearchPath("PATH")
          /\ LeftAlone("PYTHONHOME") =>
                environ["PYTHONHOME"] = IF Python < at \/ phase = "finalize"
                                        THEN PythonHome ELSE <<>>
          /\ phase = "finalize" =>
                environ["LANG"] = IF LangWriters = {} THEN user["LANG"]
                                  ELSE <<Lowest(LangWriters)>>

\* The environment of finalize.
BuiltEnviron ==
    pc = "SetLaunchEnvironment" \/ phase = "launch" =>
        /\ \A v \in {"PATH", "LD_LIBRARY_PATH"} : LeftAlone(v) => built[v] = SearchPath(v)
        /\ LeftAlone("PYTHONHOME") => built["PYTHONHOME"] = PythonHome
        /\ built["LANG"] = IF LangWriters = {} THEN user["LANG"] ELSE <<Lowest(LangWriters)>>

\* The environment of the container.
LaunchEnviron ==
    /\ phase = "launch" => \A v \in PathVar : front[v] = Descending(1 .. at)
    /\ pc \in {"SourceScripts", "running"} =>
          /\ LeftAlone("LD_LIBRARY_PATH") =>
                environ["LD_LIBRARY_PATH"] = SearchPath("LD_LIBRARY_PATH")
          /\ LeftAlone("PATH") =>
                environ["PATH"] = IF <<Python, "conda.sh">> \in sourced
                                  THEN <<Python>> \o SearchPath("PATH") ELSE SearchPath("PATH")
          /\ LeftAlone("PYTHONHOME") =>
                environ["PYTHONHOME"] = IF <<Python, "python.sh">> \in sourced
                                        THEN <<Python>> ELSE <<>>
          /\ environ["LANG"] = IF user["LANG"] # <<>> THEN user["LANG"]
                               ELSE IF \E f \in sourced : SetsLang(f)
                                    THEN <<Lowest(LangWriters)>> ELSE <<>>

Environments == StagingEnviron /\ BuiltEnviron /\ LaunchEnviron

-----------------------------------------------------------------------------
\* The indices up to n, the highest first.
LEMMA DescendingTo ==
    ASSUME NEW n \in Nat
    PROVE  LET s == Descending(1 .. n)
           IN  /\ s \in [1 .. n -> 1 .. n]
               /\ s \in Seq(1 .. n) /\ Len(s) = n
               /\ \A i \in 1 .. n : \E k \in 1 .. n : s[k] = i
               /\ \A j, k \in 1 .. n : j < k => s[j] > s[k]
<1> DEFINE t == [k \in 1 .. n |-> n + 1 - k]
<1>1. Cardinality(1 .. n) = n
  BY FS_Interval
<1>2. t \in [1 .. n -> 1 .. n]
  OBVIOUS
<1>3. \A i \in 1 .. n : n + 1 - i \in 1 .. n /\ t[n + 1 - i] = i
  OBVIOUS
<1>4. \A j, k \in 1 .. n : j < k => t[j] > t[k]
  OBVIOUS
<1>5. \E s \in [1 .. n -> 1 .. n] : /\ \A i \in 1 .. n : \E k \in DOMAIN s : s[k] = i
                                    /\ \A j, k \in DOMAIN s : j < k => s[j] > s[k]
  BY <1>2, <1>3, <1>4
<1> DEFINE s == Descending(1 .. n)
<1>6. /\ s \in [1 .. n -> 1 .. n]
      /\ \A i \in 1 .. n : \E k \in DOMAIN s : s[k] = i
      /\ \A j, k \in DOMAIN s : j < k => s[j] > s[k]
  BY <1>1, <1>5 DEF Descending
<1>7. s \in Seq(1 .. n) /\ Len(s) = n
  BY <1>6
<1> QED
  BY <1>6, <1>7

\* This buildpack is in the chain once.
LEMMA PythonIs ==
    ASSUME chain \in Chains
    PROVE  /\ Python \in 1 .. Final /\ chain[Python] \in {"python", "conda"}
           /\ \A i \in 1 .. Final : i # Python => chain[i] \in Other
<1>1. PICK i \in 1 .. Final : /\ chain[i] \in {"python", "conda"}
                              /\ \A j \in 1 .. Final : chain[j] \in {"python", "conda"} => j = i
  BY ChainsAssumption, ChainLength DEF Final
<1>2. Python = i
  BY <1>1 DEF Python
<1> QED
  BY <1>1, <1>2, ChainLength DEF Buildpack

\* A set of indices that is not empty has a lowest one.
LEMMA LowestIs ==
    ASSUME NEW n \in Nat, NEW S \in SUBSET (1 .. n), S # {}
    PROVE  Lowest(S) \in S /\ \A j \in S : Lowest(S) <= j
<1>1. S \subseteq Nat
  OBVIOUS
<1>2. PICK i \in S : \A j \in S : <<j, i>> \notin OpToRel(<, Nat)
  BY <1>1, WFMin, NatLessThanWellFounded
<1>3. ASSUME NEW j \in S PROVE i <= j
  <2>1. i \in Nat /\ j \in Nat
    BY <1>1
  <2>2. <<j, i>> \in Nat \X Nat /\ ~(<<j, i>>[1] < <<j, i>>[2])
    BY <1>2, <2>1 DEF OpToRel
  <2> QED
    BY <2>1, <2>2
<1> QED
  BY <1>3 DEF Lowest

-----------------------------------------------------------------------------
(* What the dependency directories hold.                                   *)

\* What supply leaves: the directories it found, and what is the buildpack's.
LEMMA SupplyLeaves ==
    ASSUME Inv, Supply
    PROVE  /\ deps' \in [1 .. Final -> DepDir]
           /\ \A i \in 1 .. Final : i # at => deps'[i] = deps[i]
           /\ deps'[at].dirs = deps[at].dirs
           /\ deps'[at].commands = CommandsOf(chain[at])
           /\ deps'[at].env = EnvOf(chain[at])
           /\ "python.sh" \in deps'[at].scripts <=> chain[at] = "python"
           /\ "conda.sh" \in deps'[at].scripts <=> chain[at] = "conda"
           /\ chain[at] \in Other => deps'[at].scripts = Scripts[chain[at]]
<1>1. deps \in [1 .. Final -> DepDir] /\ at \in 1 .. Final /\ Final' = Final
      /\ "python" \notin Other /\ "conda" \notin Other
  BY OtherAssumption DEF Inv, Shape, Supply, Final
<1>2. deps' \in [1 .. Final -> DepDir]
  BY <1>1, SupplyInv DEF Inv, Shape
<1>3. CASE SupplyPython
  <2>1. PICK pth \in {"none", "staging"}, agent \in {{}, {"appdynamics.sh"}} :
           deps' = [deps EXCEPT ![at] =
                      [dirs |-> @.dirs, commands |-> {"python", "pip"},
                       env |-> {"PYTHONHOME", "LIBRARY_PATH", "LANG"},
                       scripts |-> {"python.sh"} \cup agent, pth |-> pth]]
    BY <1>3 DEF SupplyPython
  <2>2. chain[at] = "python" /\ "conda.sh" \notin {"python.sh"} \cup agent
    BY <1>3 DEF SupplyPython
  <2> QED
    BY <1>1, <1>2, <2>1, <2>2 DEF CommandsOf, EnvOf
<1>4. CASE SupplyConda
  BY <1>1, <1>2, <1>4 DEF SupplyConda, CommandsOf, EnvOf
<1>5. CASE SupplyOther
  <2>1. Scripts[chain[at]] \cap OwnScript = {}
    BY <1>5, OtherAssumption DEF SupplyOther
  <2>2. "python.sh" \notin Scripts[chain[at]] /\ "conda.sh" \notin Scripts[chain[at]]
    BY <2>1 DEF OwnScript
  <2>3. chain[at] # "python" /\ chain[at] # "conda"
    BY <1>1, <1>5 DEF SupplyOther
  <2>4. deps'[at] = [dirs |-> deps[at].dirs, commands |-> Commands[chain[at]],
                     env |-> EnvFiles[chain[at]], scripts |-> Scripts[chain[at]], pth |-> "none"]
        /\ \A i \in 1 .. Final : i # at => deps'[i] = deps[i]
    BY <1>1, <1>5 DEF SupplyOther
  <2> QED
    BY <1>2, <1>5, <2>2, <2>3, <2>4 DEF SupplyOther, CommandsOf, EnvOf
<1> QED
  BY <1>3, <1>4, <1>5 DEF Supply

\* Finalize and the scripts of a container touch path files, and finalize adds a
\* script that is neither python.sh nor conda.sh.
LEMMA LaterKeep ==
    ASSUME Inv, Finalize \/ \E f \in DOMAIN profile : SourceScript(f)
    PROVE  \A i \in 1 .. Final :
              /\ deps'[i].dirs = deps[i].dirs /\ deps'[i].commands = deps[i].commands
              /\ deps'[i].env = deps[i].env
              /\ \A n \in {"python.sh", "conda.sh"} :
                    n \in deps'[i].scripts <=> n \in deps[i].scripts
              /\ chain[i] \in Other => deps'[i].scripts = deps[i].scripts
<1>1. deps \in [1 .. Final -> DepDir] /\ "python" \notin Other /\ "conda" \notin Other
  BY OtherAssumption DEF Inv, Shape
<1>2. CASE Finalize
  <2>1. CASE FinalizeOther
    BY <1>1, <2>1 DEF FinalizeOther
  <2>2. CASE FinalizePython
    <3>1. Final \in 1 .. Final /\ deps[Final] \in DepDir
      BY <1>1, ChainLength DEF Inv, Shape
    <3> DEFINE d == [deps[Final] EXCEPT
                       !.pth = IF chain[Final] = "python" /\ @ = "staging" THEN "literal" ELSE @,
                       !.scripts = @ \cup {"python.fixeggs.sh"}]
    <3>2. deps' = [deps EXCEPT ![Final] = d]
      BY <1>1, <2>2, <3>1 DEF FinalizePython, DepDir
    <3>3. deps'[Final] = d /\ \A i \in 1 .. Final : i # Final => deps'[i] = deps[i]
      BY <1>1, <3>1, <3>2
    <3>4. /\ deps'[Final].dirs = deps[Final].dirs /\ deps'[Final].commands = deps[Final].commands
          /\ deps'[Final].env = deps[Final].env
          /\ deps'[Final].scripts = deps[Final].scripts \cup {"python.fixeggs.sh"}
      BY <3>1, <3>3 DEF DepDir
    <3>5. chain[Final] \notin Other
      BY <1>1, <2>2 DEF FinalizePython
    <3> QED
      BY <3>3, <3>4, <3>5
  <2> QED
    BY <1>2, <2>1, <2>2 DEF Finalize
<1>3. ASSUME NEW f \in DOMAIN profile, SourceScript(f)
      PROVE  \A i \in 1 .. Final :
                /\ deps'[i].dirs = deps[i].dirs /\ deps'[i].commands = deps[i].commands
                /\ deps'[i].env = deps[i].env /\ deps'[i].scripts = deps[i].scripts
  <2>1. PICK pth : deps' = [deps EXCEPT ![profile[f]].pth = pth] \/ deps' = deps
    BY <1>3 DEF SourceScript, PythonSh, FixeggsSh, CondaSh, OtherSh
  <2> SUFFICES ASSUME NEW i \in 1 .. Final
               PROVE  /\ deps'[i].dirs = deps[i].dirs /\ deps'[i].commands = deps[i].commands
                      /\ deps'[i].env = deps[i].env /\ deps'[i].scripts = deps[i].scripts
    OBVIOUS
  <2>2. deps'[i] = deps[i] \/ deps'[i] = [deps[i] EXCEPT !.pth = pth]
    BY <1>1, <2>1
  <2>3. deps[i] \in DepDir
    BY <1>1
  <2> QED
    BY <2>2, <2>3 DEF DepDir
<1> QED
  BY <1>2, <1>3

LEMMA ContentsStep ==
    ASSUME Inv, Typed, Contents, Next PROVE Contents'
<1>0. /\ Final \in Nat \ {0} /\ at \in 1 .. Final /\ chain' = chain /\ Final' = Final
      /\ deps \in [1 .. Final -> DepDir] /\ (phase # "supply" => at = Final)
  BY ChainLength DEF Inv, Shape, Next, MakeDepDirs, SetStagingEnvironment, Supply, NextProcess,
                     Finalize, SetLaunchEnvironment, Launch, SourceScript, StartApp, Final
<1> USE DEF HasDirs, HasSupplied, Supplied
<1>1. CASE MakeDepDirs
  <2>1. /\ pc = "MakeDepDirs" /\ pc' = "SetStagingEnvironment" /\ at' = at /\ phase' = phase
        /\ phase = "supply"
    BY <1>1 DEF MakeDepDirs, Typed
  <2>2. /\ \A i \in 1 .. Final : i # at => deps'[i] = deps[i]
        /\ deps'[at] = [deps[at] EXCEPT !.dirs = deps[at].dirs \cup {"bin", "lib"}]
    BY <1>0, <1>1 DEF MakeDepDirs
  <2>3. deps[at] \in DepDir /\ deps[at].dirs = {}
    BY <1>0, <2>1 DEF Contents, Holds
  <2>4. /\ deps'[at].dirs = {"bin", "lib"} /\ deps'[at].commands = deps[at].commands
        /\ deps'[at].env = deps[at].env /\ deps'[at].scripts = deps[at].scripts
    BY <2>2, <2>3 DEF DepDir
  <2>5. ASSUME NEW i \in 1 .. Final
        PROVE  /\ HasSupplied(i)' <=> HasSupplied(i)
               /\ IF i = at THEN HasDirs(i)' ELSE HasDirs(i)' <=> HasDirs(i)
    BY <1>0, <2>1
  <2> HIDE DEF HasDirs, HasSupplied
  <2>6. ASSUME NEW i \in 1 .. Final PROVE Holds(i)'
    <3>1. Holds(i)
      BY DEF Contents
    <3>2. CASE i = at
      BY <1>0, <2>4, <2>5, <3>1, <3>2 DEF Holds
    <3>3. CASE i # at
      BY <1>0, <2>2, <2>5, <3>1, <3>3 DEF Holds
    <3> QED
      BY <3>2, <3>3
  <2> QED
    BY <1>0, <2>6 DEF Contents
<1>2. CASE SetStagingEnvironment \/ Launch \/ StartApp \/ SetLaunchEnvironment
  <2>1. /\ deps' = deps /\ at' = at /\ pc # "Exit" /\ pc' # "Exit"
        /\ (phase' = "supply" <=> phase = "supply")
        /\ pc # "MakeDepDirs" /\ pc' # "MakeDepDirs"
    BY <1>2 DEF Typed, SetStagingEnvironment, Launch, StartApp, SetLaunchEnvironment, Inv, Shape
  <2> QED
    BY <1>0, <2>1 DEF Contents, Holds
<1>3. CASE Supply
  <2>1. pc = "Run" /\ pc' = "Exit" /\ at' = at /\ phase = "supply" /\ phase' = phase
    BY <1>3 DEF Supply
  <2>2. \A i \in 1 .. Final : i # at => (HasSupplied(i)' <=> HasSupplied(i))
    BY <1>0, <2>1
  <2>3. HasSupplied(at)' /\ (\A i \in 1 .. Final : HasDirs(i)' <=> HasDirs(i))
    BY <1>0, <2>1
  <2> QED
    BY <1>0, <1>3, <2>1, <2>2, <2>3, SupplyLeaves DEF Contents, Holds
<1>4. CASE NextProcess
  <2>1. deps' = deps /\ pc = "Exit" /\ pc' \in {"MakeDepDirs", "SetStagingEnvironment"}
    BY <1>4 DEF NextProcess
  <2>2. ASSUME NEW i \in 1 .. Final
        PROVE  (HasSupplied(i)' <=> HasSupplied(i)) /\ (HasDirs(i)' <=> HasDirs(i))
    <3>1. CASE at < Final
      <4>1. at' = at + 1 /\ pc' = "MakeDepDirs" /\ phase' = phase /\ phase = "supply"
        BY <1>4, <2>1, <3>1 DEF NextProcess, Typed
      <4> QED
        BY <1>0, <2>1, <4>1
    <3>2. CASE at = Final
      <4>1. at' = at /\ pc' = "SetStagingEnvironment" /\ phase' = "finalize"
        BY <1>0, <1>4, <3>2 DEF NextProcess
      <4> QED
        BY <1>0, <2>1, <3>2, <4>1
    <3> QED
      BY <1>0, <3>1, <3>2
  <2> QED
    BY <1>0, <2>1, <2>2 DEF Contents, Holds
<1>5. CASE Finalize \/ \E f \in DOMAIN profile : SourceScript(f)
  <2>1. /\ at' = at /\ (phase' = "supply" <=> phase = "supply") /\ pc # "Exit" /\ pc' # "Exit"
        /\ pc # "MakeDepDirs" /\ pc' # "MakeDepDirs"
    BY <1>5 DEF Finalize, SourceScript
  <2> QED
    BY <1>0, <1>5, <2>1, LaterKeep DEF Contents, Holds
<1> QED
  BY <1>1, <1>2, <1>3, <1>4, <1>5 DEF Next

-----------------------------------------------------------------------------
(* What a step never changes, and what the stager finds.                   *)

LEMMA Fixed ==
    ASSUME [Next]_vars
    PROVE  /\ chain' = chain /\ user' = user /\ Final' = Final /\ Python' = Python
           /\ LangWriters' = LangWriters /\ PythonHome' = PythonHome
           /\ \A v : LeftAlone(v)' <=> LeftAlone(v)
           /\ \A f : SetsLang(f)' <=> SetsLang(f)
<1>1. chain' = chain /\ user' = user
  BY DEF Next, vars, MakeDepDirs, SetStagingEnvironment, Supply, NextProcess, Finalize,
         SetLaunchEnvironment, Launch, SourceScript, StartApp
<1>2. Final' = Final
  BY <1>1 DEF Final
<1>3. Python' = Python /\ LangWriters' = LangWriters
  BY <1>1, <1>2 DEF Python, LangWriters, EnvOf
<1> QED
  BY <1>1, <1>2, <1>3 DEF PythonHome, LeftAlone, SetsLang

\* The directories of the buildpacks so far are there, and no other.
LEMMA DirsSoFar ==
    ASSUME Inv, Contents, pc # "MakeDepDirs", NEW dir \in {"bin", "lib"}
    PROVE  existingDepsDirs(dir) = Descending(1 .. at)
<1>1. Final \in Nat \ {0} /\ at \in 1 .. Final
  BY ChainLength DEF Inv, Shape
<1>2. \A i \in 1 .. Final : dir \in deps[i].dirs <=> i <= at
  BY <1>1 DEF Contents, Holds, HasDirs
<1>3. {i \in 1 .. Final : dir \in deps[i].dirs} = 1 .. at
  BY <1>1, <1>2
<1> QED
  BY <1>3 DEF existingDepsDirs

\* The env files that the stager reads are those of the supplies that ran.
LEMMA WritersSoFar ==
    ASSUME Inv, Contents, pc = "SetStagingEnvironment", NEW v
    PROVE  Writers(v) = {i \in 1 .. Final : (i < at \/ phase # "supply") /\ v \in EnvOf(chain[i])}
<1>1. Final \in Nat \ {0} /\ at \in 1 .. Final /\ (phase # "supply" => at = Final)
  BY ChainLength DEF Inv, Shape
<1>2. \A i \in 1 .. Final : HasSupplied(i) <=> (i < at \/ phase # "supply")
  BY <1>1 DEF HasSupplied, Supplied
<1>3. \A i \in 1 .. Final : v \in deps[i].env <=> HasSupplied(i) /\ v \in EnvOf(chain[i])
  BY DEF Contents, Holds
<1> QED
  BY <1>2, <1>3 DEF Writers

\* Nobody writes an env file for a variable of the search that others leave
\* alone, and for PYTHONHOME this buildpack alone does.
LEMMA AloneWriters ==
    ASSUME Inv, NEW v \in Var, LeftAlone(v), v \notin {"LIBRARY_PATH", "LANG"}
    PROVE  \A i \in 1 .. Final :
              v \in EnvOf(chain[i]) <=> v = "PYTHONHOME" /\ i = Python /\ chain[i] = "python"
<1>1. "python" \notin Other /\ "conda" \notin Other /\ chain \in Chains
  BY OtherAssumption DEF Inv, Shape
<1> SUFFICES ASSUME NEW i \in 1 .. Final
             PROVE  v \in EnvOf(chain[i]) <=> v = "PYTHONHOME" /\ i = Python /\ chain[i] = "python"
  OBVIOUS
<1>2. CASE i = Python
  BY <1>1, <1>2, PythonIs DEF EnvOf, Var, PathVar
<1>3. CASE i # Python
  BY <1>1, <1>3, PythonIs DEF EnvOf, LeftAlone
<1> QED
  BY <1>2, <1>3

-----------------------------------------------------------------------------
(* Types.                                                                  *)

LEMMA InitTyped == ASSUME Init PROVE Typed /\ Contents /\ Environments
<1>1. Final \in Nat \ {0} /\ at = 1
  BY ChainLength DEF Init
<1>2. <<>> \in Seq(0 .. Final) /\ <<0>> \in Seq(0 .. Final)
  BY <1>1
<1>3. user \in [Var -> {<<>>, <<0>>}]
  BY DEF Init
<1>4. user \in [Var -> Seq(0 .. Final)]
  BY <1>2, <1>3
<1>5. front \in [PathVar -> Seq(1 .. Final)]
  BY DEF Init
<1>6. Typed
  BY <1>1, <1>3, <1>4, <1>5 DEF Init, Typed
<1>7. Contents
  BY <1>1 DEF Init, Contents, Holds, HasDirs, HasSupplied, Supplied, NoDep
<1>8. Environments
  BY DEF Init, Environments, StagingEnviron, BuiltEnviron, LaunchEnviron
<1> QED
  BY <1>6, <1>7, <1>8

\* The directories of the buildpacks so far, as a search path.
LEMMA SearchPathTyped ==
    ASSUME Inv, Typed, NEW w \in Seq(0 .. Final)
    PROVE  /\ Descending(1 .. at) \in Seq(1 .. Final)
           /\ Descending(1 .. at) \o w \in Seq(0 .. Final)
<1>1. Final \in Nat \ {0} /\ at \in 1 .. Final
  BY ChainLength DEF Inv, Shape
<1> DEFINE s == Descending(1 .. at)
<1>2. s \in Seq(1 .. at)
  BY <1>1, DescendingTo
<1> HIDE DEF s
<1>3. s \in Seq(1 .. Final) /\ s \in Seq(0 .. Final)
  BY <1>1, <1>2
<1>4. s \o w \in Seq(0 .. Final)
  BY <1>3
<1> QED
  BY <1>3, <1>4 DEF s

LEMMA StagingTyped ==
    ASSUME Inv, Typed, Contents, SetStagingEnvironment
    PROVE  environ' \in [Var -> Seq(0 .. Final)]
<1>1. Final \in Nat \ {0} /\ at \in 1 .. Final /\ pc = "SetStagingEnvironment"
  BY ChainLength DEF Inv, Shape, SetStagingEnvironment
<1> DEFINE w(v) == IF Writers(v) # {} THEN <<EnvFileOfFirst(v)>>
                   ELSE IF v \in PathVar
                        THEN existingDepsDirs(stagingEnvVarDirs[v]) \o environ[v]
                        ELSE environ[v]
<1>2. ASSUME NEW v \in Var PROVE w(v) \in Seq(0 .. Final)
  <2>1. environ[v] \in Seq(0 .. Final)
    BY DEF Typed
  <2>2. CASE Writers(v) # {}
    <3>1. Writers(v) \in SUBSET (1 .. Final)
      BY DEF Writers
    <3>2. EnvFileOfFirst(v) = Lowest(Writers(v))
      BY DEF EnvFileOfFirst, Lowest
    <3>3. EnvFileOfFirst(v) \in 1 .. Final
      BY <1>1, <2>2, <3>1, <3>2, LowestIs
    <3> QED
      BY <2>2, <3>3
  <2>3. CASE v \in PathVar /\ Writers(v) = {}
    <3>1. stagingEnvVarDirs[v] \in {"bin", "lib"}
      BY <2>3 DEF stagingEnvVarDirs
    <3>2. existingDepsDirs(stagingEnvVarDirs[v]) = Descending(1 .. at)
      BY <1>1, <3>1, DirsSoFar
    <3> QED
      BY <2>1, <2>3, <3>2, SearchPathTyped
  <2> QED
    BY <2>1, <2>2, <2>3
<1>3. environ' = [v \in Var |-> w(v)]
  BY DEF SetStagingEnvironment
<1> HIDE DEF w
<1> QED
  BY <1>2, <1>3

\* A script that a container sources is that of the directory it is named after.
LEMMA SourcedScript ==
    ASSUME Inv, Contents, NEW f \in DOMAIN profile, phase = "launch"
    PROVE  /\ at = Final /\ f = <<f[1], f[2]>> /\ f[1] \in 1 .. Final /\ profile[f] = f[1]
           /\ f[2] \in deps[f[1]].scripts /\ HasSupplied(f[1])
           /\ f[2] = "python.sh" => f[1] = Python /\ chain[Python] = "python"
           /\ f[2] = "conda.sh" => f[1] = Python /\ chain[Python] = "conda"
           /\ chain[f[1]] \in Other => f[2] \notin OwnScript
<1>1. /\ at = Final /\ profile = ScriptFiles /\ Final \in Nat /\ chain \in Chains
      /\ "python" \notin Other /\ "conda" \notin Other
  BY ChainLength, OtherAssumption DEF Inv, Shape, ProfileKept
<1>2. f = <<f[1], f[2]>> /\ f[1] \in 1 .. Final /\ profile[f] = f[1]
  BY <1>1, ScriptOf
<1>3. f[2] \in deps[f[1]].scripts
  BY <1>1 DEF ScriptFiles
<1>4. HasSupplied(f[1])
  BY <1>1, <1>2 DEF HasSupplied, Supplied
<1>5. /\ f[2] = "python.sh" => chain[f[1]] = "python"
      /\ f[2] = "conda.sh" => chain[f[1]] = "conda"
      /\ chain[f[1]] \in Other => f[2] \in Scripts[chain[f[1]]]
  BY <1>2, <1>3, <1>4 DEF Contents, Holds
<1>6. chain[f[1]] \in {"python", "conda"} => f[1] = Python
  BY <1>1, <1>2, PythonIs
<1>7. chain[f[1]] \in Other => f[2] \notin OwnScript
  BY <1>5, OtherAssumption
<1> QED
  BY <1>1, <1>2, <1>3, <1>4, <1>5, <1>6, <1>7

\* What sourcing a script does to the environment.
LEMMA SourceEffect ==
    ASSUME Inv, Typed, Contents, NEW f \in DOMAIN profile, SourceScript(f)
    PROVE  \/ /\ f = <<Python, "python.sh">> /\ chain[Python] = "python"
              /\ environ' = [environ EXCEPT !["PYTHONHOME"] = <<Python>>,
                               !["LANG"] = IF environ["LANG"] = <<>> THEN <<Python>>
                                           ELSE environ["LANG"]]
           \/ /\ f = <<Python, "conda.sh">> /\ chain[Python] = "conda"
              /\ environ' = [environ EXCEPT !["PATH"] = <<Python>> \o environ["PATH"]]
           \/ /\ chain[f[1]] \in Other
              /\ environ' = [v \in Var |->
                    IF v \in EnvFiles[chain[f[1]]] /\ environ[v] = <<>> THEN <<f[1]>>
                    ELSE environ[v]]
           \/ /\ chain[f[1]] \notin Other /\ f[2] \notin {"python.sh", "conda.sh"}
              /\ environ' = environ
<1>1. phase = "launch"
  BY DEF SourceScript, Inv, Shape
<1>2. "PATH" \in Var /\ "PYTHONHOME" \in Var /\ "LANG" \in Var
  BY DEF Var, PathVar
<1>3. environ \in [Var -> Seq(0 .. Final)]
  BY DEF Typed
<1>4. /\ f = <<f[1], f[2]>> /\ profile[f] = f[1]
      /\ f[2] = "python.sh" => f[1] = Python /\ chain[Python] = "python"
      /\ f[2] = "conda.sh" => f[1] = Python /\ chain[Python] = "conda"
      /\ chain[f[1]] \in Other => f[2] \notin OwnScript
  BY <1>1, SourcedScript
<1>5. CASE f[2] = "python.sh"
  BY <1>2, <1>3, <1>4, <1>5 DEF SourceScript, PythonSh
<1>6. CASE f[2] = "conda.sh"
  BY <1>2, <1>3, <1>4, <1>6 DEF SourceScript, CondaSh
<1>7. CASE f[2] = "python.fixeggs.sh"
  BY <1>4, <1>7 DEF SourceScript, FixeggsSh, OwnScript
<1>8. CASE f[2] \notin OwnScript
  <2>1. OtherSh(f[1])
    BY <1>4, <1>8 DEF SourceScript, OwnScript
  <2>2. CASE chain[f[1]] \in Other
    BY <2>1, <2>2 DEF OtherSh
  <2>3. CASE chain[f[1]] \notin Other
    <3>1. environ' = [v \in Var |-> environ[v]]
      BY <2>1, <2>3 DEF OtherSh
    <3> QED
      BY <1>3, <1>8, <2>3, <3>1 DEF OwnScript
  <2> QED
    BY <2>2, <2>3
<1> QED
  BY <1>5, <1>6, <1>7, <1>8 DEF OwnScript

LEMMA TypedStep == ASSUME Inv, Typed, Contents, [Next]_vars PROVE Typed'
<1>1. /\ Final' = Final /\ user' = user /\ Final \in Nat \ {0} /\ at \in 1 .. Final
  BY Fixed, ChainLength DEF Inv, Shape
<1>2. user \in [Var -> Seq(0 .. Final)]
  <2>1. <<>> \in Seq(0 .. Final) /\ <<0>> \in Seq(0 .. Final)
    BY <1>1
  <2> QED
    BY <2>1 DEF Typed
<1>3. "PATH" \in Var /\ "PYTHONHOME" \in Var /\ "LANG" \in Var
  BY DEF Var, PathVar
<1>4. CASE MakeDepDirs \/ SetStagingEnvironment \/ Supply \/ NextProcess
  <2>1. UNCHANGED <<built, front, profile, sourced>>
    BY <1>4 DEF MakeDepDirs, SetStagingEnvironment, Supply, NextProcess
  <2>2. environ' \in [Var -> Seq(0 .. Final)]
    <3>1. CASE SupplyPython
      <4>1. <<at>> \o environ["PATH"] \in Seq(0 .. Final)
        BY <1>1, <1>3 DEF Typed
      <4> QED
        BY <3>1, <4>1 DEF SupplyPython, Typed
    <3>2. CASE SetStagingEnvironment
      BY <3>2, StagingTyped
    <3>3. CASE NextProcess
      BY <1>2, <3>3 DEF NextProcess
    <3>4. CASE MakeDepDirs \/ SupplyConda \/ SupplyOther
      BY <3>4 DEF MakeDepDirs, SupplyConda, SupplyOther, Typed
    <3> QED
      BY <1>4, <3>1, <3>2, <3>3, <3>4 DEF Supply
  <2>3. /\ phase' \in {"supply", "finalize", "launch"} /\ phase' # "launch" /\ phase # "launch"
        /\ pc' \in {"MakeDepDirs", "SetStagingEnvironment", "Run", "Exit"}
        /\ pc' \in {"MakeDepDirs", "Exit"} => phase' = "supply"
    BY <1>4 DEF MakeDepDirs, SetStagingEnvironment, Supply, NextProcess, Typed, Inv, Shape
  <2> QED
    BY <1>1, <2>1, <2>2, <2>3 DEF Typed
<1>5. CASE Finalize \/ StartApp \/ UNCHANGED vars
  BY <1>1, <1>5 DEF Finalize, StartApp, vars, Typed
<1>6. CASE SetLaunchEnvironment
  <2>1. front' = [v \in PathVar |-> Descending(1 .. at)]
    <3>1. \A v \in PathVar : launchEnvVarDirs[v] \in {"bin", "lib"}
      BY DEF launchEnvVarDirs, stagingEnvVarDirs
    <3>2. \A v \in PathVar : existingDepsDirs(launchEnvVarDirs[v]) = Descending(1 .. at)
      BY <1>6, <3>1, DirsSoFar DEF SetLaunchEnvironment
    <3> QED
      BY <1>6, <3>2 DEF SetLaunchEnvironment
  <2>2. front' \in [PathVar -> Seq(1 .. Final)]
    <3>1. Descending(1 .. at) \in Seq(1 .. Final)
      BY <1>2, <1>3, SearchPathTyped
    <3> QED
      BY <2>1, <3>1
  <2>3. sourced' = {} /\ phase' = "launch" /\ pc' = "Launch"
    BY <1>6 DEF SetLaunchEnvironment, Inv, Shape, ProfileKept
  <2> QED
    BY <1>1, <1>6, <2>2, <2>3 DEF SetLaunchEnvironment, Typed
<1>7. CASE Launch
  <2>1. \A v \in PathVar : front[v] \o user[v] \in Seq(0 .. Final)
    <3>1. ASSUME NEW v \in PathVar PROVE front[v] \o user[v] \in Seq(0 .. Final)
      <4>1. user[v] \in Seq(0 .. Final) /\ front[v] \in Seq(1 .. Final)
        BY <1>2 DEF Typed, Var
      <4>2. front[v] \in Seq(0 .. Final)
        BY <1>1, <4>1
      <4> QED
        BY <4>1, <4>2
    <3> QED
      BY <3>1
  <2>2. environ' \in [Var -> Seq(0 .. Final)]
    BY <1>2, <1>7, <2>1 DEF Launch, LaunchValue
  <2> QED
    BY <1>1, <1>7, <2>2 DEF Launch, Typed
<1>8. ASSUME NEW f \in DOMAIN profile, SourceScript(f) PROVE Typed'
  <2>1. f[1] \in 1 .. Final /\ Python \in 1 .. Final /\ environ \in [Var -> Seq(0 .. Final)]
    BY <1>8, SourcedScript, PythonIs DEF SourceScript, Inv, Shape, Typed
  <2>2. <<f[1]>> \in Seq(0 .. Final) /\ <<Python>> \in Seq(0 .. Final)
    BY <2>1
  <2>3. <<Python>> \o environ["PATH"] \in Seq(0 .. Final)
    BY <1>3, <2>1, <2>2
  <2>4. environ' \in [Var -> Seq(0 .. Final)]
    BY <1>8, <2>1, <2>2, <2>3, SourceEffect
  <2> QED
    BY <1>1, <1>8, <2>4 DEF SourceScript, Typed
<1> QED
  BY <1>4, <1>5, <1>6, <1>7, <1>8 DEF Next

-----------------------------------------------------------------------------
(* The environment, one lemma per action that changes it.                  *)

\* The stager puts the directories in front, unless an env file replaces them.
LEMMA StagingEnvironments ==
    ASSUME Inv, Typed, Contents, Environments, SetStagingEnvironment PROVE Environments'
<1>1. /\ UNCHANGED <<chain, phase, at, user>> /\ pc' = "Run" /\ pc = "SetStagingEnvironment"
      /\ phase \in {"supply", "finalize"} /\ environ = user
      /\ Final \in Nat \ {0} /\ at \in 1 .. Final /\ (phase # "supply" => at = Final)
      /\ chain \in Chains
  BY ChainLength DEF SetStagingEnvironment, Inv, Shape, Typed, Environments, StagingEnviron
<1>2. "python" \notin Other /\ "conda" \notin Other /\ Python \in 1 .. Final
  BY <1>1, OtherAssumption, PythonIs
<1>3. \A v \in Var : environ'[v] =
         IF Writers(v) # {} THEN <<EnvFileOfFirst(v)>>
         ELSE IF v \in PathVar THEN existingDepsDirs(stagingEnvVarDirs[v]) \o environ[v]
         ELSE environ[v]
  BY DEF SetStagingEnvironment
<1>4. ASSUME NEW v \in {"PATH", "LD_LIBRARY_PATH"}, LeftAlone(v)
      PROVE  environ'[v] = SearchPath(v)
  <2>1. v \in Var /\ v \in PathVar /\ stagingEnvVarDirs[v] \in {"bin", "lib"}
    BY DEF Var, PathVar, stagingEnvVarDirs
  <2>2. Writers(v) = {}
    BY <1>1, <1>4, <2>1, WritersSoFar, AloneWriters
  <2>3. existingDepsDirs(stagingEnvVarDirs[v]) = Descending(1 .. at)
    BY <1>1, <2>1, DirsSoFar
  <2> QED
    BY <1>1, <1>3, <2>1, <2>2, <2>3 DEF SearchPath
<1>5. ASSUME LeftAlone("PYTHONHOME")
      PROVE  environ'["PYTHONHOME"] = IF Python < at \/ phase = "finalize"
                                      THEN PythonHome ELSE <<>>
  <2>1. "PYTHONHOME" \in Var /\ "PYTHONHOME" \notin PathVar /\ user["PYTHONHOME"] = <<>>
    BY DEF Var, PathVar, Typed
  <2>2. Writers("PYTHONHOME") =
           {i \in 1 .. Final : (i < at \/ phase # "supply") /\ i = Python /\ chain[i] = "python"}
    BY <1>1, <1>5, <2>1, WritersSoFar, AloneWriters
  <2>3. CASE (Python < at \/ phase = "finalize") /\ chain[Python] = "python"
    <3>1. Writers("PYTHONHOME") = {Python}
      BY <1>1, <1>2, <2>2, <2>3
    <3>2. EnvFileOfFirst("PYTHONHOME") = Python
      BY <1>2, <3>1 DEF EnvFileOfFirst
    <3> QED
      BY <1>3, <2>1, <2>3, <3>1, <3>2 DEF PythonHome
  <2>4. CASE ~((Python < at \/ phase = "finalize") /\ chain[Python] = "python")
    <3>1. Writers("PYTHONHOME") = {}
      BY <1>1, <2>2, <2>4
    <3> QED
      BY <1>1, <1>3, <2>1, <2>4, <3>1 DEF PythonHome
  <2> QED
    BY <2>3, <2>4
<1>6. ASSUME phase = "finalize"
      PROVE  environ'["LANG"] = IF LangWriters = {} THEN user["LANG"]
                                ELSE <<Lowest(LangWriters)>>
  <2>1. "LANG" \in Var /\ "LANG" \notin PathVar
    BY DEF Var, PathVar
  <2>2. Writers("LANG") = LangWriters
    BY <1>1, <1>6, <2>1, WritersSoFar DEF LangWriters
  <2>3. EnvFileOfFirst("LANG") = Lowest(LangWriters)
    BY <2>2 DEF EnvFileOfFirst, Lowest
  <2> QED
    BY <1>1, <1>3, <2>1, <2>2, <2>3
<1>7. /\ \A v : LeftAlone(v)' <=> LeftAlone(v)
      /\ \A v : SearchPath(v)' = SearchPath(v)
      /\ Python' = Python /\ PythonHome' = PythonHome /\ LangWriters' = LangWriters
  BY <1>1, Fixed DEF SearchPath, Next
<1> QED
  BY <1>1, <1>4, <1>5, <1>6, <1>7 DEF Environments, StagingEnviron, BuiltEnviron, LaunchEnviron

LEMMA SupplyEnvironments ==
    ASSUME Inv, Typed, Contents, Environments, Supply PROVE Environments'
<1>1. /\ UNCHANGED <<chain, phase, at, user>> /\ pc' = "Exit" /\ pc = "Run"
      /\ phase = "supply" /\ environ \in [Var -> Seq(0 .. Final)]
      /\ "python" \notin Other /\ "conda" \notin Other
  BY OtherAssumption DEF Supply, Typed
<1>2. /\ "PATH" \in Var
      /\ environ'["PATH"] = IF chain[at] = "python" THEN <<at>> \o environ["PATH"]
                            ELSE environ["PATH"]
      /\ \A v \in Var \ {"PATH"} : environ'[v] = environ[v]
  <2>1. "PATH" \in Var
    BY DEF Var, PathVar
  <2>2. CASE SupplyPython
    BY <1>1, <2>1, <2>2 DEF SupplyPython
  <2>3. CASE SupplyConda \/ SupplyOther
    BY <1>1, <2>1, <2>3 DEF SupplyConda, SupplyOther
  <2> QED
    BY <2>1, <2>2, <2>3 DEF Supply
<1>3. "LD_LIBRARY_PATH" \in Var \ {"PATH"} /\ "PYTHONHOME" \in Var \ {"PATH"}
  BY DEF Var, PathVar
<1>4. /\ \A v : LeftAlone(v)' <=> LeftAlone(v)
      /\ \A v : SearchPath(v)' = SearchPath(v)
      /\ Python' = Python /\ PythonHome' = PythonHome
  BY <1>1, Fixed DEF SearchPath, Next
<1> QED
  BY <1>1, <1>2, <1>3, <1>4 DEF Environments, StagingEnviron, BuiltEnviron, LaunchEnviron

\* Finalize sees what it was started with, and the container gets the same
\* directories.
LEMMA FinalEnvironments ==
    ASSUME Inv, Typed, Contents, Environments, Finalize \/ SetLaunchEnvironment
    PROVE  Environments'
<1>1. UNCHANGED <<chain, at, user, environ>> /\ pc \in {"Run", "SetLaunchEnvironment"}
      /\ pc' \in {"SetLaunchEnvironment", "Launch"}
  BY DEF Finalize, SetLaunchEnvironment
<1>2. /\ \A v : LeftAlone(v)' <=> LeftAlone(v)
      /\ \A v : SearchPath(v)' = SearchPath(v)
      /\ Python' = Python /\ PythonHome' = PythonHome /\ LangWriters' = LangWriters
  BY <1>1, Fixed DEF SearchPath, Next
<1>3. CASE Finalize
  <2>1. phase = "finalize" /\ phase' = phase /\ built' = environ /\ pc = "Run"
    BY <1>3 DEF Finalize
  <2> QED
    BY <1>1, <1>2, <2>1 DEF Environments, StagingEnviron, BuiltEnviron, LaunchEnviron
<1>4. CASE SetLaunchEnvironment
  <2>1. phase' = "launch" /\ built' = built /\ pc = "SetLaunchEnvironment" /\ pc' = "Launch"
    BY <1>4 DEF SetLaunchEnvironment
  <2>2. \A v \in PathVar : launchEnvVarDirs[v] \in {"bin", "lib"}
    BY DEF launchEnvVarDirs, stagingEnvVarDirs
  <2>3. \A v \in PathVar : front'[v] = Descending(1 .. at)
    BY <1>4, <2>1, <2>2, DirsSoFar DEF SetLaunchEnvironment
  <2> QED
    BY <1>1, <1>2, <2>1, <2>3 DEF Environments, StagingEnviron, BuiltEnviron, LaunchEnviron
<1> QED
  BY <1>3, <1>4

LEMMA LaunchEnvironments ==
    ASSUME Inv, Typed, Contents, Environments, Launch PROVE Environments'
<1>1. /\ UNCHANGED <<chain, phase, at, user, built, front, sourced>>
      /\ pc' = "SourceScripts" /\ phase = "launch" /\ sourced = {}
      /\ user["PYTHONHOME"] = <<>>
  BY DEF Launch, Inv, Shape, Typed
<1>2. /\ \A v : LeftAlone(v)' <=> LeftAlone(v)
      /\ \A v : SearchPath(v)' = SearchPath(v)
      /\ Python' = Python /\ PythonHome' = PythonHome /\ LangWriters' = LangWriters
  BY <1>1, Fixed DEF SearchPath, Next
<1>3. \A v \in Var : environ'[v] = IF v \in PathVar THEN SearchPath(v) ELSE user[v]
  BY <1>1 DEF Launch, LaunchValue, SearchPath, Environments, LaunchEnviron
<1>4. /\ environ'["LD_LIBRARY_PATH"] = SearchPath("LD_LIBRARY_PATH")
      /\ environ'["PATH"] = SearchPath("PATH")
      /\ environ'["PYTHONHOME"] = <<>> /\ environ'["LANG"] = user["LANG"]
  BY <1>1, <1>3 DEF Var, PathVar
<1>5. user["LANG"] \in {<<>>, <<0>>}
  BY DEF Typed, Var
<1> QED
  BY <1>1, <1>2, <1>4, <1>5 DEF Environments, StagingEnviron, BuiltEnviron, LaunchEnviron

\* Who sets LANG for others has a script in the container that does.
LEMMA WriterHasScript ==
    ASSUME Inv, Contents, phase = "launch", NEW i \in LangWriters
    PROVE  \E f \in DOMAIN profile : f[1] = i /\ SetsLang(f)
<1>1. i \in 1 .. Final /\ "LANG" \in EnvOf(chain[i]) /\ at = Final /\ profile = ScriptFiles
      /\ Final \in Nat
  BY ChainLength DEF LangWriters, Inv, Shape, ProfileKept
<1>2. HasSupplied(i)
  BY <1>1 DEF HasSupplied, Supplied
<1>3. CASE chain[i] = "python"
  <2>1. "python.sh" \in deps[i].scripts
    BY <1>1, <1>2, <1>3 DEF Contents, Holds
  <2> QED
    BY <1>1, <2>1, FileOf DEF SetsLang
<1>4. CASE chain[i] # "python"
  <2>1. chain[i] \in Other /\ "LANG" \in EnvFiles[chain[i]]
    BY <1>1, <1>4 DEF EnvOf
  <2>2. PICK n : n \in Scripts[chain[i]]
    BY <2>1, OtherAssumption
  <2>3. n \in deps[i].scripts
    BY <1>1, <1>2, <2>1, <2>2 DEF Contents, Holds
  <2> QED
    BY <1>1, <1>4, <2>3, FileOf DEF SetsLang
<1> QED
  BY <1>3, <1>4

\* The scripts run in the order of the indices, so the first to set LANG has
\* the lowest.
LEMMA FirstToSetLang ==
    ASSUME Inv, Contents, NEW f \in DOMAIN profile, SourceScript(f), SetsLang(f),
           \A g \in sourced : ~SetsLang(g)
    PROVE  f[1] = Lowest(LangWriters)
<1>1. phase = "launch" /\ f[1] \in LangWriters /\ Final \in Nat
  BY ChainLength DEF SourceScript, Inv, Shape, SetsLang
<1>2. ASSUME NEW j \in LangWriters PROVE f[1] <= j
  <2>1. PICK g \in DOMAIN profile : g[1] = j /\ SetsLang(g)
    BY <1>1, WriterHasScript
  <2> QED
    BY <2>1 DEF SourceScript
<1>3. LangWriters \in SUBSET (1 .. Final)
  BY DEF LangWriters
<1>4. Lowest(LangWriters) \in LangWriters /\ \A j \in LangWriters : Lowest(LangWriters) <= j
  BY <1>1, <1>3, LowestIs
<1>5. f[1] <= Lowest(LangWriters) /\ Lowest(LangWriters) <= f[1]
  BY <1>1, <1>2, <1>4
<1>6. f[1] \in Int /\ Lowest(LangWriters) \in Int
  <2>1. LangWriters \subseteq Int
    BY <1>3
  <2> QED
    BY <1>1, <1>4, <2>1
<1> QED
  BY <1>5, <1>6

\* LANG after a script: the user's value, or that of the first to set it.
LEMMA SourceLang ==
    ASSUME Inv, Typed, Contents, Environments, NEW f \in DOMAIN profile, SourceScript(f)
    PROVE  environ'["LANG"] = IF user["LANG"] # <<>> THEN user["LANG"]
                              ELSE IF \E g \in sourced \cup {f} : SetsLang(g)
                                   THEN <<Lowest(LangWriters)>> ELSE <<>>
<1>1. /\ pc = "SourceScripts" /\ phase = "launch"
      /\ "LANG" \in Var /\ "LANG" # "PATH" /\ "LANG" # "PYTHONHOME"
      /\ environ \in [Var -> Seq(0 .. Final)]
      /\ "python" \notin Other /\ "conda" \notin Other
  BY OtherAssumption DEF SourceScript, Inv, Shape, Typed, Var, PathVar
<1>2. /\ f = <<f[1], f[2]>> /\ f[1] \in 1 .. Final
      /\ f[2] = "python.sh" => f[1] = Python /\ chain[Python] = "python"
      /\ chain[f[1]] \in Other => f[2] \notin OwnScript
  BY <1>1, SourcedScript
<1>3. environ["LANG"] = IF user["LANG"] # <<>> THEN user["LANG"]
                        ELSE IF \E g \in sourced : SetsLang(g)
                             THEN <<Lowest(LangWriters)>> ELSE <<>>
  BY <1>1 DEF Environments, LaunchEnviron
<1>4. environ'["LANG"] = IF SetsLang(f) /\ environ["LANG"] = <<>> THEN <<f[1]>>
                         ELSE environ["LANG"]
  <2>1. CASE f = <<Python, "python.sh">> /\ chain[Python] = "python"
    <3>1. SetsLang(f) /\ f[1] = Python
      <4>1. Python \in LangWriters
        BY <1>1, <1>2, <2>1 DEF LangWriters, EnvOf
      <4> QED
        BY <2>1, <4>1 DEF SetsLang
    <3>2. CASE f = <<Python, "python.sh">>
             /\ environ' = [environ EXCEPT !["PYTHONHOME"] = <<Python>>,
                               !["LANG"] = IF environ["LANG"] = <<>> THEN <<Python>>
                                           ELSE environ["LANG"]]
      BY <1>1, <3>1, <3>2
    <3> QED
      BY <1>1, <2>1, <3>2, SourceEffect
  <2>2. CASE f = <<Python, "conda.sh">> /\ chain[Python] = "conda"
    <3>1. ~SetsLang(f)
      BY <1>1, <2>2 DEF SetsLang, LangWriters, EnvOf
    <3>2. environ' = [environ EXCEPT !["PATH"] = <<Python>> \o environ["PATH"]]
      BY <1>1, <2>2, SourceEffect
    <3> QED
      BY <1>1, <3>1, <3>2
  <2>3. CASE chain[f[1]] \in Other
    <3>1. SetsLang(f) <=> "LANG" \in EnvFiles[chain[f[1]]]
      BY <1>1, <1>2, <2>3 DEF SetsLang, LangWriters, EnvOf
    <3>2. environ' = [v \in Var |->
             IF v \in EnvFiles[chain[f[1]]] /\ environ[v] = <<>> THEN <<f[1]>> ELSE environ[v]]
      <4>1. Python \in 1 .. Final /\ chain[Python] \in {"python", "conda"}
        BY PythonIs DEF Inv, Shape
      <4> QED
        BY <1>1, <2>3, <4>1, SourceEffect
    <3> QED
      BY <1>1, <3>1, <3>2
  <2>4. CASE chain[f[1]] \notin Other /\ f[2] \notin {"python.sh", "conda.sh"}
    <3>1. ~SetsLang(f)
      BY <2>4 DEF SetsLang, LangWriters, EnvOf
    <3>2. environ' = environ
      BY <2>4, SourceEffect
    <3> QED
      BY <3>1, <3>2
  <2> QED
    BY <2>1, <2>2, <2>3, <2>4, SourceEffect
<1>5. CASE SetsLang(f) /\ environ["LANG"] = <<>>
  <2>1. user["LANG"] = <<>> /\ \A g \in sourced : ~SetsLang(g)
    BY <1>3, <1>5, SMTT(30)
  <2>2. f[1] = Lowest(LangWriters)
    BY <1>5, <2>1, FirstToSetLang
  <2> QED
    BY <1>4, <1>5, <2>1, <2>2
<1>6. CASE ~(SetsLang(f) /\ environ["LANG"] = <<>>)
  <2>1. CASE user["LANG"] # <<>>
    BY <1>3, <1>4, <1>6, <2>1
  <2>2. CASE user["LANG"] = <<>> /\ \E g \in sourced : SetsLang(g)
    BY <1>3, <1>4, <1>6, <2>2
  <2>3. CASE user["LANG"] = <<>> /\ \A g \in sourced : ~SetsLang(g)
    BY <1>3, <1>4, <1>6, <2>3
  <2> QED
    BY <2>1, <2>2, <2>3
<1> QED
  BY <1>5, <1>6

LEMMA SourceEnvironments ==
    ASSUME Inv, Typed, Contents, Environments, NEW f \in DOMAIN profile, SourceScript(f)
    PROVE  Environments'
<1>1. /\ UNCHANGED <<chain, phase, at, pc, user, built, front>> /\ sourced' = sourced \cup {f}
      /\ pc = "SourceScripts" /\ phase = "launch" /\ environ \in [Var -> Seq(0 .. Final)]
      /\ "python" \notin Other /\ "conda" \notin Other /\ f \notin sourced
      /\ Python \in 1 .. Final /\ chain[Python] \in {"python", "conda"}
      /\ f[1] \in 1 .. Final
  BY OtherAssumption, PythonIs, SourcedScript DEF SourceScript, Inv, Shape, Typed
<1>2. /\ \A v : LeftAlone(v)' <=> LeftAlone(v)
      /\ \A v : SearchPath(v)' = SearchPath(v)
      /\ Python' = Python /\ PythonHome' = PythonHome /\ LangWriters' = LangWriters
      /\ \A g : SetsLang(g)' <=> SetsLang(g)
  BY <1>1, Fixed DEF SearchPath, Next
<1>3. /\ "PATH" \in Var /\ "LD_LIBRARY_PATH" \in Var /\ "PYTHONHOME" \in Var
  BY DEF Var, PathVar
<1> DEFINE home == f = <<Python, "python.sh">>
           activate == f = <<Python, "conda.sh">>
<1>4. /\ LeftAlone("PYTHONHOME") =>
            environ'["PYTHONHOME"] = IF home THEN <<Python>> ELSE environ["PYTHONHOME"]
      /\ LeftAlone("PATH") =>
            environ'["PATH"] = IF activate THEN <<Python>> \o environ["PATH"] ELSE environ["PATH"]
      /\ LeftAlone("LD_LIBRARY_PATH") =>
            environ'["LD_LIBRARY_PATH"] = environ["LD_LIBRARY_PATH"]
  <2>1. CASE home
    <3>1. chain[f[1]] \notin Other /\ ~activate /\ f[2] = "python.sh"
      BY <1>1, <2>1
    <3>2. environ' = [environ EXCEPT !["PYTHONHOME"] = <<Python>>,
                        !["LANG"] = IF environ["LANG"] = <<>> THEN <<Python>>
                                    ELSE environ["LANG"]]
      BY <2>1, <3>1, SourceEffect
    <3> QED
      BY <1>1, <1>3, <2>1, <3>1, <3>2
  <2>2. CASE activate
    <3>1. chain[f[1]] \notin Other /\ ~home /\ f[2] = "conda.sh"
      BY <1>1, <2>2
    <3>2. environ' = [environ EXCEPT !["PATH"] = <<Python>> \o environ["PATH"]]
      BY <2>2, <3>1, SourceEffect
    <3> QED
      BY <1>1, <1>3, <2>2, <3>1, <3>2
  <2>3. CASE ~home /\ ~activate /\ chain[f[1]] \in Other
    <3>1. environ' = [v \in Var |->
             IF v \in EnvFiles[chain[f[1]]] /\ environ[v] = <<>> THEN <<f[1]>> ELSE environ[v]]
      BY <2>3, SourceEffect
    <3>2. \A v : LeftAlone(v) => v \notin EnvFiles[chain[f[1]]]
      BY <1>1, <2>3 DEF LeftAlone
    <3> QED
      BY <1>3, <2>3, <3>1, <3>2
  <2>4. CASE ~home /\ ~activate /\ chain[f[1]] \notin Other
    <3>1. environ' = environ
      BY <2>4, SourceEffect
    <3> QED
      BY <2>4, <3>1
  <2> QED
    BY <2>1, <2>2, <2>3, <2>4
<1>5. /\ <<Python, "conda.sh">> \in sourced' <=> activate \/ <<Python, "conda.sh">> \in sourced
      /\ <<Python, "python.sh">> \in sourced' <=> home \/ <<Python, "python.sh">> \in sourced
      /\ activate => <<Python, "conda.sh">> \notin sourced
  BY <1>1
<1> HIDE DEF home, activate
<1>6. StagingEnviron' /\ BuiltEnviron'
  BY <1>1, <1>2 DEF Environments, StagingEnviron, BuiltEnviron
<1>7. \A v \in PathVar : front'[v] = Descending(1 .. at')
  BY <1>1 DEF Environments, LaunchEnviron
<1>8. /\ LeftAlone("LD_LIBRARY_PATH") =>
            environ'["LD_LIBRARY_PATH"] = SearchPath("LD_LIBRARY_PATH")
      /\ LeftAlone("PATH") =>
            environ'["PATH"] = IF <<Python, "conda.sh">> \in sourced'
                               THEN <<Python>> \o SearchPath("PATH") ELSE SearchPath("PATH")
      /\ LeftAlone("PYTHONHOME") =>
            environ'["PYTHONHOME"] = IF <<Python, "python.sh">> \in sourced'
                                     THEN <<Python>> ELSE <<>>
  BY <1>1, <1>4, <1>5 DEF Environments, LaunchEnviron
<1>9. environ'["LANG"] = IF user["LANG"] # <<>> THEN user["LANG"]
                         ELSE IF \E g \in sourced' : SetsLang(g)
                              THEN <<Lowest(LangWriters)>> ELSE <<>>
  BY <1>1, SourceLang
<1>10. LaunchEnviron'
  BY <1>1, <1>2, <1>7, <1>8, <1>9 DEF LaunchEnviron
<1> QED
  BY <1>6, <1>10 DEF Environments

LEMMA EnvironmentsStep ==
    ASSUME Inv, Typed, Contents, Environments, [Next]_vars PROVE Environments'
<1>1. /\ \A v : LeftAlone(v)' <=> LeftAlone(v)
      /\ Python' = Python /\ PythonHome' = PythonHome /\ LangWriters' = LangWriters
      /\ \A f : SetsLang(f)' <=> SetsLang(f)
      /\ user' = user /\ chain' = chain
  BY Fixed
<1>2. CASE MakeDepDirs \/ NextProcess
  <2>1. /\ environ' = user /\ phase' # "launch"
        /\ pc' \in {"MakeDepDirs", "SetStagingEnvironment"}
    BY <1>2 DEF MakeDepDirs, NextProcess, Inv, Shape, Environments, StagingEnviron, Typed
  <2> QED
    BY <1>1, <2>1 DEF Environments, StagingEnviron, BuiltEnviron, LaunchEnviron
<1>3. CASE StartApp \/ UNCHANGED vars
  <2>1. /\ UNCHANGED <<at, phase, environ, built, front, sourced>>
        /\ pc' = pc \/ (pc = "SourceScripts" /\ pc' = "running")
    BY <1>3 DEF StartApp, vars
  <2>2. \A v : SearchPath(v)' = SearchPath(v)
    BY <1>1, <2>1 DEF SearchPath
  <2> QED
    BY <1>1, <2>1, <2>2 DEF Environments, StagingEnviron, BuiltEnviron, LaunchEnviron
<1> QED
  BY <1>2, <1>3, StagingEnvironments, SupplyEnvironments, FinalEnvironments,
     LaunchEnvironments, SourceEnvironments DEF Next

(***************************************************************************)
(* Every process and every script keeps what the environment is.           *)
(***************************************************************************)
LEMMA EnvironmentInvariance == Spec => [](Inv /\ Typed /\ Contents /\ Environments)
<1> DEFINE All == Inv /\ Typed /\ Contents /\ Environments
<1>1. Init => All
  BY InitInv, InitTyped
<1>2. All /\ [Next]_vars => All'
  <2> SUFFICES ASSUME All, [Next]_vars PROVE All'
    OBVIOUS
  <2>1. Inv'
    BY MakeDepDirsInv, EnvironmentInv, SupplyInv, NextProcessInv, FinalizeInv,
       SetLaunchEnvironmentInv, SourceScriptInv, StutterInv DEF Next
  <2>2. Contents'
    <3>1. CASE UNCHANGED vars
      BY <3>1 DEF vars, Contents, Holds, HasDirs, HasSupplied, Supplied, Final
    <3> QED
      BY <3>1, ContentsStep
  <2> QED
    BY <2>1, <2>2, TypedStep, EnvironmentsStep
<1> QED
  BY <1>1, <1>2, PTL DEF Spec

-----------------------------------------------------------------------------
(***************************************************************************)
(* Every variable keeps its type: the environment and the search paths     *)
(* name dependency directories of the chain, the directories of later      *)
(* buildpacks are empty, and no script is sourced that is not there.       *)
(***************************************************************************)
THEOREM ChainTypes == Spec => []TypeOK
<1>1. Inv /\ Typed /\ Contents => TypeOK
  <2> SUFFICES ASSUME Inv, Typed, Contents PROVE TypeOK
    OBVIOUS
  <2>1. \A f \in DOMAIN profile : f[2] \in deps[profile[f]].scripts
    <3>1. CASE phase = "launch"
      <4>1. profile = ScriptFiles
        BY <3>1 DEF Inv, ProfileKept
      <4> QED
        BY <4>1 DEF ScriptFiles
    <3>2. CASE phase # "launch"
      BY <3>2 DEF Typed
    <3> QED
      BY <3>1, <3>2
  <2>2. \A v \in Var : /\ user[v] \in {<<>>, <<0>>}
                       /\ \A e \in {environ, built} : e[v] \in Seq(0 .. Final)
    BY DEF Typed
  <2> QED
    BY <2>1, <2>2 DEF Inv, Shape, Typed, TypeOK
<1> QED
  BY <1>1, EnvironmentInvariance, PTL

(***************************************************************************)
(* Whatever the other buildpacks leave, the launched app searches the      *)
(* dependency directories in the order in which finalize did, for each     *)
(* variable that no env file replaces.                                     *)
(***************************************************************************)
THEOREM SearchOrder == Spec => []SearchOrderKept
<1>1. Inv /\ Typed /\ Contents /\ Environments => SearchOrderKept
  <2> SUFFICES ASSUME Inv, Typed, Contents, Environments, pc = "running"
               PROVE  /\ LeftAlone("LD_LIBRARY_PATH") =>
                            environ["LD_LIBRARY_PATH"] = built["LD_LIBRARY_PATH"]
                      /\ LeftAlone("PATH") =>
                            environ["PATH"] = (IF chain[Python] = "conda" THEN <<Python>> ELSE <<>>)
                                                  \o built["PATH"]
    BY DEF SearchOrderKept
  <2>1. /\ phase = "launch" /\ at = Final /\ profile = ScriptFiles
        /\ DOMAIN profile \subseteq sourced /\ sourced \subseteq DOMAIN profile
        /\ Python \in 1 .. Final
    BY PythonIs DEF Inv, Shape, ProfileKept, Typed
  <2>2. <<Python, "conda.sh">> \in sourced <=> chain[Python] = "conda"
    <3>1. HasSupplied(Python)
      BY <2>1 DEF HasSupplied, Supplied
    <3>2. "conda.sh" \in deps[Python].scripts <=> chain[Python] = "conda"
      BY <2>1, <3>1 DEF Contents, Holds
    <3>3. <<Python, "conda.sh">> \in DOMAIN profile <=> "conda.sh" \in deps[Python].scripts
      BY <2>1 DEF ScriptFiles
    <3> QED
      BY <2>1, <3>2, <3>3
  <2>3. LeftAlone("LD_LIBRARY_PATH") =>
           environ["LD_LIBRARY_PATH"] = SearchPath("LD_LIBRARY_PATH")
             /\ built["LD_LIBRARY_PATH"] = SearchPath("LD_LIBRARY_PATH")
    BY <2>1 DEF Environments, BuiltEnviron, LaunchEnviron
  <2>4. LeftAlone("PATH") =>
           /\ built["PATH"] = SearchPath("PATH")
           /\ environ["PATH"] = IF chain[Python] = "conda"
                                THEN <<Python>> \o SearchPath("PATH") ELSE SearchPath("PATH")
    BY <2>1, <2>2 DEF Environments, BuiltEnviron, LaunchEnviron
  <2>5. <<>> \o built["PATH"] = built["PATH"]
    <3> DEFINE b == built["PATH"]
    <3>1. b \in Seq(0 .. Final)
      BY DEF Typed, Var, PathVar
    <3> HIDE DEF b
    <3>2. <<>> \o b = b
      BY <3>1
    <3> QED
      BY <3>2 DEF b
  <2> QED
    BY <2>3, <2>4, <2>5
<1> QED
  BY <1>1, EnvironmentInvariance, PTL

(***************************************************************************)
(* Whatever sets LANG and PYTHONHOME in staging, the app runs with the     *)
(* values that finalize saw, and with the user's LANG when there is one:   *)
(* the lowest index wins in the env files and in the scripts.              *)
(***************************************************************************)
THEOREM VariablesSettle == Spec => []VariablesAgree
<1>1. Inv /\ Typed /\ Contents /\ Environments => VariablesAgree
  <2> SUFFICES ASSUME Inv, Typed, Contents, Environments, pc = "running"
               PROVE  /\ environ["LANG"] = IF user["LANG"] # <<>> THEN user["LANG"]
                                           ELSE built["LANG"]
                      /\ LeftAlone("PYTHONHOME") => environ["PYTHONHOME"] = built["PYTHONHOME"]
    BY DEF VariablesAgree
  <2>1. /\ phase = "launch" /\ at = Final /\ profile = ScriptFiles
        /\ DOMAIN profile \subseteq sourced /\ sourced \subseteq DOMAIN profile
        /\ Python \in 1 .. Final
    BY PythonIs DEF Inv, Shape, ProfileKept, Typed
  <2>2. LangWriters # {} <=> \E f \in sourced : SetsLang(f)
    <3>1. ASSUME NEW i \in LangWriters PROVE \E f \in sourced : SetsLang(f)
      BY <2>1, WriterHasScript
    <3> QED
      BY <3>1 DEF SetsLang
  <2>3. environ["LANG"] = IF user["LANG"] # <<>> THEN user["LANG"] ELSE built["LANG"]
    BY <2>1, <2>2 DEF Environments, BuiltEnviron, LaunchEnviron
  <2>4. <<Python, "python.sh">> \in sourced <=> chain[Python] = "python"
    <3>1. HasSupplied(Python)
      BY <2>1 DEF HasSupplied, Supplied
    <3>2. "python.sh" \in deps[Python].scripts <=> chain[Python] = "python"
      BY <2>1, <3>1 DEF Contents, Holds
    <3>3. <<Python, "python.sh">> \in DOMAIN profile <=> "python.sh" \in deps[Python].scripts
      BY <2>1 DEF ScriptFiles
    <3> QED
      BY <2>1, <3>2, <3>3
  <2>5. LeftAlone("PYTHONHOME") => environ["PYTHONHOME"] = built["PYTHONHOME"]
    BY <2>1, <2>4 DEF Environments, BuiltEnviron, LaunchEnviron, PythonHome
  <2> QED
    BY <2>3, <2>5
<1> QED
  BY <1>1, EnvironmentInvariance, PTL

\* The first directory on PATH with a command.
LEMMA FirstWithIs ==
    ASSUME Typed, Final \in Nat, NEW command, NEW k \in DOMAIN environ["PATH"],
           NEW i \in 1 .. Final, environ["PATH"][k] = i,
           "bin" \in deps[i].dirs, command \in deps[i].commands,
           \A l \in DOMAIN environ["PATH"] :
              l < k => command \notin deps[environ["PATH"][l]].commands
    PROVE  FirstWith(command) = i
<1> DEFINE found == {l \in DOMAIN environ["PATH"] :
                      LET j == environ["PATH"][l]
                      IN  j # 0 /\ "bin" \in deps[j].dirs /\ command \in deps[j].commands}
           first == CHOOSE l \in found : \A m \in found : l <= m
<1>1. DOMAIN environ["PATH"] \subseteq Int
  <2>1. environ["PATH"] \in Seq(0 .. Final)
    BY DEF Typed, Var, PathVar
  <2> QED
    BY <2>1
<1>2. k \in found
  OBVIOUS
<1>3. \A l \in found : k <= l
  BY <1>1, SMTT(30)
<1>4. first \in found /\ \A m \in found : first <= m
  BY <1>2, <1>3
<1>5. first = k
  <2>1. first <= k /\ k <= first /\ first \in Int /\ k \in Int
    BY <1>1, <1>2, <1>3, <1>4
  <2> HIDE DEF first
  <2> QED
    BY <2>1, SMTT(30)
<1>6. FirstWith(command) = IF found = {} THEN 0 ELSE environ["PATH"][first]
  BY DEF FirstWith
<1> HIDE DEF found, first
<1> QED
  BY <1>2, <1>5, <1>6

(***************************************************************************)
(* In a chain of any length, once this buildpack's python is there, every  *)
(* process that runs after it finds it first on PATH and its home in       *)
(* PYTHONHOME, unless a later buildpack brings a python or another one     *)
(* replaces the variable.                                                  *)
(***************************************************************************)
THEOREM PythonIsFound == Spec => []PythonFindsItsHome
<1>1. Inv /\ Typed /\ Contents /\ Environments => PythonFindsItsHome
  <2> SUFFICES ASSUME Inv, Typed, Contents, Environments,
                      pc \in {"Run", "Exit", "running"}, deps[Python].commands # {}
               PROVE  /\ LeftAlone("PATH")
                            /\ (\A i \in Python + 1 .. Final : "python" \notin deps[i].commands)
                            => FirstWith("python") = Python
                      /\ LeftAlone("PYTHONHOME") =>
                            \/ phase = "supply" /\ at = Python
                            \/ environ["PYTHONHOME"] = PythonHome
    BY DEF PythonFindsItsHome, PythonHome
  <2>1. /\ Final \in Nat \ {0} /\ at \in 1 .. Final /\ (phase # "supply" => at = Final)
        /\ Python \in 1 .. Final /\ chain[Python] \in {"python", "conda"}
        /\ "python" \notin Other /\ "conda" \notin Other
        /\ (pc = "running" <=> phase = "launch")
    BY ChainLength, PythonIs, OtherAssumption DEF Inv, Shape
  <2>2. HasSupplied(Python) /\ HasDirs(Python)
    BY <2>1 DEF Contents, Holds, HasSupplied, HasDirs
  <2>3. /\ Python <= at /\ "bin" \in deps[Python].dirs /\ "python" \in deps[Python].commands
    BY <2>1, <2>2 DEF Contents, Holds, HasSupplied, CommandsOf
  <2>4. ASSUME LeftAlone("PATH"), \A i \in Python + 1 .. Final : "python" \notin deps[i].commands
        PROVE  FirstWith("python") = Python
    <3> DEFINE d == Descending(1 .. at)
               u == user["PATH"]
    <3>1. /\ d \in Seq(1 .. at) /\ Len(d) = at /\ d \in [1 .. at -> 1 .. at]
          /\ \A i \in 1 .. at : \E k \in 1 .. at : d[k] = i
          /\ \A j, k \in 1 .. at : j < k => d[j] > d[k]
      <4>1. at \in Nat
        BY <2>1
      <4> QED
        BY <4>1, DescendingTo
    <3>2. u = <<0>>
      BY DEF Typed
    <3>3. environ["PATH"] = d \o u \/ environ["PATH"] = <<Python>> \o (d \o u)
      <4>1. SearchPath("PATH") = d \o u
        BY DEF SearchPath
      <4>2. CASE pc = "running"
        BY <2>1, <2>4, <4>1, <4>2 DEF Environments, LaunchEnviron
      <4>3. CASE pc \in {"Run", "Exit"}
        <5>1. chain[at] = "python" => at = Python
          BY <2>1, PythonIs DEF Inv, Shape
        <5> QED
          BY <2>4, <4>1, <4>3, <5>1 DEF Environments, StagingEnviron
      <4> QED
        BY <4>2, <4>3
    <3> HIDE DEF d, u
    <3>4. CASE environ["PATH"] = <<Python>> \o (d \o u)
      <4>1. environ["PATH"][1] = Python /\ 1 \in DOMAIN environ["PATH"]
            /\ DOMAIN environ["PATH"] = 1 .. at + 2
        BY <2>1, <3>1, <3>2, <3>4
      <4>2. \A l \in DOMAIN environ["PATH"] : ~(l < 1)
        BY <2>1, <4>1
      <4> QED
        BY <2>1, <2>3, <4>1, <4>2, FirstWithIs
    <3>5. CASE environ["PATH"] = d \o u
      <4>1. /\ DOMAIN environ["PATH"] = 1 .. at + 1
            /\ \A l \in 1 .. at : environ["PATH"][l] = d[l]
        BY <2>1, <3>1, <3>2, <3>5
      <4>2. PICK k \in 1 .. at : d[k] = Python
        BY <2>1, <2>3, <3>1
      <4>3. ASSUME NEW l \in DOMAIN environ["PATH"], l < k
            PROVE  "python" \notin deps[environ["PATH"][l]].commands
        <5>1. l \in 1 .. at /\ environ["PATH"][l] = d[l]
          BY <2>1, <4>1, <4>3
        <5>2. d[l] \in 1 .. at /\ d[l] > d[k]
          BY <3>1, <4>3, <5>1
        <5>3. d[l] \in Python + 1 .. Final
          BY <2>1, <4>2, <5>2
        <5> QED
          BY <2>4, <5>1, <5>3
      <4>4. k \in DOMAIN environ["PATH"] /\ environ["PATH"][k] = Python
        BY <2>1, <4>1, <4>2
      <4> QED
        BY <2>1, <2>3, <4>3, <4>4, FirstWithIs
    <3> QED
      BY <3>3, <3>4, <3>5
  <2>5. ASSUME LeftAlone("PYTHONHOME"), ~(phase = "supply" /\ at = Python)
        PROVE  environ["PYTHONHOME"] = PythonHome
    <3>1. CASE pc = "running"
      <4>1. profile = ScriptFiles /\ DOMAIN profile \subseteq sourced /\ phase = "launch"
            /\ sourced \subseteq DOMAIN profile
        BY <2>1, <3>1 DEF Inv, ProfileKept, Typed
      <4>2. "python.sh" \in deps[Python].scripts <=> chain[Python] = "python"
        BY <2>1, <2>2 DEF Contents, Holds
      <4>3. <<Python, "python.sh">> \in DOMAIN profile <=> "python.sh" \in deps[Python].scripts
        BY <2>1, <4>1 DEF ScriptFiles
      <4> QED
        BY <2>5, <3>1, <4>1, <4>2, <4>3 DEF Environments, LaunchEnviron, PythonHome
    <3>2. CASE pc \in {"Run", "Exit"}
      <4>1. Python < at \/ phase = "finalize"
        BY <2>1, <2>3, <2>5, <3>2 DEF Typed
      <4> QED
        BY <2>5, <3>2, <4>1 DEF Environments, StagingEnviron
    <3> QED
      BY <3>1, <3>2
  <2> QED
    BY <2>4, <2>5
<1> QED
  BY <1>1, EnvironmentInvariance, PTL
=============================================================================
