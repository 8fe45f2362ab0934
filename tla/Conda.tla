-------------------------------- MODULE Conda -------------------------------
(***************************************************************************)
(* The supply phase of an app with an environment.yml                      *)
(* (src/python/conda/conda.go).                                            *)
(***************************************************************************)
EXTENDS StagingState

\* Warning only logs; Install puts miniforge in deps/<index>/conda.
CondaInstall ==
    /\ Goto("CondaInstall", "CondaUpdateAndClean")
    /\ dep' = [dep EXCEPT !.conda = "installed"]
    /\ UNCHANGED <<app, build, proc, net>>

\* Mistake: the update is the last step.
CondaUpdateAndCleanLast ==
    /\ Goto("CondaUpdateAndClean", "CompleteSupply")
    /\ dep' = [dep EXCEPT !.conda = "updated"]
    /\ proc' = [proc EXCEPT !.environ = @ \cup {"CONDA_PKGS_DIRS"}]
    /\ UNCHANGED <<app, build, net>>

CondaUpdateAndClean ==
    /\ Goto("CondaUpdateAndClean", "CondaProfile")
    /\ dep' = [dep EXCEPT !.conda = "updated"]
    /\ proc' = [proc EXCEPT !.environ = @ \cup {"CONDA_PKGS_DIRS"}]
    /\ UNCHANGED <<app, build, net>>

\* Run links conda's commands, "activate" among them, and does not look at the
\* result; then it writes the script that activates the environment.
CondaProfile ==
    /\ Goto("CondaProfile", "CompleteSupply")
    /\ \E linked \in BOOLEAN :
          dep' = [dep EXCEPT !.condaBin = linked, !.profile = @ \cup {"conda.sh"}]
    /\ UNCHANGED <<app, build, proc, net>>

CondaNext == CondaInstall \/ CondaUpdateAndClean \/ CondaProfile
=============================================================================
