--------------------------- MODULE StagingPromise ---------------------------
(***************************************************************************)
(* What a staging promises, without the steps: an app that is pushed is    *)
(* either rejected, and then there is no droplet, or becomes a droplet     *)
(* that honours what the app asks for.  Staging is shown to implement it.  *)
(***************************************************************************)
EXTENDS PushedApp

VARIABLES
    app,       \* the app as pushed
    status,    \* "staging", "staged" or "rejected"
    droplet    \* what is launched, Absent before

vars == <<app, status, droplet>>

\* The agents' hooks that take effect: a requirements.txt that bin/pre_compile
\* writes takes the place of the one that names AppDynamics.
InstalledAgents(a) == {x \in BoundAgents(a) : x = "sealights" \/ a.preCompile = Absent}

AgentPackages(agents) == {AgentPackage[x] : x \in agents}

\* The packages owed; an agent's requirements.txt hides every other source.
Owed(a) ==
    AgentPackages(InstalledAgents(a)) \cup
    (IF BoundAgents(a) = {} \/ HasRequirements(a) THEN Declared(a) ELSE {})

\* What building packages may add.
Tools(a) ==
    {"pip"} \cup (IF a.vendor # Absent THEN CommonBuildDeps ELSE {})
            \cup (IF a.pipfile # Absent /\ a.lock = Absent THEN PipenvTools ELSE {})

\* Sealights runs outside AppDynamics, both around the first process.
Wrapped(a) ==
    IF a.procfile = Absent \/ BoundAgents(a) = {} THEN a.procfile
    ELSE [a.procfile EXCEPT ![1] =
            [type |-> "web", agents |-> Wrappers(a) \o @.agents]]

LaunchScripts(a) ==
    {IF a.conda THEN "conda.sh" ELSE "python.sh", "python.fixeggs.sh"}
        \cup (IF "appdynamics" \in BoundAgents(a) THEN {"appdynamics.sh"} ELSE {})

(***************************************************************************)
(* One runtime, the one asked for, with the packages owed and no others;   *)
(* commands under their agents; the launch scripts of what is there and,   *)
(* if nltk is, perhaps that of its corpora.                                *)
(***************************************************************************)
Honours(a, d) ==
    /\ d.conda = a.conda
    /\ d.python = IF a.conda THEN Absent ELSE RequestedPython(a)
    /\ IF a.conda THEN d.site = {} ELSE Owed(a) \subseteq d.site
    /\ d.site \subseteq Owed(a) \cup Tools(a)
    /\ d.procfile = Wrapped(a)
    /\ d.launch \ {"export NLTK_DATA"} = LaunchScripts(a)
    /\ "export NLTK_DATA" \in d.launch => a.nltk /\ "nltk" \in d.site

-----------------------------------------------------------------------------
Init ==
    /\ app \in Apps
    /\ status = "staging"
    /\ droplet = Absent

Stage ==
    /\ status = "staging"
    /\ status' = "staged"
    /\ Honours(app, droplet')
    /\ UNCHANGED app

Reject ==
    /\ status = "staging"
    /\ status' = "rejected"
    /\ UNCHANGED <<app, droplet>>

Next == Stage \/ Reject

Spec == Init /\ [][Next]_vars
=============================================================================
