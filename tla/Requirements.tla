---------------------------- MODULE Requirements ----------------------------
(***************************************************************************)
(* What the buildpack reads in requirements files                          *)
(* (src/python/requirements/requirements.go).  A tree maps every file name *)
(* an app may use to its contents: the packages it names and the files it  *)
(* includes with lines "-r <file>".  Versions, comments and options are    *)
(* left out: nothing here looks at them.                                   *)
(***************************************************************************)
EXTENDS FiniteSets

CONSTANTS
    Package,    \* names as the files spell them, extras included
    ReqFile,    \* names of requirements files in the build directory
    Top,        \* the one the buildpack starts from, requirements.txt
    Absent      \* a file that does not exist, a value that is not set

Contents == [pkgs : SUBSET Package, includes : SUBSET ReqFile]

ASSUME TopAssumption == Top \in ReqFile
ASSUME AbsentAssumption == Absent \notin Contents

Tree == [ReqFile -> Contents \cup {Absent}]

Includes(t, f) == IF t[f] = Absent THEN {} ELSE t[f].includes

Closed(t, C) == \A f \in C : Includes(t, f) \subseteq C

(***************************************************************************)
(* The files the recursion of parseRequirements opens when it starts at f: *)
(* the least set that holds f and what its members include.                *)
(***************************************************************************)
Reach(t, f) ==
    {g \in ReqFile : \A C \in SUBSET ReqFile : f \in C /\ Closed(t, C) => g \in C}

\* A file that includes itself, directly or not: the recursion never returns
\* and the process dies of stack exhaustion.
Diverges(t) ==
    \E f \in Reach(t, Top) : \E g \in Includes(t, f) : f \in Reach(t, g)

\* parseRequirements returns no error: it ends and every file it opens exists.
Parses(t) ==
    /\ ~Diverges(t)
    /\ \A f \in Reach(t, Top) : t[f] # Absent

\* The names parseRequirements returns, and what "pip install -r" installs.
PackagesOf(t) ==
    UNION {t[f].pkgs : f \in {g \in Reach(t, Top) : t[g] # Absent}}

\* FindAnyPackage asks for an error-free parse only when the file exists.
Readable(t) == t[Top] = Absent \/ Parses(t)

FindAnyPackage(t, names) == t[Top] # Absent /\ names \cap PackagesOf(t) # {}

(***************************************************************************)
(* The two ways staging writes requirements.txt: a new file, and a line    *)
(* appended to the file, which is created when there is none.              *)
(***************************************************************************)
WithFile(t, pkgs) == [t EXCEPT ![Top] = [pkgs |-> pkgs, includes |-> {}]]

\* Mistake: the agent's line replaces the file (O_APPEND is missing).
WithPackageOnly(t, p) == WithFile(t, {p})

WithPackage(t, p) ==
    IF t[Top] = Absent THEN WithFile(t, {p})
                       ELSE [t EXCEPT ![Top].pkgs = @ \cup {p}]

WithoutFile(t) == [t EXCEPT ![Top] = Absent]
=============================================================================
