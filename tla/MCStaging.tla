------------------------------ MODULE MCStaging -----------------------------
(***************************************************************************)
(* Small sets of apps for TLC.                                             *)
(***************************************************************************)
EXTENDS Staging

CONSTANTS Wildcard, Empty

MCPackage == {"flask", "django", "cffi", "pylibmc", "nltk", Self,
              "appdynamics", "sealights-python-agent"}
MCReqFile == {"requirements.txt", "base.txt"}
MCTop == "requirements.txt"

Text == INSTANCE ConstraintText WITH Number <- Nat, Unreadable <- Absent, NoVersion <- Absent

\* A version line, a version without its patch (3.9.0), a version nobody has.
MCRuntime == {<<3, 9, Wildcard>>, <<3, 9>>, <<2, 7>>}
\* No python_version, a version line, a version.
MCLockVersion == {<<Empty>>, <<3, 9>>, <<3, 9, 0>>}
MCFormattedVersion == [v \in MCLockVersion |-> Text!formatVersion(v)]
MCConstraint == MCRuntime \cup {MCFormattedVersion[v] : v \in MCLockVersion}
MCVersion == {<<3, 9, 0>>, <<3, 9, 21>>, <<3, 10, 4>>}
MCMatchingPython ==
    [c \in MCConstraint |-> Text!FindMatchingVersion(Text!ReadConstraint(c), MCVersion)]
MCDefaultVersion == <<3, 10, 4>>

Names(pkgs) == [pkgs |-> pkgs, includes |-> {}]
NamesAndIncludes(pkgs, files) == [pkgs |-> pkgs, includes |-> files]
OneFile(pkgs) == [f \in MCReqFile |-> IF f = MCTop THEN Names(pkgs) ELSE Absent]
TwoFiles(top, base) == [f \in MCReqFile |-> IF f = MCTop THEN top ELSE base]
NoFile == [f \in MCReqFile |-> Absent]

PlainApp ==
    [reqs |-> NoFile, indexed |-> {}, setup |-> FALSE, pipfile |-> Absent, lock |-> Absent,
     runtime |-> Absent, conda |-> FALSE, vendor |-> Absent, nltk |-> FALSE,
     managePy |-> FALSE, procfile |-> Absent, preCompile |-> Absent, services |-> {},
     appdAgent |-> FALSE, pip |-> "unset", disableCollectstatic |-> FALSE]

Nested == TwoFiles(NamesAndIncludes({"flask"}, {"base.txt"}), Names({"cffi", "nltk"}))
Missing == TwoFiles(NamesAndIncludes({"flask"}, {"base.txt"}), Absent)
Circular == TwoFiles(NamesAndIncludes({"flask"}, {"base.txt"}),
                     NamesAndIncludes({"cffi"}, {MCTop}))

FullVendor == [pkgs |-> MCPackage, sdist |-> TRUE]
SomeVendor == [pkgs |-> {"flask", "cffi"}, sdist |-> FALSE]

\* Apps with a requirements.txt: what it names and includes, vendored or not.
RequirementsApps ==
    {a \in {[PlainApp EXCEPT !.reqs = r, !.indexed = i, !.vendor = v, !.nltk = n, !.managePy = m] :
             r \in {OneFile({"flask"}), OneFile({"django", "pylibmc"}), Nested, Missing, Circular},
             i \in {{}, {<<MCTop, "space">>}, {<<MCTop, "equals">>}, {<<"base.txt", "space">>}},
             v \in {Absent, FullVendor, SomeVendor},
             n \in BOOLEAN, m \in BOOLEAN} :
        \A o \in a.indexed : a.reqs[o[1]] # Absent}

\* Every combination of the files the precedence is about.
PrecedenceApps ==
    {[PlainApp EXCEPT !.reqs = r, !.setup = s, !.pipfile = p, !.lock = l, !.runtime = t,
                      !.vendor = v] :
        r \in {NoFile, OneFile({"flask", "cffi"})}, s \in BOOLEAN,
        p \in {Absent, {"flask", "cffi"}},
        l \in {Absent} \cup [pkgs : {{"flask", "cffi"}, {"django"}}, index : {TRUE},
                              python : MCLockVersion],
        t \in {Absent} \cup MCRuntime, v \in {Absent, SomeVendor}}

\* The settings of the environment.
SettingsApps ==
    {[PlainApp EXCEPT !.reqs = r, !.preCompile = h, !.pip = p, !.managePy = m,
                      !.disableCollectstatic = d] :
        r \in {NoFile, OneFile({"django"})}, h \in {Absent, {"flask"}, {"django"}},
        p \in {"unset", "latest", "other"}, m \in BOOLEAN, d \in BOOLEAN}

PythonApps == RequirementsApps \cup PrecedenceApps \cup SettingsApps

-----------------------------------------------------------------------------
Web == [type |-> "web", agents |-> <<>>]
WebUnderAgent == [type |-> "web", agents |-> <<"appdynamics">>]
Worker == [type |-> "worker", agents |-> <<>>]

\* Apps with services bound, on Python and on conda.
AgentApps ==
    {[PlainApp EXCEPT !.reqs = r, !.services = s, !.appdAgent = g, !.procfile = f,
                      !.preCompile = h, !.conda = c, !.setup = TRUE] :
        r \in {NoFile, OneFile({"flask"})}, s \in SUBSET Agent, g \in BOOLEAN,
        f \in {Absent, <<>>, <<Web>>, <<Web, Worker>>, <<Worker, Web>>,
             <<WebUnderAgent, Worker>>},
        h \in {Absent, {"flask"}}, c \in BOOLEAN}

\* Pipenv apps, some with an agent, some on Django, some vendored.
PipenvApps ==
    {[PlainApp EXCEPT !.pipfile = p, !.lock = l, !.services = s, !.vendor = v,
                      !.managePy = TRUE] :
        p \in {{"flask"}, {"django"}},
        l \in {Absent} \cup [pkgs : {{"flask"}, {"django"}}, index : {TRUE}, python : {<<3, 9>>}],
        s \in SUBSET Agent, v \in {Absent, FullVendor}}

-----------------------------------------------------------------------------
(***************************************************************************)
(* An app without a runtime.txt runs the python its Pipfile.lock names, as *)
(* far as that goes ("3.9" any 3.9, "3.9.0" that one), and an app whose    *)
(* lock names none is not staged with any: "python-.x" (supply.go:897)     *)
(* must not be read as "whatever there is".                                *)
(***************************************************************************)
LockNamesPython ==
    StagedPython /\ app.runtime = Absent /\ app.lock # Absent /\ app.pipfile # Absent
        => \A i \in DOMAIN app.lock.python : app.lock.python[i] = dep.python[i]
=============================================================================
