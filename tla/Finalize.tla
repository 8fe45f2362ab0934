------------------------------ MODULE Finalize ------------------------------
(***************************************************************************)
(* The finalize phase (src/python/finalize/finalize.go and its main        *)
(* program), a process of its own that sees only what supply left on disk. *)
(***************************************************************************)
EXTENDS StagingState

DjangoNames == {"django", "Django"}

\* The new process starts from the files of deps/<index>/env.
FinalizeEnvironment ==
    /\ Goto("FinalizeEnvironment", "HandleCollectstatic")
    /\ proc' = [environ |-> dep.env, paths |-> dep.dirs,
                removeRequirementsText |-> FALSE, HasNltkData |-> FALSE]
    /\ UNCHANGED <<app, build, dep, net>>

UsesDjango == FindAnyPackage(build.reqs, DjangoNames)

CollectstaticSkipped ==
    /\ \/ app.disableCollectstatic
       \/ Readable(build.reqs) /\ ~UsesDjango
    /\ Goto("HandleCollectstatic", "ReplaceDepsDirWithLiteral")
    /\ UNCHANGED <<app, build, dep, proc, net>>

\* FindManagePy returns an error when no manage.py is found.
HandleCollectstatic ==
    /\ ~app.disableCollectstatic
    /\ Readable(build.reqs)
    /\ UsesDjango
    /\ app.managePy
    /\ Goto("HandleCollectstatic", "ReplaceDepsDirWithLiteral")
    /\ build' = [build EXCEPT !.static = TRUE]
    /\ UNCHANGED <<app, dep, proc, net>>

ReplaceDepsDirWithLiteral ==
    /\ Goto("ReplaceDepsDirWithLiteral", "ReplaceLiteralWithDepsDirAtRuntime")
    /\ dep' = IF dep.pth = "absolute" THEN [dep EXCEPT !.pth = "literal"] ELSE dep
    /\ UNCHANGED <<app, build, proc, net>>

ReplaceLiteralWithDepsDirAtRuntime ==
    /\ Goto("ReplaceLiteralWithDepsDirAtRuntime", "PostCompile")
    /\ dep' = [dep EXCEPT !.profile = @ \cup {"python.fixeggs.sh"}]
    /\ UNCHANGED <<app, build, proc, net>>

\* RunAfterCompile: bin/post_compile of the app, taken to leave alone what
\* staging rewrites.
PostCompile ==
    /\ Goto("PostCompile", "SetLaunchEnvironment")
    /\ UNCHANGED <<app, build, dep, proc, net>>

SetLaunchEnvironment ==
    /\ Goto("SetLaunchEnvironment", "done")
    /\ build' = [build EXCEPT !.launch = dep.profile]
    /\ UNCHANGED <<app, dep, proc, net>>

FinalizeNext ==
    \/ FinalizeEnvironment
    \/ CollectstaticSkipped \/ HandleCollectstatic
    \/ ReplaceDepsDirWithLiteral \/ ReplaceLiteralWithDepsDirAtRuntime
    \/ PostCompile \/ SetLaunchEnvironment
=============================================================================
