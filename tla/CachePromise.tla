---------------------------- MODULE CachePromise ----------------------------
(***************************************************************************)
(* What the stagings of an app promise about the dependencies they install *)
(* and the cache they leave behind, without the installer's steps.         *)
(***************************************************************************)
EXTENDS CacheReleases

VARIABLES
    status,     \* "new", "running", "succeeded" or "failed"
    release,    \* the release of the running or the last staging
    delivered,  \* what each dependency of the droplet was installed from
    kept        \* the cache the platform keeps

vars == <<status, release, delivered, kept>>

Nothing == [d \in Dep |-> Absent]

Init ==
    /\ status = "new"
    /\ release \in Releases
    /\ delivered = Nothing
    /\ kept = [u \in Uri |-> Absent]

Start ==
    /\ status # "running"
    /\ status' = "running"
    /\ release' \in Releases
    /\ delivered' = Nothing
    /\ UNCHANGED kept

\* Every dependency of the plan, installed from the file the release names.
Delivers(deps) ==
    delivered' = [d \in Dep |-> IF d \in deps THEN release[d].sha256 ELSE Absent]

\* The cache holds the files of these dependencies, as the release names
\* them, and no other file.
KeepsOnly(deps) ==
    /\ kept' \in Cache
    /\ CachedFiles(kept') = {release[d].uri : d \in deps}
    /\ \A d \in deps : kept'[release[d].uri] = release[d].sha256

Succeed ==
    /\ status = "running"
    /\ status' = "succeeded"
    /\ \E plan \in Plans :
          LET deps == {plan[i] : i \in DOMAIN plan}
          IN  Delivers(deps) /\ KeepsOnly({d \in deps : ~release[d].file})
    /\ UNCHANGED release

\* A staging that fails may leave anything in a cache that is kept.
Fail ==
    /\ status = "running"
    /\ status' = "failed"
    /\ kept' \in IF KeepAfterFailure THEN Cache ELSE {kept}
    /\ UNCHANGED <<release, delivered>>

Next == Start \/ Succeed \/ Fail

Spec == Init /\ [][Next]_vars
=============================================================================
