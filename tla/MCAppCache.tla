----------------------------- MODULE MCAppCache -----------------------------
(***************************************************************************)
(* Two dependencies and a few releases for TLC.                            *)
(***************************************************************************)
EXTENDS AppCache

MCDep == {"python", "libffi"}
MCUri == {"python-old.tgz", "python-new.tgz", "libffi.tgz"}
MCContent == {"old", "new", "ffi", "ffi rebuilt"}

Downloaded(u, c) == [uri |-> u, sha256 |-> c, file |-> FALSE]
Bundled(u, c) == [uri |-> u, sha256 |-> c, file |-> TRUE]
Release(python, libffi) == [d \in MCDep |-> IF d = "python" THEN python ELSE libffi]

\* Two uncached buildpacks, and a cached one.
StableReleases ==
    {Release(Downloaded("python-old.tgz", "old"), Downloaded("libffi.tgz", "ffi")),
     Release(Downloaded("python-new.tgz", "new"), Downloaded("libffi.tgz", "ffi")),
     Release(Bundled("python-new.tgz", "new"), Bundled("libffi.tgz", "ffi"))}

\* A release that replaces a file under its old URI.
ChangingReleases ==
    StableReleases \cup
    {Release(Downloaded("python-new.tgz", "new"), Downloaded("libffi.tgz", "ffi rebuilt"))}

\* With and without libffi; pipenv and the requirements may ask for one file twice.
MCPlans == {<<"python">>, <<"python", "libffi">>, <<"python", "libffi", "libffi">>}
=============================================================================
