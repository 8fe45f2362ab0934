--------------------------- MODULE CacheReleases ----------------------------
(***************************************************************************)
(* The releases of a buildpack as far as its installer is concerned: where *)
(* each dependency comes from and what its file must be.  A file is its    *)
(* content; its sha256 is the content itself.                              *)
(***************************************************************************)
EXTENDS Naturals, Sequences, FiniteSets

CONSTANTS
    Dep,               \* names and versions of dependencies
    Uri, Content,
    Broken,            \* a file that was not written to its end
    Absent,            \* no file
    Releases,          \* the manifests of the buildpack's releases
    Plans,             \* what supply may install, in order
    KeepAfterFailure   \* does the platform keep the cache of a failed staging?

\* A manifest entry; file: the dependency comes with the buildpack.
Entry == [uri : Uri, sha256 : Content, file : BOOLEAN]
File == Content \cup {Broken}

ASSUME ReleasesAssumption == Releases \subseteq [Dep -> Entry]
ASSUME PlansAssumption == Plans \subseteq Seq(Dep) \ {<<>>}
ASSUME SpecialFiles == Broken \notin Content /\ Absent \notin File

\* A directory of cached files, by URI.
Cache == [Uri -> File \cup {Absent}]
CachedFiles(c) == {u \in Uri : c[u] # Absent}
=============================================================================
