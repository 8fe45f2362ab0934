------------------------------ MODULE AppCache ------------------------------
(***************************************************************************)
(* The installer's cache of downloaded dependencies over many stagings of  *)
(* one app (libbuildpack/installer.go).  A staging installs the            *)
(* dependencies of its plan one after the other from one release of the    *)
(* buildpack; the platform gives it the cache directory of an earlier      *)
(* staging and keeps what it leaves there.                                 *)
(***************************************************************************)
EXTENDS CacheReleases

VARIABLES
    pc,                \* what the running staging does next, or how it ended
    manifest,          \* the release in use
    todo,              \* what is still to be installed
    cache,             \* the dependencies directory of the cache
    outputFile,        \* the archive in the temporary directory
    filesInAppCache,   \* the URIs whose files this staging asked for
    installed,         \* what each dependency was installed from
    saved,             \* the cache directory as the platform keeps it
    downloaded,        \* history: the URIs this staging asked the network for
    lastUsed           \* history: filesInAppCache of the last successful staging

vars == <<pc, manifest, todo, cache, outputFile, filesInAppCache, installed,
          saved, downloaded, lastUsed>>

Ended == {"new", "succeeded", "failed"}
Running == {"fetch", "checkCopy", "download", "checkDownload", "save", "saving",
            "install", "cleanup", "supplied"}

(***************************************************************************)
(* Shape of the state.                                                     *)
(***************************************************************************)
TypeOK ==
    /\ pc \in Ended \cup Running
    /\ manifest \in Releases
    /\ todo \in Seq(Dep)
    /\ cache \in Cache /\ saved \in Cache
    /\ outputFile \in File \cup {Absent}
    /\ installed \in [Dep -> File \cup {Absent}]
    /\ filesInAppCache \subseteq Uri /\ downloaded \subseteq Uri /\ lastUsed \subseteq Uri

Init ==
    /\ pc = "new"
    /\ manifest \in Releases
    /\ todo = <<>>
    /\ cache = [u \in Uri |-> Absent] /\ saved = cache
    /\ outputFile = Absent
    /\ installed = [d \in Dep |-> Absent]
    /\ filesInAppCache = {} /\ downloaded = {} /\ lastUsed = {}

entry == manifest[Head(todo)]

-----------------------------------------------------------------------------
\* NewInstaller and SetAppCacheDir in a container with the cache the platform kept.
StartStaging ==
    /\ pc \in Ended
    /\ pc' = "fetch"
    /\ manifest' \in Releases
    /\ todo' \in Plans
    /\ cache' = saved
    /\ outputFile' = Absent
    /\ installed' = [d \in Dep |-> Absent]
    /\ filesInAppCache' = {} /\ downloaded' = {}
    /\ UNCHANGED <<saved, lastUsed>>

\* fetchCachedBuildpackDependency copies the file that comes with the buildpack ...
FetchBundled ==
    /\ pc = "fetch" /\ entry.file
    /\ outputFile' = entry.sha256
    /\ pc' = "checkCopy"
    /\ UNCHANGED <<manifest, todo, cache, filesInAppCache, installed, saved, downloaded, lastUsed>>

\* ... or one that a damaged buildpack has in its place.
FetchBundledWrong ==
    /\ pc = "fetch" /\ entry.file
    /\ outputFile' \in File \ {entry.sha256}
    /\ pc' = "checkCopy"
    /\ UNCHANGED <<manifest, todo, cache, filesInAppCache, installed, saved, downloaded, lastUsed>>

\* Mistake: what is noted is not the name under which the file is cached.
CopyFromCacheMisnamed ==
    /\ pc = "fetch" /\ ~entry.file
    /\ cache[entry.uri] # Absent
    /\ filesInAppCache' = filesInAppCache \cup {entry.sha256}
    /\ outputFile' = cache[entry.uri]
    /\ pc' = "checkCopy"
    /\ UNCHANGED <<manifest, todo, cache, installed, saved, downloaded, lastUsed>>

\* Mistake: only downloads are noted as in use.
CopyFromCacheUnnoted ==
    /\ pc = "fetch" /\ ~entry.file
    /\ cache[entry.uri] # Absent
    /\ outputFile' = cache[entry.uri]
    /\ pc' = "checkCopy"
    /\ UNCHANGED <<manifest, todo, cache, filesInAppCache, installed, saved, downloaded, lastUsed>>

\* fetchAppCachedBuildpackDependency finds the file and copies it.
CopyFromCache ==
    /\ pc = "fetch" /\ ~entry.file
    /\ cache[entry.uri] # Absent
    /\ filesInAppCache' = filesInAppCache \cup {entry.uri}
    /\ outputFile' = cache[entry.uri]
    /\ pc' = "checkCopy"
    /\ UNCHANGED <<manifest, todo, cache, installed, saved, downloaded, lastUsed>>

\* It does not: download.
AskNetwork ==
    /\ pc = "fetch" /\ ~entry.file
    /\ cache[entry.uri] = Absent
    /\ filesInAppCache' = filesInAppCache \cup {entry.uri}
    /\ downloaded' = downloaded \cup {entry.uri}
    /\ pc' = "download"
    /\ UNCHANGED <<manifest, todo, cache, outputFile, installed, saved, lastUsed>>

\* An attempt of downloadFile that returns the file the manifest means ...
DownloadRight ==
    /\ pc = "download"
    /\ outputFile' = entry.sha256
    /\ pc' = "checkDownload"
    /\ UNCHANGED <<manifest, todo, cache, filesInAppCache, installed, saved, downloaded, lastUsed>>

\* ... one that returns something else without an error ...
DownloadWrong ==
    /\ pc = "download"
    /\ outputFile' \in File \ {entry.sha256}
    /\ pc' = "checkDownload"
    /\ UNCHANGED <<manifest, todo, cache, filesInAppCache, installed, saved, downloaded, lastUsed>>

\* ... and one that fails and is tried again: writeToFile truncates the file.
DownloadRetried ==
    /\ pc = "download"
    /\ outputFile' \in {outputFile, Broken}
    /\ UNCHANGED <<pc, manifest, todo, cache, filesInAppCache, installed, saved,
                   downloaded, lastUsed>>

\* Mistake: the checksum is not compared.
CheckSkipped(from, to) ==
    /\ pc = from
    /\ pc' = to
    /\ UNCHANGED <<manifest, todo, cache, outputFile, filesInAppCache, installed, saved,
                   downloaded, lastUsed>>

\* deleteBadFile: CheckSha256 accepts the copy, of a bundled or a cached file,
\* or the download.
CheckPasses(from, to) ==
    /\ pc = from
    /\ outputFile = entry.sha256
    /\ pc' = to
    /\ UNCHANGED <<manifest, todo, cache, outputFile, filesInAppCache, installed, saved,
                   downloaded, lastUsed>>

CheckCopy == CheckPasses("checkCopy", "install")
CheckDownload == CheckPasses("checkDownload", "save")

\* CopyFile creates the file in the cache ...
CreateInCache ==
    /\ pc = "save"
    /\ cache' = [cache EXCEPT ![entry.uri] = Broken]
    /\ pc' = "saving"
    /\ UNCHANGED <<manifest, todo, outputFile, filesInAppCache, installed, saved,
                   downloaded, lastUsed>>

\* Mistake: a write that is cut short goes unnoticed.
WriteInCacheShort ==
    /\ pc = "saving"
    /\ cache' \in {[cache EXCEPT ![entry.uri] = f] : f \in {outputFile, Broken}}
    /\ pc' = "install"
    /\ UNCHANGED <<manifest, todo, outputFile, filesInAppCache, installed, saved,
                   downloaded, lastUsed>>

\* ... and writes it.
WriteInCache ==
    /\ pc = "saving"
    /\ cache' = [cache EXCEPT ![entry.uri] = outputFile]
    /\ pc' = "install"
    /\ UNCHANGED <<manifest, todo, outputFile, filesInAppCache, installed, saved,
                   downloaded, lastUsed>>

\* InstallDependency extracts the archive and removes it.
InstallDependency ==
    /\ pc = "install"
    /\ installed' = [installed EXCEPT ![Head(todo)] = outputFile]
    /\ outputFile' = Absent
    /\ todo' = Tail(todo)
    /\ pc' = IF todo' = <<>> THEN "cleanup" ELSE "fetch"
    /\ UNCHANGED <<manifest, cache, filesInAppCache, saved, downloaded, lastUsed>>

\* Mistake: files in use are deleted too.
CleanupAnyFile ==
    /\ pc = "cleanup"
    /\ \E u \in CachedFiles(cache) : cache' = [cache EXCEPT ![u] = Absent]
    /\ UNCHANGED <<pc, manifest, todo, outputFile, filesInAppCache, installed, saved,
                   downloaded, lastUsed>>

\* CleanupAppCache, one file at a time.
CleanupFile ==
    /\ pc = "cleanup"
    /\ \E u \in CachedFiles(cache) \ filesInAppCache : cache' = [cache EXCEPT ![u] = Absent]
    /\ UNCHANGED <<pc, manifest, todo, outputFile, filesInAppCache, installed, saved,
                   downloaded, lastUsed>>

\* Mistake: the clean-up stops although files are left.
CleanupEndsEarly ==
    /\ pc = "cleanup"
    /\ pc' = "supplied"
    /\ UNCHANGED <<manifest, todo, cache, outputFile, filesInAppCache, installed, saved,
                   downloaded, lastUsed>>

CleanupEnds ==
    /\ pc = "cleanup"
    /\ CachedFiles(cache) \subseteq filesInAppCache
    /\ pc' = "supplied"
    /\ UNCHANGED <<manifest, todo, cache, outputFile, filesInAppCache, installed, saved,
                   downloaded, lastUsed>>

\* Later buildpacks and finalize are through: the platform keeps the cache.
StagingSucceeds ==
    /\ pc = "supplied"
    /\ pc' = "succeeded"
    /\ saved' = cache
    /\ lastUsed' = filesInAppCache
    /\ UNCHANGED <<manifest, todo, cache, outputFile, filesInAppCache, installed, downloaded>>

-----------------------------------------------------------------------------
(* The staging fails; main exits, nothing is cleaned up.                   *)

Fails ==
    /\ pc' = "failed"
    /\ saved' = IF KeepAfterFailure THEN cache ELSE saved
    /\ UNCHANGED <<manifest, todo, cache, filesInAppCache, installed, downloaded, lastUsed>>

\* deleteBadFile removes the copy, not the file in the cache or in the buildpack.
CheckFails ==
    /\ pc \in {"checkCopy", "checkDownload"}
    /\ outputFile # entry.sha256
    /\ outputFile' = Absent
    /\ Fails

\* A crash, the retry time limit, a file error or a later buildpack: at any time.
Crash ==
    /\ pc \in Running
    /\ outputFile' = outputFile
    /\ Fails

Progress ==
    \/ StartStaging
    \/ FetchBundled \/ CopyFromCache \/ AskNetwork
    \/ DownloadRight \/ CheckCopy \/ CheckDownload
    \/ CreateInCache \/ WriteInCache
    \/ InstallDependency \/ CleanupFile \/ CleanupEnds \/ StagingSucceeds

Trouble == FetchBundledWrong \/ DownloadWrong \/ DownloadRetried \/ Crash

Next == Progress \/ CheckFails \/ Trouble

\* The platform stages the app again and again; no step hangs for ever.
Spec == Init /\ [][Next]_vars /\ WF_vars(Next)

-----------------------------------------------------------------------------
InstalledDeps == {d \in Dep : installed[d] # Absent}
CachedDeps == {d \in InstalledDeps : ~manifest[d].file}

(***************************************************************************)
(* Only what the release in use names by its sha256 is ever installed, no  *)
(* matter what an older release, a broken write or the network left in the *)
(* cache or the buildpack itself brings (installer.go:265, manifest.go:268 *)
(* and 290).                                                               *)
(***************************************************************************)
Verified == \A d \in InstalledDeps : installed[d] = manifest[d].sha256

(***************************************************************************)
(* A successful staging leaves in the cache what it used and no other      *)
(* file: nothing it copied is deleted, nothing of an older release or of a *)
(* staging that failed half-way survives (CleanupAppCache).                *)
(***************************************************************************)
CacheExact ==
    pc = "succeeded" => CachedFiles(saved) = {manifest[d].uri : d \in CachedDeps}

(***************************************************************************)
(* What a successful staging leaves in the cache is what its release       *)
(* names, even when it started from the cache of a failed one: a broken    *)
(* file in use makes the staging fail, one not in use is cleaned up.       *)
(***************************************************************************)
CacheTrusted ==
    pc = "succeeded" => \A d \in CachedDeps : saved[manifest[d].uri] = manifest[d].sha256

(***************************************************************************)
(* No staging goes to the network for a file the last successful one used, *)
(* however many stagings failed in between, at whatever step; it takes a   *)
(* platform that drops the cache of a failed staging.                      *)
(***************************************************************************)
RestageOffline == pc \in Running /\ ~KeepAfterFailure => downloaded \cap lastUsed = {}

(***************************************************************************)
(* The stagings keep the promise of CachePromise: seen from outside, each  *)
(* either delivers a whole plan of its release and leaves the cache with   *)
(* the files of that plan, or fails and delivers nothing.                  *)
(***************************************************************************)
Promise == INSTANCE CachePromise WITH
    status    <- IF pc \in Running THEN "running" ELSE pc,
    release   <- manifest,
    delivered <- IF pc = "succeeded" THEN installed ELSE [d \in Dep |-> Absent],
    kept      <- saved

KeepsPromise == Promise!Spec

(***************************************************************************)
(* Once files arrive whole and nothing crashes, stagings succeed: no past  *)
(* trouble leaves a cache that every later staging trips over.  A platform *)
(* that keeps the cache of failed stagings, or a URI whose content a later *)
(* release changes, would break this: nothing deletes the cached file.     *)
(***************************************************************************)
Recovers == <>[][~Trouble]_vars => []<>(pc = "succeeded")
=============================================================================
