--------------------------- MODULE AppCacheProofs ---------------------------
(***************************************************************************)
(* The properties of AppCache for every set of dependencies, releases and  *)
(* plans.  They follow from one inductive invariant, Inv, that ties what   *)
(* the installer noted to what is in the cache at each step.  From it, and *)
(* from how far the plan has come, AppCache implements CachePromise.       *)
(***************************************************************************)
EXTENDS AppCache, TLAPS

\* Steps between the lookup of an entry and its installation.
Mid == {"checkCopy", "download", "checkDownload", "save", "saving", "install"}

UsedUris == {manifest[d].uri : d \in CachedDeps}

\* A staging that has not come to the clean-up has something to install.
HasEntry == pc \in Mid \cup {"fetch"} => todo # <<>>

\* Nothing unchecked is saved or installed.
OutputChecked == pc \in {"save", "saving", "install"} => outputFile = entry.sha256

\* What the cache holds for the entry in work.
EntryInCache ==
    /\ pc \in Mid \ {"checkCopy", "install"} => ~entry.file
    /\ pc = "checkCopy" /\ ~entry.file => cache[entry.uri] = outputFile
    /\ pc \in {"download", "checkDownload", "save"} => cache[entry.uri] = Absent
    /\ pc = "saving" => cache[entry.uri] = Broken
    /\ pc = "install" /\ ~entry.file => cache[entry.uri] = entry.sha256

\* filesInAppCache is what has been installed from the cache, and the entry in work.
FilesNoted ==
    /\ pc \in {"fetch", "cleanup", "supplied", "succeeded"} => filesInAppCache = UsedUris
    /\ pc \in Mid =>
          filesInAppCache = UsedUris \cup (IF entry.file THEN {} ELSE {entry.uri})

\* What was installed from the cache is still there.
UsedInCache ==
    pc \in Running \cup {"succeeded"} =>
        \A d \in CachedDeps : cache[manifest[d].uri] = manifest[d].sha256

\* The clean-up is complete, and its result is what the platform keeps.
CleanedUp ==
    /\ pc \in {"supplied", "succeeded"} => CachedFiles(cache) \subseteq filesInAppCache
    /\ pc = "succeeded" => saved = cache

\* What the last successful staging used is kept, and stays until the clean-up.
LastUsedKept ==
    ~KeepAfterFailure =>
        /\ lastUsed \subseteq CachedFiles(saved)
        /\ pc \in Mid \cup {"fetch"} => lastUsed \subseteq CachedFiles(cache)

Inv == /\ TypeOK
       /\ HasEntry /\ OutputChecked /\ EntryInCache /\ FilesNoted
       /\ Verified /\ UsedInCache /\ CleanedUp
       /\ LastUsedKept /\ RestageOffline

-----------------------------------------------------------------------------
\* The entry in work is one of the release's.
LEMMA EntryInWork ==
    ASSUME TypeOK, todo # <<>>
    PROVE  /\ Head(todo) \in Dep /\ Tail(todo) \in Seq(Dep)
           /\ entry.uri \in Uri /\ entry.sha256 \in Content /\ entry.file \in BOOLEAN
<1>1. Head(todo) \in Dep /\ Tail(todo) \in Seq(Dep)
  BY DEF TypeOK
<1>2. manifest \in [Dep -> Entry]
  BY ReleasesAssumption DEF TypeOK
<1> QED
  BY <1>1, <1>2 DEF entry, Entry

\* The installation of the entry in work adds its name, if it is not there yet,
\* to the dependencies installed, and to those installed from the cache unless
\* it comes with the buildpack.
LEMMA InstallAdds ==
    ASSUME Inv, InstallDependency
    PROVE  /\ InstalledDeps' = InstalledDeps \cup {Head(todo)}
           /\ CachedDeps' = CachedDeps \cup (IF entry.file THEN {} ELSE {Head(todo)})
           /\ UsedUris' = UsedUris \cup (IF entry.file THEN {} ELSE {entry.uri})
<1>1. todo # <<>> /\ TypeOK /\ outputFile = entry.sha256
  BY DEF Inv, HasEntry, OutputChecked, InstallDependency, Mid
<1>2. Head(todo) \in Dep /\ outputFile # Absent
  BY <1>1, EntryInWork, SpecialFiles DEF File
<1>3. InstalledDeps' = InstalledDeps \cup {Head(todo)}
  BY <1>1, <1>2 DEF InstalledDeps, InstallDependency, TypeOK
<1>4. CachedDeps' = CachedDeps \cup (IF entry.file THEN {} ELSE {Head(todo)})
  BY <1>3 DEF CachedDeps, InstallDependency, entry
<1> QED
  BY <1>3, <1>4 DEF UsedUris, InstallDependency, entry

\* The first staging finds an empty cache.
LEMMA InitInv == Init => Inv
  BY DEF Init, Inv, TypeOK, Cache, Ended, HasEntry, OutputChecked,
     EntryInCache, FilesNoted, Verified, UsedInCache, CleanedUp, LastUsedKept, RestageOffline,
     Running, Mid, InstalledDeps, CachedFiles

(***************************************************************************)
(* Every step of the installer and of the platform keeps the invariant.    *)
(* The steps that matter are the lookup, which decides what is noted and   *)
(* downloaded, the write into the cache, which must not touch a file that  *)
(* was installed from, the installation, and the clean-up.                 *)
(***************************************************************************)
LEMMA NextInv == Inv /\ [Next]_vars => Inv'
<1> SUFFICES ASSUME Inv, [Next]_vars PROVE Inv'
  OBVIOUS
<1> USE DEF Inv, Running, Ended, Mid, File, Cache, CachedFiles
<1>1. CASE StartStaging
  BY <1>1, PlansAssumption
     DEF StartStaging, TypeOK, HasEntry, OutputChecked, EntryInCache, FilesNoted, Verified,
         UsedInCache, CleanedUp, LastUsedKept, RestageOffline, InstalledDeps, CachedDeps, UsedUris
<1>2. CASE FetchBundled \/ FetchBundledWrong \/ CopyFromCache \/ AskNetwork
  <2>1. todo # <<>> /\ pc = "fetch"
    BY <1>2 DEF HasEntry, FetchBundled, FetchBundledWrong, CopyFromCache, AskNetwork
  <2>2. UNCHANGED <<manifest, todo, cache, installed, saved, lastUsed>>
    BY <1>2 DEF FetchBundled, FetchBundledWrong, CopyFromCache, AskNetwork
  <2>3. TypeOK'
    BY <1>2, <2>1, EntryInWork
       DEF TypeOK, FetchBundled, FetchBundledWrong, CopyFromCache, AskNetwork
  <2>4. HasEntry' /\ OutputChecked' /\ EntryInCache'
    BY <1>2, <2>1, <2>2, EntryInWork
       DEF FetchBundled, FetchBundledWrong, CopyFromCache, AskNetwork, HasEntry, OutputChecked,
           EntryInCache, entry
  <2>5. InstalledDeps' = InstalledDeps /\ CachedDeps' = CachedDeps /\ UsedUris' = UsedUris
    BY <2>2 DEF InstalledDeps, CachedDeps, UsedUris
  <2>6. FilesNoted'
    BY <1>2, <2>1, <2>2, <2>5
       DEF FetchBundled, FetchBundledWrong, CopyFromCache, AskNetwork, FilesNoted, entry
  <2>7. Verified' /\ UsedInCache'
    BY <2>1, <2>2, <2>5 DEF Verified, UsedInCache
  <2>8. CleanedUp' /\ LastUsedKept'
    BY <1>2, <2>1, <2>2
       DEF FetchBundled, FetchBundledWrong, CopyFromCache, AskNetwork, CleanedUp, LastUsedKept
  <2>9. RestageOffline'
    \* What the last staging used is in the cache, and AskNetwork asks for what is not.
    BY <1>2, <2>1, <2>2
       DEF FetchBundled, FetchBundledWrong, CopyFromCache, AskNetwork, LastUsedKept, RestageOffline
  <2> QED
    BY <2>3, <2>4, <2>6, <2>7, <2>8, <2>9
<1>3. CASE DownloadRight \/ DownloadWrong \/ DownloadRetried \/ CheckCopy \/ CheckDownload
  <2>1. todo # <<>> /\ pc \in {"download", "checkCopy", "checkDownload"}
    BY <1>3 DEF HasEntry, DownloadRight, DownloadWrong, DownloadRetried, CheckCopy,
                CheckDownload, CheckPasses
  <2>2. UNCHANGED <<manifest, todo, cache, filesInAppCache, installed, saved, downloaded, lastUsed>>
    BY <1>3 DEF DownloadRight, DownloadWrong, DownloadRetried, CheckCopy, CheckDownload,
                CheckPasses
  <2>3. /\ pc' \in {"download", "checkDownload", "save", "install"}
        /\ outputFile' \in File \cup {Absent}
    BY <1>3, <2>1, EntryInWork
       DEF TypeOK, DownloadRight, DownloadWrong, DownloadRetried, CheckCopy, CheckDownload,
           CheckPasses
  <2>4. TypeOK' /\ HasEntry'
    BY <2>1, <2>2, <2>3 DEF TypeOK, HasEntry
  <2>5. OutputChecked' /\ EntryInCache'
    BY <1>3, <2>1, <2>2
       DEF DownloadRight, DownloadWrong, DownloadRetried, CheckCopy, CheckDownload,
           CheckPasses, OutputChecked, EntryInCache, entry
  <2>6. FilesNoted' /\ Verified' /\ UsedInCache'
    BY <2>1, <2>2, <2>3
       DEF FilesNoted, Verified, UsedInCache, InstalledDeps, CachedDeps, UsedUris, entry
  <2>7. CleanedUp' /\ LastUsedKept' /\ RestageOffline'
    BY <2>1, <2>2, <2>3 DEF CleanedUp, LastUsedKept, RestageOffline
  <2> QED
    BY <2>4, <2>5, <2>6, <2>7
<1>4. CASE CreateInCache \/ WriteInCache
  \* The entry's file was absent or unfinished: nothing was installed from it.
  <2>1. todo # <<>> /\ pc \in {"save", "saving"} /\ outputFile = entry.sha256
    BY <1>4 DEF HasEntry, OutputChecked, CreateInCache, WriteInCache
  <2>2. UNCHANGED <<manifest, todo, outputFile, filesInAppCache, installed, saved, downloaded,
                    lastUsed>>
    BY <1>4 DEF CreateInCache, WriteInCache
  <2>3. cache[entry.uri] \in {Absent, Broken} /\ entry.uri \in Uri /\ entry.sha256 \in Content
    BY <1>4, <2>1, EntryInWork DEF EntryInCache, CreateInCache, WriteInCache
  <2>4. /\ pc' \in {"saving", "install"}
        /\ \E f \in File : f # Absent /\ cache' = [cache EXCEPT ![entry.uri] = f]
    BY <1>4, <2>1, <2>3, SpecialFiles DEF CreateInCache, WriteInCache
  <2>5. TypeOK' /\ HasEntry' /\ OutputChecked'
    BY <2>1, <2>2, <2>3, <2>4 DEF TypeOK, HasEntry, OutputChecked, entry
  <2>6. EntryInCache'
    BY <1>4, <2>1, <2>2, <2>3
       DEF CreateInCache, WriteInCache, EntryInCache, TypeOK, entry
  <2>7. FilesNoted' /\ Verified'
    BY <2>1, <2>2, <2>4 DEF FilesNoted, Verified, InstalledDeps, CachedDeps, UsedUris, entry
  <2>8. UsedInCache'
    <3>1. \A d \in CachedDeps : manifest[d].uri # entry.uri
      <4> SUFFICES ASSUME NEW d \in CachedDeps, manifest[d].uri = entry.uri PROVE FALSE
        OBVIOUS
      <4>1. cache[entry.uri] = manifest[d].sha256
        BY <2>1 DEF UsedInCache
      <4>2. manifest[d].sha256 \in Content
        BY ReleasesAssumption DEF CachedDeps, InstalledDeps, TypeOK, Entry
      <4> QED
        BY <4>1, <4>2, <2>3, SpecialFiles
    <3>2. CachedDeps' = CachedDeps
      BY <2>2 DEF CachedDeps, InstalledDeps
    <3>3. \A d \in CachedDeps : cache'[manifest[d].uri] = cache[manifest[d].uri]
      BY <2>4, <3>1, ReleasesAssumption DEF CachedDeps, InstalledDeps, TypeOK, Entry
    <3> QED
      BY <2>1, <2>2, <3>2, <3>3 DEF UsedInCache
  <2>9. CleanedUp' /\ LastUsedKept' /\ RestageOffline'
    BY <2>1, <2>2, <2>3, <2>4 DEF CleanedUp, LastUsedKept, RestageOffline, TypeOK
  <2> QED
    BY <2>5, <2>6, <2>7, <2>8, <2>9
<1>5. CASE InstallDependency
  <2>1. todo # <<>> /\ pc = "install" /\ outputFile = entry.sha256
    BY <1>5 DEF HasEntry, OutputChecked, InstallDependency
  <2>2. UNCHANGED <<manifest, cache, filesInAppCache, saved, downloaded, lastUsed>>
    BY <1>5 DEF InstallDependency
  <2>3. TypeOK' /\ HasEntry' /\ OutputChecked' /\ EntryInCache'
    BY <1>5, <2>1, EntryInWork
       DEF InstallDependency, TypeOK, HasEntry, OutputChecked, EntryInCache
  <2>4. FilesNoted'
    BY <1>5, <2>1, <2>2, InstallAdds DEF InstallDependency, FilesNoted
  <2>5. Verified'
    BY <1>5, <2>1, <2>2, InstallAdds DEF InstallDependency, Verified, TypeOK, InstalledDeps, entry
  <2>6. UsedInCache'
    BY <1>5, <2>1, <2>2, InstallAdds DEF UsedInCache, EntryInCache, entry
  <2>7. CleanedUp' /\ LastUsedKept' /\ RestageOffline'
    BY <1>5, <2>1, <2>2 DEF InstallDependency, CleanedUp, LastUsedKept, RestageOffline
  <2> QED
    BY <2>3, <2>4, <2>5, <2>6, <2>7
<1>6. CASE CleanupFile
  \* The file that goes is not among filesInAppCache, which are the files in use.
  <2>1. pc = "cleanup" /\ pc' = "cleanup"
    BY <1>6 DEF CleanupFile
  <2>2. UNCHANGED <<manifest, todo, outputFile, filesInAppCache, installed, saved, downloaded,
                    lastUsed>>
    BY <1>6 DEF CleanupFile
  <2>3. PICK u \in Uri : u \notin filesInAppCache /\ cache' = [cache EXCEPT ![u] = Absent]
    BY <1>6 DEF CleanupFile
  <2>4. TypeOK' /\ HasEntry' /\ OutputChecked' /\ EntryInCache'
    BY <2>1, <2>2, <2>3 DEF TypeOK, HasEntry, OutputChecked, EntryInCache
  <2>5. FilesNoted' /\ Verified'
    BY <2>1, <2>2 DEF FilesNoted, Verified, InstalledDeps, CachedDeps, UsedUris
  <2>6. UsedInCache'
    BY <2>1, <2>2, <2>3
       DEF UsedInCache, FilesNoted, UsedUris, CachedDeps, InstalledDeps, TypeOK
  <2>7. CleanedUp' /\ LastUsedKept' /\ RestageOffline'
    BY <2>1, <2>2 DEF CleanedUp, LastUsedKept, RestageOffline
  <2> QED
    BY <2>4, <2>5, <2>6, <2>7
<1>7. CASE CleanupEnds \/ StagingSucceeds
  <2>1. UNCHANGED <<manifest, todo, cache, outputFile, filesInAppCache, installed, downloaded>>
    BY <1>7 DEF CleanupEnds, StagingSucceeds
  <2>2. TypeOK' /\ HasEntry' /\ OutputChecked' /\ EntryInCache'
    BY <1>7, <2>1
       DEF CleanupEnds, StagingSucceeds, TypeOK, HasEntry, OutputChecked, EntryInCache
  <2>3. FilesNoted' /\ Verified' /\ UsedInCache'
    BY <1>7, <2>1
       DEF CleanupEnds, StagingSucceeds, FilesNoted, Verified, UsedInCache, InstalledDeps,
           CachedDeps, UsedUris
  <2>4. CleanedUp'
    BY <1>7, <2>1 DEF CleanupEnds, StagingSucceeds, CleanedUp
  <2>5. CASE CleanupEnds
    BY <2>2, <2>3, <2>4, <2>5 DEF CleanupEnds, LastUsedKept, RestageOffline
  <2>6. CASE StagingSucceeds
    <3>1. UsedUris \subseteq CachedFiles(cache)
      <4> SUFFICES ASSUME NEW d \in CachedDeps PROVE manifest[d].uri \in CachedFiles(cache)
        BY DEF UsedUris
      <4>1. cache[manifest[d].uri] = manifest[d].sha256
        BY <2>6 DEF StagingSucceeds, UsedInCache
      <4>2. manifest[d].uri \in Uri /\ manifest[d].sha256 \in Content
        BY ReleasesAssumption DEF CachedDeps, InstalledDeps, TypeOK, Entry
      <4> QED
        BY <4>1, <4>2, SpecialFiles
    <3>2. LastUsedKept' /\ RestageOffline'
      BY <2>6, <3>1 DEF StagingSucceeds, FilesNoted, LastUsedKept, RestageOffline
    <3> QED
      BY <2>2, <2>3, <2>4, <3>2
  <2> QED
    BY <1>7, <2>5, <2>6
<1>8. CASE CheckFails \/ Crash
  <2>1. pc' = "failed" /\ pc \in Running /\ outputFile' \in File \cup {Absent}
    BY <1>8 DEF CheckFails, Crash, Fails, TypeOK
  <2>2. UNCHANGED <<manifest, todo, cache, filesInAppCache, installed, downloaded, lastUsed>>
    BY <1>8 DEF CheckFails, Crash, Fails
  <2>3. saved' = IF KeepAfterFailure THEN cache ELSE saved
    BY <1>8 DEF CheckFails, Crash, Fails
  <2>4. TypeOK' /\ HasEntry' /\ OutputChecked' /\ EntryInCache'
    BY <2>1, <2>2, <2>3 DEF TypeOK, HasEntry, OutputChecked, EntryInCache
  <2>5. FilesNoted' /\ Verified' /\ UsedInCache'
    BY <2>1, <2>2 DEF FilesNoted, Verified, UsedInCache, InstalledDeps
  <2>6. CleanedUp' /\ LastUsedKept' /\ RestageOffline'
    BY <2>1, <2>2, <2>3 DEF CleanedUp, LastUsedKept, RestageOffline
  <2> QED
    BY <2>4, <2>5, <2>6
<1>9. CASE UNCHANGED vars
  BY <1>9 DEF vars, TypeOK, HasEntry, OutputChecked, EntryInCache, FilesNoted, Verified,
     UsedInCache, CleanedUp, LastUsedKept, RestageOffline, InstalledDeps, CachedDeps, UsedUris,
     entry
<1> QED
  BY <1>1, <1>2, <1>3, <1>4, <1>5, <1>6, <1>7, <1>8, <1>9 DEF Next, Progress, Trouble

\* The invariant holds in every reachable state.
LEMMA Invariance == Spec => []Inv
  BY InitInv, NextInv, PTL DEF Spec

-----------------------------------------------------------------------------
(***************************************************************************)
(* Type correctness: the cache, what the platform keeps and the installed  *)
(* archives are always files or nothing.                                   *)
(***************************************************************************)
THEOREM CacheTypes == Spec => []TypeOK
<1>1. Inv => TypeOK
  BY DEF Inv
<1> QED
  BY <1>1, Invariance, PTL

(***************************************************************************)
(* Only files whose sha256 is the one in the manifest are installed,       *)
(* whatever the network returned and earlier stagings or releases left.    *)
(***************************************************************************)
THEOREM InstallsVerified == Spec => []Verified
<1>1. Inv => Verified
  BY DEF Inv
<1> QED
  BY <1>1, Invariance, PTL

\* What is in the cache after the clean-up is what is in use.
LEMMA InvKeepsExactly == Inv => CacheExact
<1> SUFFICES ASSUME Inv, pc = "succeeded" PROVE CachedFiles(saved) = UsedUris
  BY DEF CacheExact, UsedUris
<1>1. CachedFiles(saved) \subseteq UsedUris
  BY DEF Inv, CleanedUp, FilesNoted
<1>2. UsedUris \subseteq CachedFiles(saved)
  <2> SUFFICES ASSUME NEW d \in CachedDeps PROVE manifest[d].uri \in CachedFiles(saved)
    BY DEF UsedUris
  <2>1. saved[manifest[d].uri] = manifest[d].sha256
    BY DEF Inv, CleanedUp, UsedInCache
  <2>2. manifest[d].uri \in Uri /\ manifest[d].sha256 \in Content
    BY ReleasesAssumption DEF Inv, CachedDeps, InstalledDeps, TypeOK, Entry
  <2> QED
    BY <2>1, <2>2, SpecialFiles DEF CachedFiles, File
<1> QED
  BY <1>1, <1>2

(***************************************************************************)
(* After a successful staging the cache the platform keeps has exactly the *)
(* files that staging used ...                                             *)
(***************************************************************************)
THEOREM KeepsExactly == Spec => []CacheExact
<1> QED
  BY InvKeepsExactly, Invariance, PTL

(***************************************************************************)
(* ... and those files are what the release's manifest names, also on a    *)
(* platform that hands on the cache of failed stagings.                    *)
(***************************************************************************)
THEOREM KeepsTrusted == Spec => []CacheTrusted
<1>1. Inv => CacheTrusted
  BY DEF Inv, CacheTrusted, CleanedUp, UsedInCache
<1> QED
  BY <1>1, Invariance, PTL

(***************************************************************************)
(* If the platform drops the cache of failed stagings, no staging asks the *)
(* network for a file that the last successful one used.                   *)
(***************************************************************************)
THEOREM RestagesOffline == Spec => []RestageOffline
<1>1. Inv => RestageOffline
  BY DEF Inv
<1> QED
  BY <1>1, Invariance, PTL

-----------------------------------------------------------------------------
(***************************************************************************)
(* AppCache implements CachePromise.  What the cache holds at the end is   *)
(* known; what is added here is how far a staging has come with its plan.  *)
(***************************************************************************)

\* The first n dependencies of the plan are installed, the others to do.
Split(plan, n) ==
    /\ n \in 0 .. Len(plan)
    /\ Len(todo) = Len(plan) - n
    /\ \A i \in 1 .. Len(todo) : todo[i] = plan[n + i]
    /\ InstalledDeps = {plan[i] : i \in 1 .. n}

PlanFollowed ==
    /\ pc \in Running \cup {"succeeded"} => \E plan \in Plans : \E n \in Nat : Split(plan, n)
    /\ pc \in {"cleanup", "supplied", "succeeded"} => todo = <<>>

-----------------------------------------------------------------------------
\* The installation of the entry in work takes the plan one dependency on.
LEMMA InstallFollows ==
    ASSUME Inv, PlanFollowed, InstallDependency PROVE PlanFollowed'
<1>1. todo # <<>> /\ todo \in Seq(Dep) /\ pc = "install"
  BY DEF Inv, HasEntry, TypeOK, InstallDependency, Mid
<1>2. PICK plan \in Plans, n \in Nat : Split(plan, n)
  BY <1>1 DEF PlanFollowed, Running
<1>3. plan \in Seq(Dep)
  BY PlansAssumption
<1>4. Len(todo) > 0 /\ n + 1 \in 0 .. Len(plan) /\ Head(todo) = plan[n + 1]
  BY <1>1, <1>2, <1>3 DEF Split
<1>5. /\ todo' = Tail(todo) /\ Len(todo') = Len(todo) - 1
      /\ \A i \in 1 .. Len(todo') : todo'[i] = todo[i + 1]
  BY <1>1, <1>4 DEF InstallDependency
<1>6. InstalledDeps' = {plan[i] : i \in 1 .. n + 1}
  <2>1. InstalledDeps' = InstalledDeps \cup {plan[n + 1]}
    BY <1>4, InstallAdds
  <2>2. 1 .. n + 1 = (1 .. n) \cup {n + 1}
    OBVIOUS
  <2> QED
    BY <1>2, <2>1, <2>2 DEF Split
<1>7. \A i \in 1 .. Len(todo') : todo'[i] = plan[n + 1 + i]
  BY <1>1, <1>2, <1>3, <1>4, <1>5 DEF Split
<1>8. Split(plan, n + 1)'
  BY <1>2, <1>3, <1>4, <1>5, <1>6, <1>7 DEF Split
<1>9. pc' \in {"cleanup", "supplied", "succeeded"} => todo' = <<>>
  BY DEF InstallDependency
<1> QED
  BY <1>8, <1>9 DEF PlanFollowed

(***************************************************************************)
(* Every step keeps to the plan: only StartStaging chooses one and only    *)
(* InstallDependency takes it on.                                          *)
(***************************************************************************)
LEMMA NextFollows == Inv /\ PlanFollowed /\ [Next]_vars => PlanFollowed'
<1> SUFFICES ASSUME Inv, PlanFollowed, [Next]_vars PROVE PlanFollowed'
  OBVIOUS
<1>1. CASE StartStaging
  <2>1. PICK plan \in Plans : todo' = plan
    BY <1>1 DEF StartStaging
  <2>2. InstalledDeps' = {}
    BY <1>1 DEF StartStaging, InstalledDeps
  <2>3. plan \in Seq(Dep)
    BY PlansAssumption
  <2>4. Split(plan, 0)'
    BY <2>1, <2>2, <2>3 DEF Split
  <2> QED
    BY <1>1, <2>4 DEF PlanFollowed, StartStaging
<1>2. CASE InstallDependency
  BY <1>2, InstallFollows
<1>3. CASE pc' = "failed" \/ UNCHANGED vars
  BY <1>3 DEF PlanFollowed, Split, InstalledDeps, Running, vars
<1>4. ASSUME UNCHANGED <<todo, installed>>, pc \in Running,
             pc' \in {"cleanup", "supplied", "succeeded"} =>
                pc \in {"cleanup", "supplied", "succeeded"}
      PROVE  PlanFollowed'
  <2>1. PICK plan \in Plans, n \in Nat : Split(plan, n)
    BY <1>4 DEF PlanFollowed
  <2>2. Split(plan, n)'
    BY <1>4, <2>1 DEF Split, InstalledDeps
  <2> QED
    BY <1>4, <2>2 DEF PlanFollowed
<1>5. CASE FetchBundled \/ FetchBundledWrong \/ CopyFromCache \/ AskNetwork
         \/ DownloadRight \/ DownloadWrong
  BY <1>4, <1>5
     DEF FetchBundled, FetchBundledWrong, CopyFromCache, AskNetwork, DownloadRight,
         DownloadWrong, Running
<1>6. CASE DownloadRetried \/ CheckCopy \/ CheckDownload \/ CreateInCache \/ WriteInCache
  BY <1>4, <1>6 DEF DownloadRetried, CheckCopy, CheckDownload, CheckPasses, CreateInCache,
                    WriteInCache, Running
<1>7. CASE CleanupFile \/ CleanupEnds \/ StagingSucceeds
  BY <1>4, <1>7 DEF CleanupFile, CleanupEnds, StagingSucceeds, Running
<1>8. CASE CheckFails \/ Crash
  BY <1>3, <1>8 DEF CheckFails, Crash, Fails
<1> QED
  BY <1>1, <1>2, <1>3, <1>5, <1>6, <1>7, <1>8 DEF Next, Progress, Trouble

LEMMA FollowsPlan == Spec => []PlanFollowed
<1>1. Init => PlanFollowed
  BY DEF Init, PlanFollowed, Running
<1> QED
  BY <1>1, NextFollows, Invariance, PTL DEF Spec

-----------------------------------------------------------------------------
\* The instance means the same by a cache.
LEMMA SameCaches ==
    Promise!Cache = Cache /\ \A c : Promise!CachedFiles(c) = CachedFiles(c)
  BY DEF Promise!Cache, Promise!File, Promise!CachedFiles, Cache, File, CachedFiles

\* A staging that fails delivers nothing.
LEMMA FailsAsPromised ==
    ASSUME Inv, Inv', CheckFails \/ Crash PROVE Promise!Fail
<1>1. pc \in Running /\ pc' = "failed" /\ manifest' = manifest
  BY DEF CheckFails, Crash, Fails, Running
<1>2. saved' \in IF KeepAfterFailure THEN Cache ELSE {saved}
  BY DEF CheckFails, Crash, Fails, Inv, TypeOK
<1> QED
  BY <1>1, <1>2, SameCaches DEF Promise!Fail, Running

\* A successful staging delivers its plan and keeps the files of the plan.
LEMMA SucceedsAsPromised ==
    ASSUME Inv, Inv', PlanFollowed, StagingSucceeds PROVE Promise!Succeed
<1>1. /\ pc = "supplied" /\ pc' = "succeeded" /\ todo = <<>>
      /\ UNCHANGED <<manifest, installed, cache, todo>> /\ saved' = cache
  BY DEF StagingSucceeds, PlanFollowed
<1>2. PICK plan \in Plans, n \in Nat : Split(plan, n)
  BY <1>1 DEF PlanFollowed, Running
<1>3. plan \in Seq(Dep) /\ n = Len(plan)
  BY <1>1, <1>2, PlansAssumption DEF Split
<1> DEFINE deps == {plan[i] : i \in DOMAIN plan}
<1>4. InstalledDeps = deps
  BY <1>2, <1>3 DEF Split
<1>5. installed = [d \in Dep |-> IF d \in deps THEN manifest[d].sha256 ELSE Absent]
  <2>1. installed \in [Dep -> File \cup {Absent}]
    BY DEF Inv, TypeOK
  <2>2. \A d \in Dep : installed[d] = IF d \in deps THEN manifest[d].sha256 ELSE Absent
    BY <1>4 DEF InstalledDeps, Inv, Verified
  <2> QED
    BY <2>1, <2>2
<1>6. Promise!Delivers(deps)
  BY <1>1, <1>5 DEF Promise!Delivers
<1>7. CachedDeps = {d \in deps : ~manifest[d].file}
  BY <1>4 DEF CachedDeps
<1>8. Promise!KeepsOnly({d \in deps : ~manifest[d].file})
  <2>1. saved' \in Cache
    BY DEF Inv, TypeOK
  <2>2. CachedFiles(saved') = {manifest[d].uri : d \in CachedDeps}
    <3>1. CacheExact'
      BY InvKeepsExactly, PTL
    <3>2. CachedDeps' = CachedDeps /\ manifest' = manifest
      BY <1>1 DEF CachedDeps, InstalledDeps
    <3> QED
      BY <1>1, <3>1, <3>2 DEF CacheExact
  <2>3. \A d \in CachedDeps : saved'[manifest[d].uri] = manifest[d].sha256
    BY <1>1 DEF Inv, UsedInCache, Running
  <2> QED
    BY <1>7, <2>1, <2>2, <2>3, SameCaches DEF Promise!KeepsOnly
<1> QED
  BY <1>1, <1>6, <1>8 DEF Promise!Succeed, Running

\* A step of the installer or of the platform is a step of the promise or none.
LEMMA StepAsPromised ==
    Inv /\ Inv' /\ PlanFollowed /\ [Next]_vars => [Promise!Next]_(Promise!vars)
<1> SUFFICES ASSUME Inv, Inv', PlanFollowed, [Next]_vars
             PROVE  Promise!Next \/ UNCHANGED Promise!vars
  OBVIOUS
<1>1. CASE StartStaging
  BY <1>1 DEF StartStaging, Promise!Next, Promise!Start, Promise!Nothing, Ended, Running
<1>2. CASE StagingSucceeds
  BY <1>2, SucceedsAsPromised DEF Promise!Next
<1>3. CASE CheckFails \/ Crash
  BY <1>3, FailsAsPromised DEF Promise!Next
<1>4. ASSUME pc \in Running, pc' \in Running, UNCHANGED <<manifest, saved>>
      PROVE  UNCHANGED Promise!vars
  BY <1>4 DEF Promise!vars, Running
<1>5. CASE FetchBundled \/ FetchBundledWrong \/ CopyFromCache \/ AskNetwork
         \/ DownloadRight \/ DownloadWrong
  BY <1>4, <1>5
     DEF FetchBundled, FetchBundledWrong, CopyFromCache, AskNetwork, DownloadRight,
         DownloadWrong, Running
<1>6. CASE DownloadRetried \/ CheckCopy \/ CheckDownload \/ CreateInCache \/ WriteInCache
  BY <1>4, <1>6 DEF DownloadRetried, CheckCopy, CheckDownload, CheckPasses, CreateInCache,
                    WriteInCache, Running
<1>7. CASE InstallDependency \/ CleanupFile \/ CleanupEnds
  BY <1>4, <1>7 DEF InstallDependency, CleanupFile, CleanupEnds, Running
<1>8. CASE UNCHANGED vars
  BY <1>8 DEF vars, Promise!vars
<1> QED
  BY <1>1, <1>2, <1>3, <1>5, <1>6, <1>7, <1>8 DEF Next, Progress, Trouble

(***************************************************************************)
(* The installer's stagings keep the promise of CachePromise: seen from    *)
(* outside each delivers a whole plan, every file as its release names it, *)
(* and leaves exactly these files in the cache, or it fails.               *)
(***************************************************************************)
THEOREM ImplementsPromise == Spec => KeepsPromise
<1>1. Init => Promise!Init
  BY DEF Init, Promise!Init, Promise!Nothing, Running
<1> QED
  BY <1>1, StepAsPromised, Invariance, FollowsPlan, PTL DEF Spec, KeepsPromise, Promise!Spec
=============================================================================
