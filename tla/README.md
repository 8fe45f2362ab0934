# A model of the staging of a Python app

TLA+ modules, TLC runs and TLAPS proofs for the Cloud Foundry Python buildpack. Paths are those of
the repository; `libbuildpack/` stands for `vendor/github.com/cloudfoundry/libbuildpack/`.

## 1. The system

A staging turns the source of an app into a droplet. The platform runs `bin/detect`, then
`bin/supply` (`src/python/supply/cli/main.go`), then `bin/finalize`
(`src/python/finalize/cli/main.go`) in one container, one after the other; with several buildpacks,
the supply of each and the finalize of the last. Nothing runs concurrently. What makes the program
hard is that its parts talk to each other through the file system and the environment: nearly every
step starts with "does this file exist?" or "is this variable set?", and the file may come from the
app, from a hook, or from an earlier step which may have written, extended or removed it. Any step
may fail, and then the container goes; the one thing that survives is the cache directory.

| component | state | operations | correct when |
|---|---|---|---|
| Hooks (`hooks/appdynamics.go`, `hooks_app.go`, `sealights.go`) | requirements.txt, Procfile, profile scripts | `BeforeCompile`, in the order of registration; `AfterCompile` | each bound agent is installed and wraps the app's command; nothing else of the app changes |
| Supplier (`supply/supply.go`) | `removeRequirementsText`, `HasNltkData`, `PythonVersion`; the build and the dependency directory; the environment | the 15 steps of `RunPython` | what the app declares is installed, by the interpreter it asks for, with the native libraries it needs; the app's files are given back |
| Conda (`conda/conda.go`) | `deps/<index>/conda` | install, update, profile script | it is the only runtime of the droplet |
| Requirements (`requirements/requirements.go`) | none | `FindAnyPackage`, `FindStalePackages` | follows included files as pip does |
| Finalizer (`finalize/finalize.go`) | static files, `.pth` files, profile scripts | `HandleCollectstatic`, `Replace...` | Django's static files are there; no staging path survives |
| Installer (`libbuildpack/installer.go`, parts of `manifest.go`, `util.go`) | `filesInAppCache`, the cache directory | `FetchDependency`, `CleanupAppCache` | only verified files are installed; the cache neither grows nor poisons |
| Stager (`libbuildpack/stager.go`) | env files, profile.d, links, `config.yml` | `SetStagingEnvironment`, `SetLaunchEnvironment`, `LinkDirectoryInDepDir`, ... | later steps and buildpacks find what earlier ones wrote |
| Manifest, versions (`libbuildpack/manifest.go`, `versions.go`) | entries, defaults | `ApplyOverride`, `DefaultVersion`, `FindMatchingVersion` | overrides take effect; the newest match is chosen |

Dynatrace and debug hooks, detect and release scripts, the snapshot and logging packages, tests and
packaging scripts carry no logic that these properties depend on; `PROJECT.json` lists each with its
reason.

Hard behaviour: who created the requirements.txt a step sees; the order of the hooks and of the
steps; two steps that install the same library; values computed before what they describe exists
(search paths) or used after it is gone (requirements.txt in finalize); a failure at every step, and
the cache of a failed staging; retries and wrong downloads; files left over by an older release;
buildpacks that set the same variables and write the same scripts; override files that change a
manifest one after the other. `PROJECT.json` lists the hazards one by one, with the line and the
properties aimed at them.

## 2. The modules

`Staging` is one staging by this buildpack; `AppCache` is many stagings, seen from the dependency
cache; `Manifest` is the choice of one dependency; `BuildpackChain` is one staging by several
buildpacks and the launch, seen from the environment. They share no state: `Staging` takes the
choice of a version as a constant function, and an installation as a step.

```
Requirements <- PushedApp <- StagingState <- Hooks, Supply, Conda, Finalize <- Staging <- MCStaging
                    ^                                                             |
                    +------------ StagingPromise <-------- implements ------------+
Staging <- StagingTypeProofs <- StagingProofs        <- StagingFilesProofs
                             <- StagingRuntimeProofs
           StagingProofs, StagingRuntimeProofs       <- StagingPromiseProofs

CacheReleases <- AppCache <- MCAppCache, AppCacheProofs
      ^              |
      +- CachePromise <- implements

Versions <- Manifest <- MCManifest, ManifestProofs
         <- ConstraintText <- MCStaging (its constant functions)
BuildpackChain <- MCBuildpackChain, BuildpackChainProofs
```

- **Requirements**: a tree of requirements files, each a set of package names and a set of included
  files; `Reach` is what the recursion of `parseRequirements` opens (stated as a least set, without
  recursion, so that theorems can be about it), `Diverges` a cycle, which makes the code recurse
  without end, `Parses` an error-free parse. `FindAnyPackage` takes a missing requirements.txt for
  an empty one (`Readable`). `WithFile`, `WithPackage` and `WithoutFile` are the three ways staging
  changes the file.
- **PushedApp**: the constants, the app as pushed, and what it asks for (`Declared`,
  `RequestedPython`, `BoundAgents`), said without reference to how staging goes about it.
- **StagingState**: the state. `app` is the pushed app and never changes; `build` is what staging
  changes of the build directory; `dep` is `deps/<index>`; `proc` is the environment and the fields
  of the running process; `net` records the commands that went to a package index; `pc` names the
  function that runs next. `Init` starts with any app of `Apps` and an empty dependency directory.
  `Fail` is an error return of any step.
- **Hooks**, **Supply**, **Conda**, **Finalize**: one action per hook and per step of `RunPython`,
  `conda.Run`, `finalize.Run` and the main programs, named like the function. Where a function has
  early returns the cases are actions of their own (`InstallPipEnvSkipped`, `PipfileToRequirements`,
  `PipenvLock`). A case in which the code must return an error has no action of its own: only `Fail`
  is enabled. `CondaProfile` goes on whether or not conda's commands could be linked (`condaBin`), as
  `conda.go:62` does not look at the result.
- **Staging** composes them and states the properties.
- **StagingPromise**: the abstract specification of a staging. An app is rejected, and there is no
  droplet, or it becomes, in one step, a droplet that `Honours` what it asked for: one runtime, the
  packages owed and no others but build tools, the Procfile under its agents, the launch scripts.
  `Staging!Promise` instantiates it with `droplet <- IF Staged THEN Droplet ELSE Absent`; every step
  but the last and a failure is a stutter. What is owed with an agent bound, or after a
  bin/pre_compile, is what the code does: `StagingPromise` says so (`Owed`, `InstalledAgents`).
- **AppCache**: `StartStaging` picks a release of the buildpack (a manifest) and a plan of
  dependencies, and gets the directory the platform kept. Then one action per file operation of
  `FetchDependency`: the copy of a file that the buildpack brings (`FetchBundled`, and
  `FetchBundledWrong` when it is not the one the manifest names), the copy from the cache, the
  download (right, wrong, cut short and tried again), the checksum of each, the two halves of the
  copy into the cache, extraction; the clean-up, file by file; the end. `Crash` can happen anywhere. A file is its content and a checksum compares contents; `Broken`
  is any file that was not written to its end.
- **CacheReleases**, **CachePromise**: what a release is, and the abstract specification of the
  cache: a staging starts, and in one step succeeds, having installed each dependency of a plan from
  the file its release names and left a cache of exactly those files, or fails. `AppCache!Promise`
  maps the directory the platform would keep, and what was installed so far, to it once a staging
  has ended.
- **Versions**, **Manifest**: versions as three numbers, constraints as the numbers they fix, the
  order `LT` and the selection (of what matches, the version that is last in that order; the sorted
  list itself is used for nothing else). `Manifest` starts from a scenario (manifest, override
  files, stack, request). The stack is checked; then `ApplyOverride`'s loops run, a pass at a step:
  `file` and `line` say where they are, `OverrideDefault` and `OverrideEntry` apply one line,
  `NextOverride` goes to the next file (at once for another language), `LoadFails` is a file that
  cannot be read. Then a version is chosen (`SelectRequested`, `DefaultVersion`,
  `InstallOnlyVersion`) and `GetEntry` finds its entry, the first that fits. Lists in which the code
  counts or searches stay lists of indices, so that an entry that is there twice counts twice.
- **ConstraintText**: what `formatVersion` makes of the version in a Pipfile.lock, and which numbers
  the two vendored libraries that are tried in turn (`blang/semver`, `Masterminds/semver`) read in
  such a text, given by its parts: `3.9.x` leaves the patch open, `3.9` is 3.9.0 and no other, and
  `.x`, from a lock that names no python, is refused by both.
- **BuildpackChain**: `MakeDepDirs`, `SetStagingEnvironment`, `Supply` for each buildpack in a
  process of its own (`NextProcess` gives each the user's environment), `Finalize` and
  `SetLaunchEnvironment` for the last, then the container: `Launch` is `000_multi-supply.sh`,
  `SourceScript` any profile script in the order of the indices (in any order within one index). A
  variable is the sequence of indices whose directories it names. What supply does inside is
  `Staging`'s subject; here it is what it leaves behind for others. Other buildpacks, and the
  platform, are external.

Operators named in a comment "Mistake: ..." are not part of the model. Each is a definition as a
plausible bug would have it; `PROJECT.json` says which definition it stands in for and which
property then fails.

### Abstractions

Package names are opaque (pip's normalisation of names and versions is not modelled), and so are the
texts of commands, scripts and credentials. `FindMatchingVersion` and `formatVersion` are the
constants `MatchingPython` and `FormattedVersion` of `Staging`: total functions, the former possibly
without a result, and the theorems hold whatever else they are. In the runs they are computed by
`Versions` and `ConstraintText`. pip installs what the file it
is given reaches and may leave `.pth` files with staging paths (`Installed`, external);
bin/pre_compile may write its own requirements.txt, bin/post_compile is taken to leave alone what
staging rewrites. `dep.site` covers packages and their scripts at once. In `Staging` this buildpack
stages the app alone. An index option is known by its file and by what follows it, white space or
`=`.

## 3. What the runs check

| run | apps / constants | shows |
|---|---|---|
| `python_apps` | `PythonApps`: no services; requirements files plain, nested, with a missing or circular include; indexes; vendor directories; every combination of requirements.txt, setup.py, Pipfile, Pipfile.lock, runtime.txt; pre_compile, pip version, DISABLE_COLLECTSTATIC | `DeclaredInstalled`, `NativeLibrariesReady`, `LibffiOnce`, `BuildDirRestored`, `ScriptsUsable`, `PythonAsRequested`, `LockNamesPython`, `OfflineWhenVendored`, `CollectstaticRan`, `NltkDataAnnounced`, `WellFormedNeverRejected`, `KeepsPromise`, `TypeOK` |
| `agent_apps` | `AgentApps`: either agent or both, five Procfiles, Python and conda | `AgentsInstalled`, `AgentsRunFirstProcess`, `LaunchesOneRuntime`, and again `DeclaredInstalled`, `WellFormedNeverRejected`, `KeepsPromise` |
| `dropped_cache` | three releases, plans of up to three installations, the cache of a failed staging is dropped | `CacheExact`, `RestageOffline`, `Recovers`, `KeepsPromise`, `TypeOK` |
| `kept_cache` | also a release that changes the file behind a URI; the cache of a failed staging is kept | `Verified`, `CacheExact`, `CacheTrusted`, `KeepsPromise` |
| `manifest` | manifests for two stacks and for one, up to two of seven override files, every kind of request | `NewestSelected`, `DefaultOverridden`, `EntryFitsStack`, `FailsForAReason` |
| `buildpack_chain` | Python or conda with none, one or both of two other buildpacks, in every order | `PythonFindsItsHome`, `SearchOrderKept`, `VariablesAgree`, `EveryScriptSourced`, `PathFilesResolve`, `TypeOK` |
| `override` | as `manifest` | a disagreement, below |
| `vendored_index` | `RequirementsApps` | a disagreement, below |
| `supplied_packages` | as `buildpack_chain` | a disagreement, below |
| `pipenv_with_agent`, `pipenv_django`, `pipenv_vendored` | `PipenvApps` | three disagreements, below |

`WellFormedNeverRejected` deserves a word. `WellFormed` says, about the pushed app alone, what the
buildpack may object to (a Procfile without a colon with an agent bound, an unreadable requirements
file, no matching interpreter, Django without manage.py, an incomplete vendor directory, a bad
BP_PIP_VERSION). The property says that the staging of a well-formed app comes to its end, with a
droplet or by a failing command: no combination of files written by hooks and steps leads to a step
that can do nothing but return an error, or back to an earlier one.

`NewestSelected`, `DefaultOverridden` and `FailsForAReason` compare what the code makes of the
manifest in memory, line by line, with what the files say taken together: the newest of all versions
that any file offers for the stack, the last default, and the reasons to fail. They are restricted
to scenarios in which no file defines again a version, of the dependency asked for, that another one
or the manifest has (`NothingRedefined`, four in five of the scenarios of the run), since `override`
shows what happens otherwise; `EntryFitsStack` holds in those too.

`PythonFindsItsHome` relates `PATH`, which comes from the order of directories, to `PYTHONHOME`,
which comes from an env file at staging and from a script at launch: an interpreter with the home of
another does not start. It leaves out chains in which a later buildpack brings its own python. Like
`SearchOrderKept` and `VariablesAgree` it speaks of a variable that no other buildpack replaces with
an env file (`LeftAlone`): such a file takes the place of the whole value in staging, and at launch
only a script of that buildpack could do the same.

The restrictions in the properties are facts about the code, found by checking the properties
without them: `DeclaredInstalled` excludes apps with an agent and no requirements.txt,
`AgentsInstalled` excludes AppDynamics with a pre_compile that rewrites requirements.txt,
`OfflineWhenVendored` excludes options in a file that requirements.txt includes (`supply.go:707`
strips requirements.txt alone, pip reads both and goes to the index), and `CacheTrusted` and `CacheExact` speak of successful stagings only.

### Disagreements between code and documentation

- `pipenv_with_agent`: for a pipenv app without requirements.txt the agent's hook creates one with
  its own package; `InstallPipEnv` then returns early and nothing of Pipfile.lock is installed,
  against `src/python/integration/pipenv_test.go:36` and `:47`.
- `pipenv_django`: supply removes the requirements.txt it generated, finalize looks for Django in
  requirements.txt: collectstatic silently does not run for a pipenv app, against
  `src/python/finalize/finalize_test.go:88` and `:94`, where the contents are mocked.
- `pipenv_vendored`: without a Pipfile.lock `pipenv lock` goes to the package index although the
  vendor directory is complete, against `CHANGELOG:1645`.
- `override`: `replaceManifestEntry` (`libbuildpack/manifest.go:97`) assigns the old entry to
  itself; an override of a version that the manifest has is lost, against `CHANGELOG:1831`. The
  integration test overrides with a version the manifest does not have.
- `vendored_index`: `supply.go:706` strips `--index-url <url>` and leaves `--index-url=<url>`,
  against the comment at `supply.go:698`.
- `supplied_packages`: `.pth` files are made relocatable in finalize (`finalize.go:128` and `:157`),
  which is not run when another buildpack comes after this one, against `CHANGELOG:2022` and
  `CHANGELOG:1963`. Conda is not affected: its script rewrites its own files.

### Bounds

`MCStaging` bounds the data, not the behaviour: a staging is a finite sequence of steps and all of
its interleavings with failure are explored. Two requirements files are enough for a missing, a
nested and a circular include; the eight packages are one of each kind the code distinguishes; the
buildpack offers three versions; the requests are a line (`3.9.x`), a version without its patch
(`3.9`, read as 3.9.0), a version (`3.9.0`), one that matches nothing (`2.7`) and the text of a lock
without a version (`.x`). What each selects is computed, not assumed: `LockNamesPython` says that the
python of a lock is honoured as far as it goes and that `.x` never selects one. The deadlock check is off since a staging ends. `MCManifest`
has two stacks with entries and one without, versions whose order as numbers and as text differ, and
two override files at most: the second meets what the first left (the proofs cover any number of
them).
`MCBuildpackChain` has chains of up to three; the two other buildpacks are one of each kind (a
python of its own; a variable and a script name shared with this one), and the proofs cover chains
of any length. `MCAppCache` has two dependencies, three URIs (one that only an older release uses),
four contents and plans that ask for one file twice. The number of stagings is not bounded. A larger
instance has more of the same kind of file: a file in use, one no longer in use, a broken one, a
changed one.

### Fairness

`Staging` assumes `WF_vars(Work)`: every command that was started ends, well or badly; a step need
not fail, so `Fail` is not fair. The code starts one command at a time and waits for it. `AppCache`
assumes `WF_vars(Next)`: the platform stages the app again some day and no file operation hangs for
ever. Weak fairness of the whole next-state relation lets every single step crash or be retried for
ever; `Recovers` therefore says only what happens once crashes, wrong and failed downloads and
damaged bundled files (`Trouble`) have stopped. The retries in `downloadFile` end by a time limit, which is one of the
cases of `Crash`. `Recovers` holds when the cache of a failed staging is dropped and URIs keep their
content; with a kept cache it fails, because `deleteBadFile` deletes the copy and never the file in
the cache.

## 4. What is proved

All theorems hold for every value of the constants that satisfies the named assumptions. They say
that constants are of the kind their comments describe, and TLC evaluates them on every run. Three
say more. `AbsentIsNoValue`: "there is no such file" is told from every content, the empty one
included. `ChainsAssumption`: this buildpack is in a chain once. `OtherAssumption`: another buildpack
that writes an env file has a profile script too, as `OtherSh` says what such a script does with the
variable.

Every property of the passing runs is proved, but for the two liveness properties and
`LockNamesPython`, which is about the constant functions of the runs.

**Staging.** `StagingTypeProofs` has `StagingTypes` (`Spec => []TypeOK`) and the lemmas all other
proofs lean on: `Flow` and `Route` (which step follows which, and that Python's and conda's never
mix), and one frame lemma per group of variables (which steps can touch the requirements files, the
Procfile, site-packages, ...), so that a preservation proof is about the two or three steps that
matter. It starts with what the operators on requirements files do, through included files: a file that is written names what was written (`PackagesWithFile`), appending a package loses
none (`PackagesWithPackage`). The properties speak of the last state, so none is inductive; each
invariant follows a fact through the places that hold it.

| theorem | property | the invariant, and why it is needed |
|---|---|---|
| `DeclaredAreInstalled`, `AgentsAreInstalled` | `DeclaredInstalled`, `AgentsInstalled` | `RequirementsInv`: at each step exactly what the app is owed (`Promise!Owed`) is in the app's own files, then in requirements.txt, or still in the Pipfile, the lock or setup.py that a later step will turn into one. `SiteInv`: site-packages have no package, then perhaps tools, then all that is owed and nothing else |
| `LibrariesAreReady`, `LibffiIsInstalledOnce` | `NativeLibrariesReady`, `LibffiOnce` | `LibrariesInv`: LIBFFI in the environment means one installation; the search paths hold the directories that existed; what requirements.txt names has its library once `HandlePylibmc` and `HandleFfi` have run |
| `PythonIsRequested` | `PythonAsRequested` | `VersionOnItsWay`: the version asked for is in runtime.txt, then in `deps/<index>/runtime.txt`, then in the interpreter |
| `NltkDataIsAnnounced` | `NltkDataAnnounced` | `NltkOnItsWay`: the field `HasNltkData` says what was downloaded while the supply process lives, the env file and the script from then on |
| `BuildDirIsRestored` | `BuildDirRestored` | `RestoredInv`: `removeRequirementsText` is true exactly when requirements.txt was generated, and without it the files are the app's |
| `ScriptsAreUsable` | `ScriptsUsable` | `ScriptsInv`: what is installed is linked at every step, and portable from `RewriteShebangs` on |
| `VendoredStaysOffline` | `OfflineWhenVendored` | `OfflineInv`: of a vendored app only options that the stripping recognises are ever in a file, generated ones included |
| `CollectstaticHasRun` | `CollectstaticRan` | `CollectstaticInv`: the requirements finalize reads are those of the app, and the environment of finalize has what supply's env files say |
| `AgentsWrapFirstProcess` | `AgentsRunFirstProcess` | `ProcfileInv`: the Procfile after each hook, as the app's under the agents so far |
| `OneRuntimeIsLaunched` | `LaunchesOneRuntime` | `RuntimeInv`, `LaunchInv`: which interpreter, which path files and which scripts there are at each step |

`StagingKeepsPromise` (`Spec => KeepsPromise`) is the refinement: `Staging` implements
`StagingPromise`. Initial states map to initial states; a step that neither fails nor comes to
`done` changes no variable of the promise; a failure is `Reject`; and the last step is `Stage`
because the droplet then `Honours` the app, which is where all invariants above meet
(`DropletHonours`): `SiteInv` for the packages owed and no others, `ProcfileInv` for the processes,
`RuntimeInv`, `LaunchInv` and `CorporaInv` for the runtime, the scripts and NLTK's data.

The proofs found one property too strong for apps the runs did not have: `AgentsRunFirstProcess`
was false for a Procfile whose first process is already under an agent. It now says that the agents
go outside those (`Wrappers`), and `agent_apps` has such a Procfile.

**AppCache.** `CacheTypes`, `InstallsVerified`, `KeepsExactly`, `KeepsTrusted`, `RestagesOffline`
(the properties `TypeOK`, `Verified`, `CacheExact`, `CacheTrusted`, `RestageOffline`) from one
invariant `Inv`: a staging between fetch and install has something to install (`HasEntry`); the
archive is checked when it is saved or extracted (`OutputChecked`); the entry being saved is in the
cache (`EntryInCache`); what is noted as used is what was installed and what is being installed
(`FilesNoted`), is in the cache with the right content (`UsedInCache`), and is all there is after the
clean-up (`CleanedUp`); the kept directory holds what the last success used (`LastUsedKept`).
`ImplementsPromise` (`Spec => KeepsPromise`): each step maps to a stutter but the start of a staging,
its success and a failure; the success is the case that needs the invariant.

**BuildpackChain.** For chains of any length of any buildpacks:

- `ScriptsSourced` (`EveryScriptSourced`) and `PathsResolve` (`PathFilesResolve`) from `Inv`: which
  scripts and path files each buildpack has left at each phase; the profile directory has a file of
  its own for every script; a literal is never without the script that fills it in.
- `ChainTypes` (`TypeOK`), `SearchOrder` (`SearchOrderKept`), `VariablesSettle` (`VariablesAgree`)
  and `PythonIsFound` (`PythonFindsItsHome`). `Contents` says what each dependency directory holds,
  by where the chain is; from it `DirsSoFar` and `WritersSoFar` compute what the stager finds.
  `Environments` gives the value of each variable at each step: in staging (`StagingEnviron`), as
  finalize saw it (`BuiltEnviron`), and in the container (`LaunchEnviron`), where it depends on the
  scripts sourced so far. The argument for `LANG` is that the lowest index wins twice, for opposite
  reasons: its env file is read last and replaces the others, its script is sourced first and those
  after it keep a value that is set (`FirstToSetLang`). `PythonIsFound` follows because what comes
  before this buildpack's directory on `PATH` has a higher index (`DescendingTo`).

**Manifest.** For any manifest, any number of override files of any length, and any request:
`NewestIsSelected` (`NewestSelected`), `DefaultIsOverridden` (`DefaultOverridden`),
`EntryIsForStack` (`EntryFitsStack`) and `FailuresHaveReasons` (`FailsForAReason`), from one
invariant `Inv`. The properties compare the result with the files taken together, so the invariant
says what memory holds in the middle of the loops:

- `EntriesKept`: the manifest's entries come first and unchanged; every other entry is a line that
  was read (`EntryRead`) and is the only one of its name and version; and when nothing is
  redefined, every line that was read for the dependency asked for is there.
- `DefaultsKept`: either no line that was read has a default for the name and the manifest's are
  untouched (`DefaultUntouched`), or all defaults for the name are the last such line
  (`DefaultReplaced`); where the manifest has one default at most, there is never a second.
- `Selected`: the version is that of an entry that is still there, and the right one.

When all files are read (`AllRead`), the versions offered are those of the files (`SameVersions`), the
one default is the last of theirs (`DefaultIsEffective`), and an entry that stands in one place is
one entry (`OnlyOne`); so each way to select gives the right answer or has a reason to fail
(`Answers`). That a newest version exists among those that match is an induction over the list;
`NewestIs` has it from the well-foundedness of the naturals: take the shortest beginning of the list
without one.

The invariants were checked by TLC as invariants of the runs before they were proved; those of
`BuildpackChain` also with other choices of the env files of other buildpacks, which is how the
conditions `LeftAlone` were found.

Only model-checked: `Recovers` and `WellFormedNeverRejected`, liveness under fairness, which is out
of the prover's reach, and `LockNamesPython`: `Staging` takes the functions it is about as constants
of which it assumes nothing but their type.

## 5. Not modelled

- Single links below `deps/<index>` (`LinkDirectoryInDepDir`, `AddBinDependencyLink`,
  `RewriteShebangs` on a broken link): an installation links all scripts or fails, conda's apart
  (`CondaProfile`). Errors that the code ignores when it links libffi's directories.
- `FindStalePackages` and the body of `UninstallUnusedDependencies`: they need a
  `requirements-declared.txt` in the dependency directory. No step writes one, and `os.Mkdir` in the
  main program (`supply/cli/main.go:61`) fails on a dependency directory that is not new, so no run
  of this code reaches them.
- Which service's credentials the agents' hooks write when several match; flags and scripts of the
  agents. Dynatrace's hook is a third-party library; the debug hooks print a line.
- pip's own behaviour: normalisation of names, lines that `parseRequirements` does not recognise,
  its cache. Pre-release versions and constraints with operators.
- Several buildpacks when one fails (the platform discards the container), `CPATH` and
  `PKG_CONFIG_PATH`, and variables that a later buildpack finds replaced by an env file (modelled,
  but nothing says what it may rely on).
- Detect and release scripts, logging, snapshots, packaging, tests: no state of the staging.

## 6. Plan

1. **DepLinks**: `LinkDirectoryInDepDir` and `RewriteShebangs` on single links (an existing link, a
   directory in the way, a broken target, ignored errors). Properties: a link names what the last
   installation provided; no script is lost.
2. **Composition**: `AppCache` and `Manifest` under the steps of `Supply` that install, with the
   bundled and the downloaded dependencies of a real manifest.
