------------------------------ MODULE Manifest ------------------------------
(***************************************************************************)
(* How a dependency is chosen (libbuildpack/manifest.go and the selection  *)
(* in installer.go): the buildpack's manifest, changed by the override.yml *)
(* files that earlier buildpacks of the chain left in their dependency     *)
(* directories, is asked for a version and then for the entry to install.  *)
(***************************************************************************)
EXTENDS Versions, Sequences, FiniteSets

CONSTANTS
    Name,         \* names of dependencies
    Stack,        \* names of stacks; NoStack: none is set
    NoStack,
    Sha256,       \* tells the entries of one version apart
    NoEntry,
    Scenarios     \* the manifests, override files and requests of a model

Default == [name : Name, version : Constraint]
Entry == [name : Name, version : Version, stacks : SUBSET Stack, sha256 : Sha256]
OverrideFile ==
    [language : {"python", "other"}, defaults : Seq(Default), entries : Seq(Entry)]
        \cup {Unreadable}

(***************************************************************************)
(* What is asked for: a version in the range of runtime.txt or             *)
(* Pipfile.lock, the default, or the only version there is.                *)
(***************************************************************************)
Scenario ==
    [stack : Stack,                   \* CF_STACK
     bpStack : Stack \cup {NoStack},  \* stack of the manifest, of a single-stack package
     defaults : Seq(Default), entries : Seq(Entry),
     overrides : Seq(OverrideFile),   \* deps/*/override.yml in the order of Glob
     name : Name,
     asks : {"range", "default", "only"}, range : Constraint]

ASSUME ScenariosAssumption == Scenarios \subseteq Scenario

VARIABLES
    pc,        \* the function about to run, "done" or "failed"
    scenario,  \* what is given; never changes
    defaults,  \* default_versions and
    entries,   \* dependencies of the manifest in memory
    file,      \* the override file that is read,
    line,      \* and the line of it: its defaults come before its entries
    version,   \* the version selected
    entry      \* the entry found for it

vars == <<pc, scenario, defaults, entries, file, line, version, entry>>

Init ==
    /\ pc = "CheckStackSupport"
    /\ scenario \in Scenarios
    /\ defaults = scenario.defaults
    /\ entries = scenario.entries
    /\ file = 1 /\ line = 1
    /\ version = NoVersion
    /\ entry = NoEntry

-----------------------------------------------------------------------------
\* A manifest with a stack of its own ignores the lists of its entries.
entrySupportsStack(e) ==
    IF scenario.bpStack # NoStack THEN scenario.bpStack = scenario.stack
                                  ELSE scenario.stack \in e.stacks

manifestSupportsStack ==
    \/ scenario.bpStack = NoStack /\ entries = <<>>
    \/ scenario.bpStack = scenario.stack
    \/ scenario.bpStack = NoStack /\ \E i \in DOMAIN entries : entrySupportsStack(entries[i])

CheckStackSupport ==
    /\ pc = "CheckStackSupport"
    /\ pc' = IF manifestSupportsStack THEN "ApplyOverride" ELSE "failed"
    /\ UNCHANGED <<scenario, defaults, entries, file, line, version, entry>>

\* Mistake: the first default stays.
keepDefaultVersion(ds, d) ==
    IF \E i \in DOMAIN ds : ds[i].name = d.name THEN ds ELSE Append(ds, d)

\* Mistake: an override's default joins the manifest's.
appendDefaultVersion(ds, d) == Append(ds, d)

replaceDefaultVersion(ds, d) ==
    IF \E i \in DOMAIN ds : ds[i].name = d.name
    THEN [i \in DOMAIN ds |-> IF ds[i].name = d.name THEN d ELSE ds[i]]
    ELSE Append(ds, d)

\* The loop finds the entry of that name and version, on whatever stack, and
\* assigns it to itself.
replaceManifestEntry(es, e) ==
    IF \E i \in DOMAIN es : es[i].name = e.name /\ es[i].version = e.version
    THEN es ELSE Append(es, e)

override == scenario.overrides[file]

ApplyingOverride == pc = "ApplyOverride" /\ file <= Len(scenario.overrides)

\* The lines of a file that count: those under the buildpack's own language.
Lines ==
    IF override.language = "python" THEN Len(override.defaults) + Len(override.entries) ELSE 0

LoadFails ==
    /\ ApplyingOverride /\ override = Unreadable
    /\ pc' = "failed"
    /\ UNCHANGED <<scenario, defaults, entries, file, line, version, entry>>

OverrideDefault ==
    /\ ApplyingOverride /\ override # Unreadable
    /\ line <= Lines /\ line <= Len(override.defaults)
    /\ defaults' = replaceDefaultVersion(defaults, override.defaults[line])
    /\ line' = line + 1
    /\ UNCHANGED <<pc, scenario, entries, file, version, entry>>

OverrideEntry ==
    /\ ApplyingOverride /\ override # Unreadable
    /\ line <= Lines /\ line > Len(override.defaults)
    /\ entries' = replaceManifestEntry(entries, override.entries[line - Len(override.defaults)])
    /\ line' = line + 1
    /\ UNCHANGED <<pc, scenario, defaults, file, version, entry>>

NextOverride ==
    /\ ApplyingOverride /\ override # Unreadable
    /\ line > Lines
    /\ file' = file + 1 /\ line' = 1
    /\ UNCHANGED <<pc, scenario, defaults, entries, version, entry>>

ApplyOverrideEnds ==
    /\ pc = "ApplyOverride" /\ file > Len(scenario.overrides)
    /\ pc' = "SelectVersion"
    /\ UNCHANGED <<scenario, defaults, entries, file, line, version, entry>>

-----------------------------------------------------------------------------
Offered(name) ==
    {i \in DOMAIN entries : entries[i].name = name /\ entrySupportsStack(entries[i])}

AllDependencyVersions(name) == {entries[i].version : i \in Offered(name)}

Select(v) ==
    /\ pc = "SelectVersion"
    /\ version' = v
    /\ pc' = IF v = NoVersion THEN "failed" ELSE "GetEntry"
    /\ UNCHANGED <<scenario, defaults, entries, file, line, entry>>

\* InstallPython for an app that names a version.
SelectRequested ==
    /\ scenario.asks = "range"
    /\ Select(FindMatchingVersion(scenario.range, AllDependencyVersions(scenario.name)))

\* None, or more than one, is an error.
DefaultVersion ==
    /\ scenario.asks = "default"
    /\ LET named == {i \in DOMAIN defaults : defaults[i].name = scenario.name}
           only == CHOOSE i \in named : TRUE
       IN  Select(IF Cardinality(named) # 1 THEN NoVersion
                  ELSE FindMatchingVersion(defaults[only].version,
                                           AllDependencyVersions(scenario.name)))

InstallOnlyVersion ==
    /\ scenario.asks = "only"
    /\ LET offered == Offered(scenario.name)
           only == CHOOSE i \in offered : TRUE
       IN  Select(IF Cardinality(offered) # 1 THEN NoVersion ELSE entries[only].version)

\* Mistake: the stack is not looked at again.
IsEntryOnAnyStack(e) == e.name = scenario.name /\ e.version = version

IsEntry(e) == e.name = scenario.name /\ e.version = version /\ entrySupportsStack(e)

\* The first entry that fits.
GetEntry ==
    /\ pc = "GetEntry"
    /\ LET found == {i \in DOMAIN entries : IsEntry(entries[i])}
           first == CHOOSE i \in found : \A j \in found : i <= j
       IN  IF found = {} THEN pc' = "failed" /\ UNCHANGED entry
                         ELSE pc' = "done" /\ entry' = entries[first]
    /\ UNCHANGED <<scenario, defaults, entries, file, line, version>>

Next ==
    \/ CheckStackSupport
    \/ LoadFails \/ OverrideDefault \/ OverrideEntry \/ NextOverride \/ ApplyOverrideEnds
    \/ SelectRequested \/ DefaultVersion \/ InstallOnlyVersion
    \/ GetEntry

Spec == Init /\ [][Next]_vars

-----------------------------------------------------------------------------
(* What the files say, without the order in which they are applied.        *)

Sections(s) ==
    {i \in DOMAIN s.overrides :
        s.overrides[i] # Unreadable /\ s.overrides[i].language = "python"}

\* The manifest and the override files, as sequences of entries and defaults.
EntriesOf(s, i) == IF i = 0 THEN s.entries ELSE s.overrides[i].entries
DefaultsOf(s, i) == IF i = 0 THEN s.defaults ELSE s.overrides[i].defaults

\* The places <<file, line>> where an entry of this name for the stack stands.
Mentions(s) ==
    UNION {{<<i, k>> : k \in {j \in DOMAIN EntriesOf(s, i) :
              /\ EntriesOf(s, i)[j].name = s.name
              /\ IF s.bpStack # NoStack THEN s.bpStack = s.stack
                 ELSE s.stack \in EntriesOf(s, i)[j].stacks}} : i \in {0} \cup Sections(s)}

At(s, m) == EntriesOf(s, m[1])[m[2]]
OfferedVersions(s) == {At(s, m).version : m \in Mentions(s)}

\* No file defines again a version that the manifest or another file has.
NothingRedefined(s) ==
    \A i \in Sections(s), j \in {0} \cup Sections(s) :
        \A k \in DOMAIN EntriesOf(s, i), l \in DOMAIN EntriesOf(s, j) :
            LET e == EntriesOf(s, i)[k]
                f == EntriesOf(s, j)[l]
            IN  e.name = s.name /\ f.name = s.name /\ e.version = f.version => <<i, k>> = <<j, l>>

\* The places where a default for this name stands.
DefaultPlaces(s) ==
    UNION {{<<i, k>> : k \in {j \in DOMAIN DefaultsOf(s, i) : DefaultsOf(s, i)[j].name = s.name}} :
              i \in {0} \cup Sections(s)}

NotAfter(m, n) == m[1] < n[1] \/ (m[1] = n[1] /\ m[2] <= n[2])

\* The default in the last of them, NoVersion without any.
EffectiveDefault(s) ==
    LET last == CHOOSE m \in DefaultPlaces(s) : \A n \in DefaultPlaces(s) : NotAfter(n, m)
    IN  IF DefaultPlaces(s) = {} THEN NoVersion ELSE DefaultsOf(s, last[1])[last[2]].version

\* By major, minor and patch number.
NotNewer(w, v) ==
    \/ w[1] < v[1]
    \/ w[1] = v[1] /\ w[2] < v[2]
    \/ w[1] = v[1] /\ w[2] = v[2] /\ w[3] <= v[3]

Newest(v, c, versions) ==
    /\ v \in versions /\ Matches(c, v)
    /\ \A w \in versions : Matches(c, w) => NotNewer(w, v)

-----------------------------------------------------------------------------
(***************************************************************************)
(* An app that asks for a range of versions gets the newest in it of all   *)
(* that the manifest and the override files offer on its stack, compared   *)
(* as numbers.                                                             *)
(***************************************************************************)
NewestSelected ==
    pc = "done" /\ NothingRedefined(scenario) /\ scenario.asks = "range"
        => Newest(version, scenario.range, OfferedVersions(scenario))

(***************************************************************************)
(* An app that asks for nothing gets the newest version in the range that  *)
(* the last override file with a default for python names, else the        *)
(* manifest; a file for another language counts for nothing.               *)
(***************************************************************************)
DefaultOverridden ==
    pc = "done" /\ NothingRedefined(scenario) /\ scenario.asks = "default"
        => Newest(version, EffectiveDefault(scenario), OfferedVersions(scenario))

(***************************************************************************)
(* What is installed is built for the stack of the app, also when the      *)
(* manifest has one version for several stacks.                            *)
(***************************************************************************)
EntryFitsStack ==
    pc = "done" /\ scenario.bpStack = NoStack =>
        /\ scenario.stack \in entry.stacks
        /\ entry.name = scenario.name /\ entry.version = version

(***************************************************************************)
(* Selection fails only for a reason the inputs show: a stack without      *)
(* entries, an override file that cannot be read, a range nothing is       *)
(* offered in, no default or two of them, a dependency that must have one  *)
(* version and has several.  A version once selected is always found.      *)
(***************************************************************************)
FailsForAReason ==
    pc = "failed" /\ NothingRedefined(scenario) =>
        \/ IF scenario.bpStack # NoStack THEN scenario.bpStack # scenario.stack
           ELSE \A i \in DOMAIN scenario.entries :
                   scenario.stack \notin scenario.entries[i].stacks
        \/ \E i \in DOMAIN scenario.overrides : scenario.overrides[i] = Unreadable
        \/ /\ scenario.asks = "only"
           /\ Cardinality(Mentions(scenario)) # 1
        \/ /\ scenario.asks = "default"
           /\ \/ Cardinality({i \in DOMAIN scenario.defaults :
                               scenario.defaults[i].name = scenario.name}) > 1
              \/ EffectiveDefault(scenario) = NoVersion
              \/ \A v \in OfferedVersions(scenario) : ~Matches(EffectiveDefault(scenario), v)
        \/ /\ scenario.asks = "range"
           /\ \A v \in OfferedVersions(scenario) : ~Matches(scenario.range, v)

-----------------------------------------------------------------------------
(***************************************************************************)
(* An override.yml overrides the manifest (CHANGELOG:1831, and             *)
(* integration/override_test.go:35 "installs python from override          *)
(* buildpack"): the entry used comes from the last file that has one for   *)
(* the version and the stack.  The code keeps the first.                   *)
(***************************************************************************)
OverrideTakesEffect ==
    pc = "done" =>
        \E m \in Mentions(scenario) :
            /\ entry = At(scenario, m)
            /\ \A n \in Mentions(scenario) : At(scenario, n).version = version => n[1] <= m[1]
=============================================================================
