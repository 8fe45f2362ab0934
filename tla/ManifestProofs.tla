--------------------------- MODULE ManifestProofs ---------------------------
(***************************************************************************)
(* The choice of a dependency, for any manifest, any number of override    *)
(* files of any length, and any request.                                   *)
(***************************************************************************)
EXTENDS Manifest, FiniteSetTheorems, FunctionTheorems, WellFoundedInduction, TLAPS

\* The lines of the sections that have been read, as <<file, line>>.
DefaultRead(i, k) ==
    /\ i \in Sections(scenario) /\ k \in DOMAIN DefaultsOf(scenario, i)
    /\ i < file \/ (i = file /\ k < line)

EntryRead(i, k) ==
    /\ i \in Sections(scenario) /\ k \in DOMAIN EntriesOf(scenario, i)
    /\ i < file \/ (i = file /\ Len(DefaultsOf(scenario, i)) + k < line)

Typed ==
    /\ pc \in {"CheckStackSupport", "ApplyOverride", "SelectVersion", "GetEntry", "done", "failed"}
    /\ scenario \in Scenario
    /\ defaults \in Seq(Default) /\ entries \in Seq(Entry)
    /\ file \in Nat \ {0} /\ line \in Nat \ {0}
    /\ version \in Version \cup {NoVersion}
    /\ pc = "CheckStackSupport" => entries = scenario.entries
    /\ pc \in {"SelectVersion", "GetEntry", "done"} => file > Len(scenario.overrides)

Base == DOMAIN scenario.entries

\* The entries are the manifest's, then lines that were read, each name and
\* version once.  A line is left out only where the version was there already:
\* of the name asked for none, when nothing is redefined.
EntriesKept ==
    /\ Len(scenario.entries) <= Len(entries)
    /\ \A a \in Base : entries[a] = scenario.entries[a]
    /\ \A a \in DOMAIN entries \ Base : \E i, k \in Nat :
          EntryRead(i, k) /\ entries[a] = EntriesOf(scenario, i)[k]
    /\ \A a \in DOMAIN entries \ Base, b \in DOMAIN entries :
          entries[a].name = entries[b].name /\ entries[a].version = entries[b].version => a = b
    /\ NothingRedefined(scenario) =>
          \A i, k \in Nat :
              EntryRead(i, k) /\ EntriesOf(scenario, i)[k].name = scenario.name =>
                  \E a \in DOMAIN entries \ Base : entries[a] = EntriesOf(scenario, i)[k]

Named(ds) == {a \in DOMAIN ds : ds[a].name = scenario.name}

\* No line that was read has a default for the name: it is still the manifest's.
DefaultUntouched ==
    /\ \A i, k \in Nat : DefaultRead(i, k) => DefaultsOf(scenario, i)[k].name # scenario.name
    /\ Named(defaults) = Named(scenario.defaults)
    /\ \A a \in Named(defaults) : defaults[a] = scenario.defaults[a]

\* The last line read that has one took the place of every other.
DefaultReplaced ==
    \E i, k \in Nat :
        /\ DefaultRead(i, k) /\ DefaultsOf(scenario, i)[k].name = scenario.name
        /\ \A j, l \in Nat :
              DefaultRead(j, l) /\ DefaultsOf(scenario, j)[l].name = scenario.name
                  => NotAfter(<<j, l>>, <<i, k>>)
        /\ Named(defaults) # {}
        /\ \A a \in Named(defaults) : defaults[a] = DefaultsOf(scenario, i)[k]

DefaultsKept ==
    /\ DefaultUntouched \/ DefaultReplaced
    /\ (\A a, b \in Named(scenario.defaults) : a = b) => \A a, b \in Named(defaults) : a = b

Selected ==
    pc \in {"GetEntry", "done"} =>
        /\ \E a \in Offered(scenario.name) : entries[a].version = version
        /\ NothingRedefined(scenario) /\ scenario.asks = "range"
               => Newest(version, scenario.range, OfferedVersions(scenario))
        /\ NothingRedefined(scenario) /\ scenario.asks = "default"
               => Newest(version, EffectiveDefault(scenario), OfferedVersions(scenario))

Inv ==
    /\ Typed /\ EntriesKept /\ DefaultsKept
    /\ Selected /\ EntryFitsStack /\ FailsForAReason

-----------------------------------------------------------------------------
(* The order on versions.                                                  *)

\* By the first of the three numbers that differs.
LEMMA ByNumbers ==
    ASSUME NEW v \in Version, NEW w \in Version
    PROVE  /\ LT(v, w) <=> \/ v[1] < w[1]
                           \/ v[1] = w[1] /\ v[2] < w[2]
                           \/ v[1] = w[1] /\ v[2] = w[2] /\ v[3] < w[3]
           /\ v[1] \in Nat /\ v[2] \in Nat /\ v[3] \in Nat
           /\ v = w <=> v[1] = w[1] /\ v[2] = w[2] /\ v[3] = w[3]
<1>1. v[1] \in Nat /\ v[2] \in Nat /\ v[3] \in Nat
  <2>1. v[1] \in Number /\ v[2] \in Number /\ v[3] \in Number
    BY DEF Version
  <2> QED
    BY <2>1, NumberAssumption
<1>2. \A i : i \in 1 .. 3 <=> i = 1 \/ i = 2 \/ i = 3
  OBVIOUS
<1>3. \A i \in 1 .. 3 : \A j : j \in 1 .. i - 1 <=> (j = 1 /\ i # 1) \/ (j = 2 /\ i = 3)
  OBVIOUS
<1>4. LT(v, w) <=> \/ v[1] < w[1]
                   \/ v[1] = w[1] /\ v[2] < w[2]
                   \/ v[1] = w[1] /\ v[2] = w[2] /\ v[3] < w[3]
  BY <1>2, <1>3 DEF LT
<1>5. v = w <=> v[1] = w[1] /\ v[2] = w[2] /\ v[3] = w[3]
  BY <1>2 DEF Version
<1> QED
  BY <1>1, <1>4, <1>5

\* The order is total and transitive, and NotNewer says the same.
LEMMA TotalOrder ==
    ASSUME NEW u \in Version, NEW v \in Version, NEW w \in Version
    PROVE  /\ v = w \/ LT(v, w) \/ LT(w, v)
           /\ LT(u, v) /\ LT(v, w) => LT(u, w)
           /\ v = w \/ LT(w, v) => NotNewer(w, v)
<1>1. v = w \/ LT(v, w) \/ LT(w, v)
  BY ByNumbers
<1>2. LT(u, v) /\ LT(v, w) => LT(u, w)
  BY ByNumbers
<1>3. v = w \/ LT(w, v) => NotNewer(w, v)
  BY ByNumbers DEF NotNewer
<1> QED
  BY <1>1, <1>2, <1>3

\* A set of naturals that is not empty has a least element.
LEMMA LeastIs ==
    ASSUME NEW S \in SUBSET Nat, S # {}
    PROVE  \E i \in S : \A j \in S : i <= j
<1>1. PICK i \in S : \A j \in S : <<j, i>> \notin OpToRel(<, Nat)
  BY WFMin, NatLessThanWellFounded
<1>2. ASSUME NEW j \in S PROVE i <= j
  <2>1. i \in Nat /\ j \in Nat
    OBVIOUS
  <2>2. <<j, i>> \in Nat \X Nat /\ ~(<<j, i>>[1] < <<j, i>>[2])
    BY <1>1, <2>1 DEF OpToRel
  <2> QED
    BY <2>1, <2>2
<1> QED
  BY <1>2

\* Among finitely many versions one is the newest.
LEMMA NewestIs ==
    ASSUME NEW n \in Nat, NEW f \in [1 .. n -> Version], NEW S \in SUBSET (1 .. n), S # {}
    PROVE  \E i \in S : \A j \in S : f[j] = f[i] \/ LT(f[j], f[i])
<1> DEFINE Top(k) == \E i \in S \cap 1 .. k :
               \A j \in S \cap 1 .. k : f[j] = f[i] \/ LT(f[j], f[i])
           Bad == {k \in 0 .. n : S \cap 1 .. k # {} /\ ~Top(k)}
<1>1. SUFFICES ASSUME n \in Bad PROVE FALSE
  <2>1. S \cap 1 .. n = S
    OBVIOUS
  <2>2. n \notin Bad => Top(n)
    BY <2>1
  <2> QED
    BY <1>1, <2>1, <2>2
<1>2. PICK b \in Bad : \A k \in Bad : b <= k
  <2>1. \A k \in Bad : k \in Nat
    OBVIOUS
  <2> HIDE DEF Bad
  <2>2. Bad # {}
    BY <1>1
  <2> QED
    BY <2>1, <2>2, LeastIs
<1>3. b \in Nat /\ b <= n /\ S \cap 1 .. b # {} /\ ~Top(b)
  OBVIOUS
<1>4. b # 0 /\ b - 1 \in 0 .. n /\ b - 1 \notin Bad
  <2>1. b # 0
    BY <1>3
  <2>2. b - 1 \in 0 .. n /\ ~(b <= b - 1)
    BY <1>3, <2>1
  <2> HIDE DEF Bad
  <2> QED
    BY <1>2, <2>1, <2>2
<1>5. \A j : j \in S \cap 1 .. b <=> j \in S \cap 1 .. b - 1 \/ (j = b /\ b \in S)
  <2>1. \A j \in Nat : j \in 1 .. b <=> j \in 1 .. b - 1 \/ j = b
    BY <1>3, <1>4
  <2>2. \A j \in S : j \in Nat
    OBVIOUS
  <2> QED
    BY <2>1, <2>2, <1>3, <1>4
<1>6. CASE S \cap 1 .. b - 1 = {}
  BY <1>3, <1>5, <1>6
<1>7. CASE S \cap 1 .. b - 1 # {}
  <2>1. PICK i \in S \cap 1 .. b - 1 :
           \A j \in S \cap 1 .. b - 1 : f[j] = f[i] \/ LT(f[j], f[i])
    BY <1>4, <1>7
  <2>2. b \notin S
    <3>1. SUFFICES ASSUME b \in S PROVE FALSE
      OBVIOUS
    <3>2. f[b] \in Version /\ f[i] \in Version
      BY <3>1
    <3>3. CASE f[b] = f[i] \/ LT(f[b], f[i])
      <4>1. \A j \in S \cap 1 .. b : f[j] = f[i] \/ LT(f[j], f[i])
        BY <1>5, <2>1, <3>3
      <4> QED
        BY <1>3, <1>5, <4>1
    <3>4. CASE LT(f[i], f[b])
      <4>1. ASSUME NEW j \in S \cap 1 .. b PROVE f[j] = f[b] \/ LT(f[j], f[b])
        <5>1. CASE j = b
          BY <5>1
        <5>2. CASE j \in S \cap 1 .. b - 1
          <6>1. f[j] \in Version /\ (f[j] = f[i] \/ LT(f[j], f[i]))
            BY <2>1, <5>2
          <6> QED
            BY <3>2, <3>4, <6>1, TotalOrder
        <5> QED
          BY <1>5, <5>1, <5>2
      <4> QED
        BY <1>3, <1>5, <3>1, <4>1
    <3> QED
      BY <3>2, <3>3, <3>4, TotalOrder
  <2>3. S \cap 1 .. b = S \cap 1 .. b - 1
    BY <1>5, <2>2
  <2> QED
    BY <1>3, <2>1, <2>3
<1> QED
  BY <1>6, <1>7

\* FindMatchingVersion fails when nothing matches, else it gives the newest that does.
LEMMA FindsNewest ==
    ASSUME NEW n \in Nat, NEW f \in [1 .. n -> Version], NEW S \in SUBSET (1 .. n), NEW c,
           NEW versions, versions = {f[i] : i \in S}
    PROVE  LET v == FindMatchingVersion(c, versions)
           IN  IF \A w \in versions : ~Matches(c, w) THEN v = NoVersion
               ELSE v # NoVersion /\ Newest(v, c, versions)
<1> DEFINE v == FindMatchingVersion(c, versions)
           M == {i \in S : Matches(c, f[i])}
<1>1. CASE Matching(c, versions) = {}
  BY <1>1 DEF FindMatchingVersion, Matching
<1>2. CASE Matching(c, versions) # {}
  <2>1. M # {} /\ M \in SUBSET (1 .. n) /\ Matching(c, versions) = {f[i] : i \in M}
    BY <1>2 DEF Matching
  <2>2. PICK i \in M : \A j \in M : f[j] = f[i] \/ LT(f[j], f[i])
    BY <2>1, NewestIs
  <2>3. f[i] \in Matching(c, versions)
        /\ \A w \in Matching(c, versions) : w = f[i] \/ LT(w, f[i])
    BY <2>1, <2>2
  <2>4. v \in Matching(c, versions) /\ \A w \in Matching(c, versions) : w = v \/ LT(w, v)
    BY <1>2, <2>3 DEF FindMatchingVersion
  <2>5. versions \subseteq Version
    OBVIOUS
  <2>6. v \in versions /\ v \in Version /\ Matches(c, v) /\ v # NoVersion
    BY <2>4, <2>5, NoVersionAssumption DEF Matching
  <2>7. \A w \in versions : Matches(c, w) => NotNewer(w, v)
    BY <2>4, <2>5, <2>6, TotalOrder DEF Matching
  <2> QED
    BY <2>6, <2>7 DEF Newest
<1> QED
  BY <1>1, <1>2

-----------------------------------------------------------------------------
(* What the files hold, and what a line of them changes.                   *)

\* The override files, and those of their sections that count.
LEMMA ScenarioFields ==
    ASSUME scenario \in Scenario
    PROVE  /\ scenario.overrides \in Seq(OverrideFile)
           /\ scenario.defaults \in Seq(Default) /\ scenario.entries \in Seq(Entry)
           /\ \A i \in Sections(scenario) :
                 /\ i \in 1 .. Len(scenario.overrides) /\ i # 0
                 /\ EntriesOf(scenario, i) = scenario.overrides[i].entries
                 /\ DefaultsOf(scenario, i) = scenario.overrides[i].defaults
                 /\ EntriesOf(scenario, i) \in Seq(Entry)
                 /\ DefaultsOf(scenario, i) \in Seq(Default)
<1>1. /\ scenario.overrides \in Seq(OverrideFile)
      /\ scenario.defaults \in Seq(Default) /\ scenario.entries \in Seq(Entry)
  BY DEF Scenario
<1>2. ASSUME NEW i \in Sections(scenario)
      PROVE  /\ i \in 1 .. Len(scenario.overrides) /\ i # 0
             /\ scenario.overrides[i].entries \in Seq(Entry)
             /\ scenario.overrides[i].defaults \in Seq(Default)
  <2>1. i \in 1 .. Len(scenario.overrides) /\ scenario.overrides[i] # Unreadable
    BY <1>1 DEF Sections
  <2>2. scenario.overrides[i] \in OverrideFile
    BY <1>1, <2>1
  <2> QED
    BY <2>1, <2>2 DEF OverrideFile
<1> QED
  BY <1>1, <1>2 DEF EntriesOf, DefaultsOf

\* Where a default has the name, the new one is instead of it; else it is the last.
LEMMA ReplacedDefault ==
    ASSUME NEW ds \in Seq(Default), NEW d \in Default
    PROVE  LET r == replaceDefaultVersion(ds, d)
           IN  /\ r \in Seq(Default)
               /\ d.name # scenario.name =>
                     Named(r) = Named(ds) /\ \A a \in Named(ds) : r[a] = ds[a]
               /\ d.name = scenario.name =>
                     Named(r) # {} /\ \A a \in Named(r) : r[a] = d
               /\ (\A a, b \in Named(ds) : a = b) => \A a, b \in Named(r) : a = b
<1> DEFINE r == replaceDefaultVersion(ds, d)
<1>1. CASE \E i \in DOMAIN ds : ds[i].name = d.name
  <2>1. r = [i \in DOMAIN ds |-> IF ds[i].name = d.name THEN d ELSE ds[i]]
    BY <1>1 DEF replaceDefaultVersion
  <2>2. r \in Seq(Default) /\ DOMAIN r = DOMAIN ds
    BY <2>1
  <2>3. \A a \in DOMAIN ds : /\ r[a].name = ds[a].name
                             /\ r[a] = IF ds[a].name = d.name THEN d ELSE ds[a]
    BY <2>1
  <2> HIDE DEF r
  <2>4. Named(r) = Named(ds)
    BY <2>2, <2>3 DEF Named
  <2>5. d.name = scenario.name => Named(ds) # {}
    BY <1>1 DEF Named
  <2>6. \A a \in Named(ds) : a \in DOMAIN ds /\ ds[a].name = scenario.name
    BY DEF Named
  <2> QED
    BY <2>2, <2>3, <2>4, <2>5, <2>6 DEF r
<1>2. CASE ~\E i \in DOMAIN ds : ds[i].name = d.name
  <2>1. r = Append(ds, d)
    BY <1>2 DEF replaceDefaultVersion
  <2>2. /\ r \in Seq(Default) /\ Len(ds) \in Nat
        /\ DOMAIN r = 1 .. Len(ds) + 1 /\ DOMAIN ds = 1 .. Len(ds)
        /\ r[Len(ds) + 1] = d /\ \A a \in 1 .. Len(ds) : r[a] = ds[a]
    BY <2>1
  <2>3. \A a \in 1 .. Len(ds) + 1 : a \in 1 .. Len(ds) \/ a = Len(ds) + 1
    BY <2>2
  <2>4. /\ Len(ds) + 1 \in DOMAIN r /\ Len(ds) + 1 \notin DOMAIN ds
        /\ \A a \in DOMAIN ds : a \in DOMAIN r /\ r[a] = ds[a]
        /\ \A a \in DOMAIN r : a \in DOMAIN ds \/ a = Len(ds) + 1
    BY <2>2, <2>3
  <2> HIDE DEF r
  <2>5. CASE d.name # scenario.name
    <3>1. Named(r) = Named(ds)
      BY <2>2, <2>4, <2>5 DEF Named
    <3>2. \A a \in Named(ds) : r[a] = ds[a]
      BY <2>4 DEF Named
    <3> QED
      BY <2>2, <2>5, <3>1, <3>2 DEF r
  <2>6. CASE d.name = scenario.name
    <3>1. Named(r) = {Len(ds) + 1}
      BY <1>2, <2>2, <2>4, <2>6 DEF Named
    <3> QED
      BY <2>2, <2>6, <3>1 DEF r
  <2> QED
    BY <2>5, <2>6
<1> QED
  BY <1>1, <1>2

\* An entry is added at the end, unless its name and version are there.
LEMMA ReplacedEntry ==
    ASSUME NEW es \in Seq(Entry), NEW e \in Entry
    PROVE  LET r == replaceManifestEntry(es, e)
               Same(a) == es[a].name = e.name /\ es[a].version = e.version
           IN  /\ r \in Seq(Entry)
               /\ \/ r = es /\ \E a \in DOMAIN es : Same(a)
                  \/ /\ Len(r) = Len(es) + 1 /\ r[Len(es) + 1] = e
                     /\ \A a \in DOMAIN es : r[a] = es[a] /\ ~Same(a)
<1>1. CASE \E a \in DOMAIN es : es[a].name = e.name /\ es[a].version = e.version
  BY <1>1 DEF replaceManifestEntry
<1>2. CASE ~\E a \in DOMAIN es : es[a].name = e.name /\ es[a].version = e.version
  <2>1. replaceManifestEntry(es, e) = Append(es, e)
    BY <1>2 DEF replaceManifestEntry
  <2>2. /\ Append(es, e) \in Seq(Entry) /\ Len(Append(es, e)) = Len(es) + 1
        /\ Append(es, e)[Len(es) + 1] = e /\ \A a \in DOMAIN es : Append(es, e)[a] = es[a]
    OBVIOUS
  <2> QED
    BY <1>2, <2>1, <2>2
<1> QED
  BY <1>1, <1>2

\* The file that is read, when it counts.
LEMMA FileRead ==
    ASSUME Typed, ApplyingOverride, override # Unreadable
    PROVE  /\ file \in DOMAIN scenario.overrides
           /\ override.language = "python" <=> file \in Sections(scenario)
           /\ file \notin Sections(scenario) => Lines = 0
           /\ file \in Sections(scenario) =>
                 /\ Lines = Len(DefaultsOf(scenario, file)) + Len(EntriesOf(scenario, file))
                 /\ override.defaults = DefaultsOf(scenario, file)
                 /\ override.entries = EntriesOf(scenario, file)
<1>1. file \in DOMAIN scenario.overrides
  BY ScenarioFields DEF Typed, ApplyingOverride
<1>2. override.language = "python" <=> file \in Sections(scenario)
  BY <1>1 DEF Sections, override
<1> QED
  BY <1>1, <1>2, ScenarioFields DEF Typed, Lines, override

\* A step that reads a default adds its line to those read, and no other.
LEMMA ReadsDefault ==
    ASSUME Typed, OverrideDefault
    PROVE  /\ file \in Sections(scenario) /\ line \in DOMAIN DefaultsOf(scenario, file)
           /\ override.defaults = DefaultsOf(scenario, file)
           /\ \A i, k \in Nat : /\ EntryRead(i, k)' <=> EntryRead(i, k)
                                /\ DefaultRead(i, k)' <=> \/ DefaultRead(i, k)
                                                          \/ i = file /\ k = line
<1>1. /\ scenario' = scenario /\ file' = file /\ line' = line + 1
      /\ line <= Lines /\ line <= Len(override.defaults)
      /\ ApplyingOverride /\ override # Unreadable
  BY DEF OverrideDefault
<1>2. line \in Nat \ {0} /\ file \in Nat
  BY DEF Typed
<1>3. file \in Sections(scenario) /\ override.defaults = DefaultsOf(scenario, file)
  BY <1>1, <1>2, FileRead
<1>4. /\ DefaultsOf(scenario, file) \in Seq(Default)
      /\ line \in DOMAIN DefaultsOf(scenario, file)
  BY <1>1, <1>2, <1>3, ScenarioFields DEF Typed
<1>5. ASSUME NEW i \in Nat, NEW k \in Nat
      PROVE  EntryRead(i, k)' <=> EntryRead(i, k)
  <2>1. i \in Sections(scenario) /\ k \in DOMAIN EntriesOf(scenario, i) => k # 0
    BY ScenarioFields DEF Typed
  <2>2. i = file /\ k # 0 => ~(Len(DefaultsOf(scenario, i)) + k < line)
                             /\ ~(Len(DefaultsOf(scenario, i)) + k < line + 1)
    BY <1>2, <1>4
  <2> QED
    BY <1>1, <2>1, <2>2 DEF EntryRead, Sections, EntriesOf, DefaultsOf
<1>6. ASSUME NEW i \in Nat, NEW k \in Nat
      PROVE  DefaultRead(i, k)' <=> DefaultRead(i, k) \/ (i = file /\ k = line)
  <2>1. k < line + 1 <=> k < line \/ k = line
    BY <1>2
  <2> QED
    BY <1>1, <1>3, <1>4, <2>1 DEF DefaultRead, Sections, DefaultsOf
<1> QED
  BY <1>3, <1>4, <1>5, <1>6

\* The same for a step that reads an entry.
LEMMA ReadsEntry ==
    ASSUME Typed, OverrideEntry
    PROVE  LET at == line - Len(DefaultsOf(scenario, file))
           IN  /\ file \in Sections(scenario) /\ at \in DOMAIN EntriesOf(scenario, file)
               /\ at \in Nat /\ file \in Nat /\ ~EntryRead(file, at)
               /\ entries' = replaceManifestEntry(entries, EntriesOf(scenario, file)[at])
               /\ \A i, k \in Nat : /\ DefaultRead(i, k)' <=> DefaultRead(i, k)
                                    /\ EntryRead(i, k)' <=> \/ EntryRead(i, k)
                                                            \/ i = file /\ k = at
<1> DEFINE at == line - Len(DefaultsOf(scenario, file))
<1>1. /\ scenario' = scenario /\ file' = file /\ line' = line + 1
      /\ line <= Lines /\ line > Len(override.defaults)
      /\ entries' = replaceManifestEntry(entries, override.entries[line - Len(override.defaults)])
      /\ ApplyingOverride /\ override # Unreadable
  BY DEF OverrideEntry
<1>2. line \in Nat \ {0} /\ file \in Nat
  BY DEF Typed
<1>3. /\ file \in Sections(scenario) /\ override.defaults = DefaultsOf(scenario, file)
      /\ override.entries = EntriesOf(scenario, file)
      /\ Lines = Len(DefaultsOf(scenario, file)) + Len(EntriesOf(scenario, file))
  BY <1>1, <1>2, FileRead
<1>4. /\ DefaultsOf(scenario, file) \in Seq(Default)
      /\ EntriesOf(scenario, file) \in Seq(Entry)
  BY <1>3, ScenarioFields DEF Typed
<1>5. at \in DOMAIN EntriesOf(scenario, file) /\ at \in Nat
  BY <1>1, <1>2, <1>3, <1>4
<1>6. ASSUME NEW i \in Nat, NEW k \in Nat
      PROVE  DefaultRead(i, k)' <=> DefaultRead(i, k)
  <2>1. i = file /\ k \in DOMAIN DefaultsOf(scenario, i) => k < line /\ k < line + 1
    BY <1>1, <1>2, <1>3, <1>4
  <2> QED
    BY <1>1, <2>1 DEF DefaultRead, Sections, DefaultsOf
<1>7. ASSUME NEW i \in Nat, NEW k \in Nat
      PROVE  EntryRead(i, k)' <=> EntryRead(i, k) \/ (i = file /\ k = at)
  <2>1. i = file => (Len(DefaultsOf(scenario, i)) + k < line + 1
                        <=> Len(DefaultsOf(scenario, i)) + k < line \/ k = at)
    BY <1>2, <1>4
  <2> QED
    BY <1>1, <1>3, <1>5, <2>1 DEF EntryRead, Sections, EntriesOf, DefaultsOf
<1>8. ~EntryRead(file, at)
  BY <1>2, <1>4 DEF EntryRead
<1> QED
  BY <1>1, <1>2, <1>3, <1>5, <1>6, <1>7, <1>8

\* A file is left when every line of it that counts was read.
LEMMA ReadsOn ==
    ASSUME Typed, NextOverride
    PROVE  \A i, k \in Nat : /\ DefaultRead(i, k)' <=> DefaultRead(i, k)
                             /\ EntryRead(i, k)' <=> EntryRead(i, k)
<1>1. /\ scenario' = scenario /\ file' = file + 1 /\ line' = 1 /\ line > Lines
      /\ ApplyingOverride /\ override # Unreadable
  BY DEF NextOverride
<1>2. line \in Nat \ {0} /\ file \in Nat
  BY DEF Typed
<1>3. ASSUME file \in Sections(scenario)
      PROVE  /\ Len(DefaultsOf(scenario, file)) \in Nat /\ Len(EntriesOf(scenario, file)) \in Nat
             /\ Len(DefaultsOf(scenario, file)) + Len(EntriesOf(scenario, file)) < line
             /\ DOMAIN DefaultsOf(scenario, file) = 1 .. Len(DefaultsOf(scenario, file))
             /\ DOMAIN EntriesOf(scenario, file) = 1 .. Len(EntriesOf(scenario, file))
  <2>1. Lines = Len(DefaultsOf(scenario, file)) + Len(EntriesOf(scenario, file))
    BY <1>1, <1>3, FileRead
  <2>2. /\ DefaultsOf(scenario, file) \in Seq(Default)
        /\ EntriesOf(scenario, file) \in Seq(Entry)
    BY <1>3, ScenarioFields DEF Typed
  <2> QED
    BY <1>1, <1>2, <2>1, <2>2
<1>4. ASSUME NEW i \in Nat, NEW k \in Nat, i \in Sections(scenario)
      PROVE  /\ i < file + 1 <=> i < file \/ i = file
             /\ k \in DOMAIN DefaultsOf(scenario, i) => ~(k < 1) /\ (i = file => k < line)
             /\ k \in DOMAIN EntriesOf(scenario, i) =>
                   /\ ~(Len(DefaultsOf(scenario, i)) + k < 1)
                   /\ i = file => Len(DefaultsOf(scenario, i)) + k < line
  <2>1. i < file + 1 <=> i < file \/ i = file
    BY <1>2
  <2>2. DefaultsOf(scenario, i) \in Seq(Default) /\ EntriesOf(scenario, i) \in Seq(Entry)
    BY <1>4, ScenarioFields DEF Typed
  <2>3. k \in DOMAIN DefaultsOf(scenario, i) => ~(k < 1)
    BY <2>2
  <2>4. k \in DOMAIN EntriesOf(scenario, i) => ~(Len(DefaultsOf(scenario, i)) + k < 1)
    BY <2>2
  <2>5. CASE i = file
    BY <1>2, <1>3, <1>4, <2>1, <2>3, <2>4, <2>5
  <2> QED
    BY <2>1, <2>3, <2>4, <2>5
<1> QED
  BY <1>1, <1>4 DEF DefaultRead, EntryRead, Sections, DefaultsOf, EntriesOf

-----------------------------------------------------------------------------
(* The entries and defaults in memory and the lines they come from.        *)

\* Each name and version stands once in the lines, so once in the entries.
LEMMA EntriesAdded ==
    ASSUME Typed, EntriesKept, OverrideEntry PROVE EntriesKept'
<1> DEFINE at == line - Len(DefaultsOf(scenario, file))
           e == EntriesOf(scenario, file)[at]
           n == Len(entries)
<1>1. /\ file \in Sections(scenario) /\ at \in DOMAIN EntriesOf(scenario, file)
      /\ at \in Nat /\ file \in Nat /\ ~EntryRead(file, at)
      /\ entries' = replaceManifestEntry(entries, e)
      /\ \A i, k \in Nat : EntryRead(i, k)' <=> EntryRead(i, k) \/ (i = file /\ k = at)
  BY ReadsEntry
<1>2. /\ scenario' = scenario /\ Base' = Base
      /\ NothingRedefined(scenario)' = NothingRedefined(scenario)
      /\ \A i : EntriesOf(scenario, i)' = EntriesOf(scenario, i)
  BY DEF OverrideEntry, Base, NothingRedefined, EntriesOf, Sections
<1>3. EntriesOf(scenario, file) \in Seq(Entry) /\ scenario.entries \in Seq(Entry)
  BY <1>1, ScenarioFields DEF Typed
<1>4. /\ e \in Entry /\ entries \in Seq(Entry) /\ n \in Nat
      /\ DOMAIN entries = 1 .. n /\ Len(scenario.entries) \in Nat
      /\ Base = 1 .. Len(scenario.entries) /\ Len(scenario.entries) <= n
  BY <1>1, <1>3 DEF Typed, EntriesKept, Base
<1> HIDE DEF e, at
<1>5. CASE /\ entries' = entries
           /\ \E a \in DOMAIN entries : entries[a].name = e.name /\ entries[a].version = e.version
  <2>1. PICK a \in DOMAIN entries : entries[a].name = e.name /\ entries[a].version = e.version
    BY <1>5
  <2>2. e.name = scenario.name => ~NothingRedefined(scenario)
    <3>1. SUFFICES ASSUME NothingRedefined(scenario), e.name = scenario.name PROVE FALSE
      OBVIOUS
    <3>2. CASE a \in Base
      <4>1. entries[a] = EntriesOf(scenario, 0)[a] /\ a \in DOMAIN EntriesOf(scenario, 0)
        BY <3>2 DEF EntriesKept, EntriesOf, Base
      <4>2. <<file, at>> = <<0, a>>
        BY <1>1, <2>1, <3>1, <4>1 DEF NothingRedefined, e
      <4> QED
        BY <1>1, <4>2, ScenarioFields DEF Typed
    <3>3. CASE a \notin Base
      <4>1. PICK i, k \in Nat : EntryRead(i, k) /\ entries[a] = EntriesOf(scenario, i)[k]
        BY <2>1, <3>3 DEF EntriesKept
      <4>2. i \in Sections(scenario) /\ k \in DOMAIN EntriesOf(scenario, i)
        BY <4>1 DEF EntryRead
      <4>3. <<file, at>> = <<i, k>>
        BY <1>1, <2>1, <3>1, <4>1, <4>2 DEF NothingRedefined, e
      <4> QED
        BY <1>1, <4>1, <4>3
    <3> QED
      BY <3>2, <3>3
  <2>3. \A a1 \in DOMAIN entries \ Base : \E i, k \in Nat :
           EntryRead(i, k)' /\ entries[a1] = EntriesOf(scenario, i)[k]
    <3>1. ASSUME NEW b \in DOMAIN entries \ Base
          PROVE  \E i, k \in Nat : EntryRead(i, k)' /\ entries[b] = EntriesOf(scenario, i)[k]
      <4>1. PICK i, k \in Nat : EntryRead(i, k) /\ entries[b] = EntriesOf(scenario, i)[k]
        BY DEF EntriesKept
      <4>2. EntryRead(i, k)'
        BY <1>1, <4>1
      <4> QED
        BY <4>1, <4>2
    <3> QED
      BY <3>1
  <2>4. ASSUME NothingRedefined(scenario), NEW i \in Nat, NEW k \in Nat, EntryRead(i, k)',
               EntriesOf(scenario, i)[k].name = scenario.name
        PROVE  EntryRead(i, k)
    BY <1>1, <2>2, <2>4 DEF e
  <2> QED
    BY <1>2, <1>5, <2>3, <2>4 DEF EntriesKept, Base
<1>6. CASE /\ Len(entries') = n + 1 /\ entries'[n + 1] = e /\ entries' \in Seq(Entry)
           /\ \A a \in DOMAIN entries :
                 entries'[a] = entries[a]
                 /\ ~(entries[a].name = e.name /\ entries[a].version = e.version)
  <2>1. /\ DOMAIN entries' = 1 .. n + 1 /\ Len(scenario.entries) <= n + 1
        /\ n + 1 \notin DOMAIN entries /\ n + 1 \notin Base /\ n + 1 \in DOMAIN entries'
        /\ \A a \in DOMAIN entries' : a \in DOMAIN entries \/ a = n + 1
        /\ \A a \in DOMAIN entries : a \in DOMAIN entries'
    BY <1>4, <1>6
  <2>2. \A a \in Base : entries'[a] = scenario.entries[a]
    BY <1>4, <1>6 DEF EntriesKept
  <2>3. \A a \in DOMAIN entries' \ Base : \E i, k \in Nat :
           EntryRead(i, k)' /\ entries'[a] = EntriesOf(scenario, i)[k]
    BY <1>1, <1>6, <2>1 DEF EntriesKept, e
  <2>4. \A a \in DOMAIN entries' \ Base, b \in DOMAIN entries' :
           entries'[a].name = entries'[b].name /\ entries'[a].version = entries'[b].version => a = b
    BY <1>6, <2>1 DEF EntriesKept
  <2>5. ASSUME NothingRedefined(scenario), NEW i \in Nat, NEW k \in Nat, EntryRead(i, k)',
               EntriesOf(scenario, i)[k].name = scenario.name
        PROVE  \E a \in DOMAIN entries' \ Base : entries'[a] = EntriesOf(scenario, i)[k]
    <3>1. CASE EntryRead(i, k)
      <4>1. PICK a \in DOMAIN entries \ Base : entries[a] = EntriesOf(scenario, i)[k]
        BY <2>5, <3>1 DEF EntriesKept
      <4>2. a \in DOMAIN entries' \ Base /\ entries'[a] = EntriesOf(scenario, i)[k]
        BY <1>6, <2>1, <4>1
      <4> QED
        BY <4>2
    <3>2. CASE i = file /\ k = at
      BY <1>6, <2>1, <3>2 DEF e
    <3> QED
      BY <1>1, <2>5, <3>1, <3>2
  <2> QED
    BY <1>2, <1>6, <2>1, <2>2, <2>3, <2>4, <2>5 DEF EntriesKept, Base
<1>7. LET r == replaceManifestEntry(entries, e)
      IN  /\ r \in Seq(Entry)
          /\ \/ r = entries
                /\ \E a \in DOMAIN entries :
                      entries[a].name = e.name /\ entries[a].version = e.version
             \/ /\ Len(r) = n + 1 /\ r[n + 1] = e
                /\ \A a \in DOMAIN entries :
                      r[a] = entries[a]
                      /\ ~(entries[a].name = e.name /\ entries[a].version = e.version)
  BY <1>4, ReplacedEntry
<1> QED
  BY <1>1, <1>5, <1>6, <1>7

\* A default that is read is the last one so far.
LEMMA DefaultsAdded ==
    ASSUME Typed, DefaultsKept, OverrideDefault PROVE DefaultsKept'
<1> DEFINE d == DefaultsOf(scenario, file)[line]
           n == scenario.name
<1>1. /\ file \in Sections(scenario) /\ line \in DOMAIN DefaultsOf(scenario, file)
      /\ override.defaults = DefaultsOf(scenario, file)
      /\ \A i, k \in Nat : DefaultRead(i, k)' <=> DefaultRead(i, k) \/ (i = file /\ k = line)
  BY ReadsDefault
<1>2. /\ scenario' = scenario /\ file \in Nat /\ line \in Nat
      /\ \A i : DefaultsOf(scenario, i)' = DefaultsOf(scenario, i)
      /\ defaults' = replaceDefaultVersion(defaults, d)
  BY <1>1 DEF OverrideDefault, Typed, Named, DefaultsOf
<1>3. Named(defaults)' = Named(defaults') /\ Named(scenario.defaults)' = Named(scenario.defaults)
  BY <1>2 DEF Named
<1>4. d \in Default /\ defaults \in Seq(Default)
  BY <1>1, ScenarioFields DEF Typed
<1> HIDE DEF d
<1>5. /\ d.name # n => Named(defaults') = Named(defaults)
                       /\ \A a \in Named(defaults) : defaults'[a] = defaults[a]
      /\ d.name = n => Named(defaults') # {} /\ \A a \in Named(defaults') : defaults'[a] = d
      /\ (\A a, b \in Named(defaults) : a = b) => \A a, b \in Named(defaults') : a = b
  <2> DEFINE r == replaceDefaultVersion(defaults, d)
  <2>1. /\ d.name # n => Named(r) = Named(defaults) /\ \A a \in Named(defaults) : r[a] = defaults[a]
        /\ d.name = n => Named(r) # {} /\ \A a \in Named(r) : r[a] = d
        /\ (\A a, b \in Named(defaults) : a = b) => \A a, b \in Named(r) : a = b
    BY <1>4, ReplacedDefault
  <2> QED
    BY <1>2, <2>1
<1>6. (\A a, b \in Named(scenario.defaults) : a = b) => \A a, b \in Named(defaults') : a = b
  BY <1>5 DEF DefaultsKept
<1>7. CASE d.name = n
  <2>1. \A j, l \in Nat : DefaultRead(j, l)' => NotAfter(<<j, l>>, <<file, line>>)
    <3>1. ASSUME NEW j \in Nat, NEW l \in Nat, DefaultRead(j, l)'
          PROVE  j < file \/ (j = file /\ l <= line)
      BY <1>1, <1>2, <3>1 DEF DefaultRead
    <3> QED
      BY <3>1 DEF NotAfter
  <2>2. PICK i, k \in Nat : i = file /\ k = line
    BY <1>2
  <2>3. /\ DefaultRead(i, k)' /\ d = DefaultsOf(scenario, i)[k]
        /\ \A j, l \in Nat : DefaultRead(j, l)' => NotAfter(<<j, l>>, <<i, k>>)
    BY <1>1, <2>1, <2>2 DEF d
  <2>4. DefaultReplaced'
    BY <1>2, <1>3, <1>5, <1>7, <2>3 DEF DefaultReplaced, NotAfter
  <2> QED
    BY <1>2, <1>3, <1>6, <2>4 DEF DefaultsKept
<1>8. CASE d.name # n
  <2>1. \A i, k \in Nat : DefaultsOf(scenario, i)[k].name = n =>
           (DefaultRead(i, k)' <=> DefaultRead(i, k))
    BY <1>1, <1>8 DEF d
  <2>2. DefaultUntouched => DefaultUntouched'
    BY <1>2, <1>3, <1>5, <1>8, <2>1 DEF DefaultUntouched
  <2>3. ASSUME DefaultReplaced PROVE DefaultReplaced'
    <3>1. PICK i, k \in Nat :
        /\ DefaultRead(i, k) /\ DefaultsOf(scenario, i)[k].name = scenario.name
        /\ \A j, l \in Nat :
              DefaultRead(j, l) /\ DefaultsOf(scenario, j)[l].name = scenario.name
                  => NotAfter(<<j, l>>, <<i, k>>)
        /\ Named(defaults) # {}
        /\ \A a \in Named(defaults) : defaults[a] = DefaultsOf(scenario, i)[k]
      BY <2>3 DEF DefaultReplaced
    <3>2. /\ DefaultRead(i, k)'
          /\ \A j, l \in Nat :
                DefaultRead(j, l)' /\ DefaultsOf(scenario, j)[l].name = scenario.name
                    => NotAfter(<<j, l>>, <<i, k>>)
          /\ Named(defaults') # {}
          /\ \A a \in Named(defaults') : defaults'[a] = DefaultsOf(scenario, i)[k]
      BY <1>5, <1>8, <2>1, <3>1
    <3> QED
      BY <1>2, <1>3, <3>1, <3>2 DEF DefaultReplaced, NotAfter
  <2> QED
    BY <1>2, <1>3, <1>6, <2>2, <2>3 DEF DefaultsKept
<1> QED
  BY <1>7, <1>8

-----------------------------------------------------------------------------
(* When every file is read, what is selected from is what the files say.   *)

AllRead == Typed /\ EntriesKept /\ DefaultsKept /\ file > Len(scenario.overrides)

\* No line that counts is left.
LEMMA EveryLineRead ==
    ASSUME AllRead
    PROVE  \A i \in Sections(scenario) :
              /\ i \in Nat
              /\ \A k \in DOMAIN DefaultsOf(scenario, i) : k \in Nat /\ DefaultRead(i, k)
              /\ \A k \in DOMAIN EntriesOf(scenario, i) : k \in Nat /\ EntryRead(i, k)
<1>1. ASSUME NEW i \in Sections(scenario)
      PROVE  /\ i \in Nat /\ i < file
             /\ DefaultsOf(scenario, i) \in Seq(Default) /\ EntriesOf(scenario, i) \in Seq(Entry)
  BY ScenarioFields DEF AllRead, Typed
<1> QED
  BY <1>1 DEF DefaultRead, EntryRead

\* A place that counts, whether the manifest's or a file's.
Stands(i, k) ==
    /\ i \in {0} \cup Sections(scenario) /\ k \in DOMAIN EntriesOf(scenario, i)
    /\ EntriesOf(scenario, i)[k].name = scenario.name
    /\ entrySupportsStack(EntriesOf(scenario, i)[k])

\* Mentions are these places.
LEMMA MentionsAre ==
    /\ \A m : m \in Mentions(scenario) <=> \E i, k : m = <<i, k>> /\ Stands(i, k)
    /\ \A i, k : <<i, k>> \in Mentions(scenario) <=> Stands(i, k)
<1>1. \A m : m \in Mentions(scenario) <=> \E i, k : m = <<i, k>> /\ Stands(i, k)
  BY DEF Mentions, Stands, entrySupportsStack
<1>2. \A i, k, j, l : <<i, k>> = <<j, l>> => i = j /\ k = l
  OBVIOUS
<1> QED
  BY <1>1, <1>2

\* The versions offered are those of the places.
LEMMA OfferedVersionsAre ==
    \A v : v \in OfferedVersions(scenario)
              <=> \E i, k : Stands(i, k) /\ v = EntriesOf(scenario, i)[k].version
<1>1. \A i, k : At(scenario, <<i, k>>) = EntriesOf(scenario, i)[k]
  BY DEF At
<1>2. \A v : v \in OfferedVersions(scenario)
                <=> \E m \in Mentions(scenario) : v = At(scenario, m).version
  BY DEF OfferedVersions
<1>3. ASSUME NEW v, NEW m \in Mentions(scenario), v = At(scenario, m).version
      PROVE  \E i, k : Stands(i, k) /\ v = EntriesOf(scenario, i)[k].version
  <2>1. PICK i, k : m = <<i, k>> /\ Stands(i, k)
    BY MentionsAre
  <2> QED
    BY <1>1, <1>3, <2>1
<1>4. ASSUME NEW v, NEW i, NEW k, Stands(i, k), v = EntriesOf(scenario, i)[k].version
      PROVE  \E m \in Mentions(scenario) : v = At(scenario, m).version
  <2>1. <<i, k>> \in Mentions(scenario) /\ v = At(scenario, <<i, k>>).version
    BY <1>1, <1>4, MentionsAre
  <2> QED
    BY <2>1
<1> QED
  BY <1>2, <1>3, <1>4

\* Each entry in memory stands in a place; each place is an entry unless its
\* version was there.
LEMMA OfferedAre ==
    ASSUME AllRead
    PROVE  /\ \A a \in Offered(scenario.name) : \E i, k :
                 /\ Stands(i, k) /\ entries[a] = EntriesOf(scenario, i)[k]
                 /\ IF a \in Base THEN i = 0 /\ k = a ELSE i # 0
           /\ NothingRedefined(scenario) => \A i, k : Stands(i, k) =>
                 \E a \in Offered(scenario.name) : entries[a] = EntriesOf(scenario, i)[k]
<1>1. /\ \A a \in Base : a \in DOMAIN entries /\ entries[a] = scenario.entries[a]
      /\ scenario.entries = EntriesOf(scenario, 0)
  BY ScenarioFields DEF AllRead, Typed, EntriesKept, Base, EntriesOf
<1>2. ASSUME NEW a \in Offered(scenario.name)
      PROVE  \E i, k :
                 /\ Stands(i, k) /\ entries[a] = EntriesOf(scenario, i)[k]
                 /\ IF a \in Base THEN i = 0 /\ k = a ELSE i # 0
  <2>1. a \in DOMAIN entries /\ entries[a].name = scenario.name /\ entrySupportsStack(entries[a])
    BY <1>2 DEF Offered
  <2>2. CASE a \in Base
    <3>1. Stands(0, a) /\ entries[a] = EntriesOf(scenario, 0)[a]
      BY <1>1, <2>1, <2>2 DEF Stands, Base
    <3> QED
      BY <2>2, <3>1
  <2>3. CASE a \notin Base
    <3>1. PICK i, k \in Nat : EntryRead(i, k) /\ entries[a] = EntriesOf(scenario, i)[k]
      BY <2>1, <2>3 DEF AllRead, EntriesKept
    <3>2. Stands(i, k)
      BY <2>1, <3>1 DEF Stands, EntryRead
    <3>3. i # 0
      BY <3>1, ScenarioFields DEF AllRead, Typed, EntryRead
    <3> QED
      BY <2>3, <3>1, <3>2, <3>3
  <2> QED
    BY <2>2, <2>3
<1>3. ASSUME NothingRedefined(scenario), NEW i, NEW k, Stands(i, k)
      PROVE  \E a \in Offered(scenario.name) : entries[a] = EntriesOf(scenario, i)[k]
  <2>1. \E a \in DOMAIN entries : entries[a] = EntriesOf(scenario, i)[k]
    <3>1. CASE i = 0
      BY <1>1, <1>3, <3>1 DEF Stands, Base
    <3>2. CASE i \in Sections(scenario)
      <4>1. i \in Nat /\ k \in Nat /\ EntryRead(i, k)
        BY <1>3, <3>2, EveryLineRead DEF Stands
      <4> QED
        BY <1>3, <4>1 DEF AllRead, EntriesKept, Stands
    <3> QED
      BY <1>3, <3>1, <3>2 DEF Stands
  <2> QED
    BY <1>3, <2>1 DEF Offered, Stands
<1> QED
  BY <1>2, <1>3

\* The versions to select from are those the files offer.
LEMMA SameVersions ==
    ASSUME AllRead, NothingRedefined(scenario)
    PROVE  AllDependencyVersions(scenario.name) = OfferedVersions(scenario)
<1>1. \A v : v \in AllDependencyVersions(scenario.name) <=> v \in OfferedVersions(scenario)
  BY OfferedAre, OfferedVersionsAre DEF AllDependencyVersions
<1> QED
  BY <1>1

\* The entries of a dependency that stands in one place are one.
LEMMA OnlyOne ==
    ASSUME AllRead, NothingRedefined(scenario), NEW m, Mentions(scenario) = {m}
    PROVE  \E a : Offered(scenario.name) = {a}
<1>1. Stands(m[1], m[2]) /\ \A i, k : Stands(i, k) => i = m[1] /\ k = m[2]
  BY MentionsAre
<1>2. PICK a \in Offered(scenario.name) : entries[a] = EntriesOf(scenario, m[1])[m[2]]
  BY <1>1, OfferedAre
<1>3. ASSUME NEW b \in Offered(scenario.name) PROVE b = a
  <2>1. /\ entries[b] = entries[a]
        /\ IF a \in Base THEN m[1] = 0 /\ m[2] = a ELSE m[1] # 0
        /\ IF b \in Base THEN m[1] = 0 /\ m[2] = b ELSE m[1] # 0
    BY <1>1, <1>2, <1>3, OfferedAre
  <2>2. a \in DOMAIN entries /\ b \in DOMAIN entries
    BY DEF Offered
  <2>3. CASE a \in Base
    BY <2>1, <2>3
  <2>4. CASE a \notin Base
    BY <2>1, <2>2, <2>4 DEF AllRead, EntriesKept
  <2> QED
    BY <2>3, <2>4
<1> QED
  BY <1>2, <1>3

\* There are finitely many places.
LEMMA MentionsFinite ==
    ASSUME scenario \in Scenario PROVE IsFiniteSet(Mentions(scenario))
<1> DEFINE I == {0} \cup Sections(scenario)
           K(i) == {k \in DOMAIN EntriesOf(scenario, i) : Stands(i, k)}
           F == [i \in I |-> {<<i, k>> : k \in K(i)}]
           T == {F[i] : i \in I}
<1>1. IsFiniteSet(I)
  <2>1. I \in SUBSET (0 .. Len(scenario.overrides)) /\ Len(scenario.overrides) \in Nat
    BY ScenarioFields
  <2>2. IsFiniteSet(0 .. Len(scenario.overrides))
    BY <2>1, FS_Interval
  <2> QED
    BY <2>1, <2>2, FS_Subset
<1>2. ASSUME NEW i \in I PROVE IsFiniteSet(F[i])
  <2>1. EntriesOf(scenario, i) \in Seq(Entry)
    BY ScenarioFields DEF EntriesOf
  <2>2. IsFiniteSet(DOMAIN EntriesOf(scenario, i))
    BY <2>1, FS_Interval
  <2>3. IsFiniteSet(K(i))
    BY <2>2, FS_Subset
  <2>4. [k \in K(i) |-> <<i, k>>] \in Surjection(K(i), F[i])
    BY Fun_IsSurj
  <2> QED
    BY <2>3, <2>4, FS_Surjection
<1>3. IsFiniteSet(T)
  <2>1. F \in Surjection(I, T)
    BY Fun_IsSurj
  <2> QED
    BY <1>1, <2>1, FS_Surjection
<1>4. IsFiniteSet(UNION T)
  BY <1>2, <1>3, FS_UNION
<1>5. Mentions(scenario) \in SUBSET UNION T
  <2>1. ASSUME NEW i, NEW k, Stands(i, k) PROVE <<i, k>> \in UNION T
    <3>1. i \in I /\ k \in K(i)
      BY <2>1 DEF Stands
    <3>2. <<i, k>> \in F[i] /\ F[i] \in T
      BY <3>1
    <3> QED
      BY <3>2
  <2> HIDE DEF T
  <2>2. \A m \in Mentions(scenario) : m \in UNION T
    BY <2>1, MentionsAre
  <2> QED
    BY <2>2
<1> QED
  BY <1>4, <1>5, FS_Subset

\* No default, or more than one, has the reason that FailsForAReason gives.
LEMMA DefaultsCounted ==
    ASSUME AllRead
    PROVE  /\ IsFiniteSet(Named(defaults))
           /\ Cardinality(Named(defaults)) # 1 =>
                 EffectiveDefault(scenario) = NoVersion \/ Cardinality(Named(scenario.defaults)) > 1
<1>1. defaults \in Seq(Default) /\ scenario.defaults \in Seq(Default)
  BY ScenarioFields DEF AllRead, Typed
<1>2. IsFiniteSet(Named(defaults)) /\ IsFiniteSet(Named(scenario.defaults))
  <2>1. IsFiniteSet(DOMAIN defaults) /\ IsFiniteSet(DOMAIN scenario.defaults)
    <3>1. /\ DOMAIN defaults = 1 .. Len(defaults) /\ Len(defaults) \in Int
          /\ DOMAIN scenario.defaults = 1 .. Len(scenario.defaults)
          /\ Len(scenario.defaults) \in Int
      BY <1>1
    <3> QED
      BY <3>1, FS_Interval
  <2>2. Named(defaults) \in SUBSET DOMAIN defaults
        /\ Named(scenario.defaults) \in SUBSET DOMAIN scenario.defaults
    BY DEF Named
  <2> QED
    BY <2>1, <2>2, FS_Subset
<1>3. ASSUME Named(defaults) = {} PROVE EffectiveDefault(scenario) = NoVersion
  <2>1. DefaultUntouched
    BY <1>3 DEF AllRead, DefaultsKept, DefaultReplaced
  <2>2. ASSUME NEW i \in {0} \cup Sections(scenario), NEW k \in DOMAIN DefaultsOf(scenario, i)
        PROVE  DefaultsOf(scenario, i)[k].name # scenario.name
    <3>1. CASE i = 0
      BY <1>3, <2>1, <2>2, <3>1 DEF DefaultUntouched, Named, DefaultsOf
    <3>2. CASE i \in Sections(scenario)
      BY <2>1, <2>2, <3>2, EveryLineRead DEF DefaultUntouched
    <3> QED
      BY <3>1, <3>2
  <2>3. DefaultPlaces(scenario) = {}
    BY <2>2 DEF DefaultPlaces
  <2> QED
    BY <2>3 DEF EffectiveDefault
<1>4. ASSUME Named(defaults) # {}, Cardinality(Named(defaults)) # 1
      PROVE  Cardinality(Named(scenario.defaults)) > 1
  <2>1. PICK a \in Named(defaults) : TRUE
    BY <1>4
  <2>2. Named(defaults) # {a}
    BY <1>4, FS_Singleton
  <2>3. ~\A b, c \in Named(defaults) : b = c
    BY <2>1, <2>2
  <2>4. PICK b, c \in Named(scenario.defaults) : b # c
    BY <2>3 DEF AllRead, DefaultsKept
  <2>5. Cardinality(Named(scenario.defaults)) \in Nat
    BY <1>2, FS_CardinalityType
  <2>6. Cardinality(Named(scenario.defaults)) # 0
    BY <1>2, <2>4, FS_EmptySet
  <2>7. Cardinality(Named(scenario.defaults)) # 1
    BY <1>2, <2>4, FS_Singleton
  <2> QED
    BY <2>5, <2>6, <2>7
<1> QED
  BY <1>2, <1>3, <1>4

\* The one default there is is the last that the files have.
LEMMA DefaultIsEffective ==
    ASSUME AllRead, NEW a, Named(defaults) = {a}
    PROVE  defaults[a].version = EffectiveDefault(scenario)
<1> DEFINE Has(i, k) ==
               /\ i \in {0} \cup Sections(scenario) /\ k \in DOMAIN DefaultsOf(scenario, i)
               /\ DefaultsOf(scenario, i)[k].name = scenario.name
           Last(i, k) == Has(i, k) /\ \A j, l : Has(j, l) => NotAfter(<<j, l>>, <<i, k>>)
<1>1. \A m : m \in DefaultPlaces(scenario) <=> \E i, k : m = <<i, k>> /\ Has(i, k)
  BY DEF DefaultPlaces
<1>2. \A i, k : Has(i, k) => i \in Nat /\ k \in Nat
  BY ScenarioFields DEF AllRead, Typed, DefaultsOf
<1>3. ASSUME NEW i, NEW k, Last(i, k)
      PROVE  EffectiveDefault(scenario) = DefaultsOf(scenario, i)[k].version
  <2> DEFINE IsLast(m) == m \in DefaultPlaces(scenario)
                          /\ \A n \in DefaultPlaces(scenario) : NotAfter(n, m)
             last == CHOOSE m \in DefaultPlaces(scenario) :
                        \A n \in DefaultPlaces(scenario) : NotAfter(n, m)
  <2>1. IsLast(<<i, k>>)
    BY <1>1, <1>3
  <2>2. IsLast(last)
    BY <2>1
  <2>3. PICK j, l : last = <<j, l>> /\ Has(j, l)
    BY <1>1, <2>2
  <2>4. NotAfter(<<j, l>>, <<i, k>>) /\ NotAfter(<<i, k>>, <<j, l>>)
    BY <2>1, <2>2, <2>3
  <2>5. i \in Nat /\ k \in Nat /\ j \in Nat /\ l \in Nat
    BY <1>2, <1>3, <2>3
  <2>6. j = i /\ l = k
    BY <2>4, <2>5 DEF NotAfter
  <2>7. EffectiveDefault(scenario) = DefaultsOf(scenario, last[1])[last[2]].version
    BY <2>1 DEF EffectiveDefault
  <2> HIDE DEF last
  <2> QED
    BY <2>3, <2>6, <2>7
<1>4. CASE DefaultUntouched
  <2>1. Named(scenario.defaults) = {a} /\ defaults[a] = scenario.defaults[a]
    BY <1>4 DEF DefaultUntouched
  <2>2. \A i, k : Has(i, k) => i = 0 /\ k = a
    BY <1>4, <2>1, EveryLineRead DEF DefaultUntouched, Named, DefaultsOf
  <2>3. Has(0, a) /\ DefaultsOf(scenario, 0)[a] = scenario.defaults[a]
    BY <2>1 DEF Named, DefaultsOf
  <2>4. a \in Nat
    BY <1>2, <2>3
  <2>5. Last(0, a)
    BY <2>2, <2>3, <2>4 DEF NotAfter
  <2> HIDE DEF Last, Has
  <2> QED
    BY <1>3, <2>1, <2>3, <2>5
<1>5. CASE DefaultReplaced
  <2>1. PICK i, k \in Nat :
        /\ DefaultRead(i, k) /\ DefaultsOf(scenario, i)[k].name = scenario.name
        /\ \A j, l \in Nat :
              DefaultRead(j, l) /\ DefaultsOf(scenario, j)[l].name = scenario.name
                  => NotAfter(<<j, l>>, <<i, k>>)
        /\ \A b \in Named(defaults) : defaults[b] = DefaultsOf(scenario, i)[k]
    BY <1>5 DEF DefaultReplaced
  <2>2. Has(i, k) /\ i # 0
    BY <2>1, ScenarioFields DEF DefaultRead, AllRead, Typed
  <2>3. ASSUME NEW j, NEW l, Has(j, l) PROVE NotAfter(<<j, l>>, <<i, k>>)
    <3>1. CASE j = 0
      BY <2>1, <2>2, <3>1 DEF NotAfter
    <3>2. CASE j \in Sections(scenario)
      BY <2>1, <2>3, <3>2, EveryLineRead
    <3> QED
      BY <2>3, <3>1, <3>2
  <2>4. Last(i, k)
    BY <2>2, <2>3
  <2> HIDE DEF Last, Has
  <2> QED
    BY <1>3, <2>1, <2>4
<1> QED
  BY <1>4, <1>5 DEF AllRead, DefaultsKept

-----------------------------------------------------------------------------
(* What is selected.                                                       *)

\* A constraint selects the newest version offered that matches it.
LEMMA Finds ==
    ASSUME AllRead, NEW c
    PROVE  LET V == AllDependencyVersions(scenario.name)
               v == FindMatchingVersion(c, V)
           IN  /\ V \subseteq Version
               /\ IF \A w \in V : ~Matches(c, w) THEN v = NoVersion
                  ELSE v # NoVersion /\ Newest(v, c, V)
<1> DEFINE V == AllDependencyVersions(scenario.name)
           S == Offered(scenario.name)
           f == [a \in 1 .. Len(entries) |-> entries[a].version]
<1>1. entries \in Seq(Entry) /\ Len(entries) \in Nat /\ DOMAIN entries = 1 .. Len(entries)
  BY DEF AllRead, Typed
<1>2. \A a \in DOMAIN entries : entries[a].version \in Version
  <2>1. \A a \in DOMAIN entries : entries[a] \in Entry
    BY <1>1
  <2> QED
    BY <2>1 DEF Entry
<1>3. f \in [1 .. Len(entries) -> Version]
  BY <1>1, <1>2
<1>4. S \in SUBSET (1 .. Len(entries)) /\ V = {f[a] : a \in S}
  BY <1>1 DEF Offered, AllDependencyVersions
<1>5. V \subseteq Version
  BY <1>3, <1>4
<1> HIDE DEF f, S, V
<1>6. IF \A w \in V : ~Matches(c, w) THEN FindMatchingVersion(c, V) = NoVersion
      ELSE FindMatchingVersion(c, V) # NoVersion /\ Newest(FindMatchingVersion(c, V), c, V)
  BY <1>1, <1>3, <1>4, FindsNewest
<1> QED
  BY <1>5, <1>6 DEF V

\* Why an app gets no version.
Reason ==
    \/ scenario.asks = "only" /\ Cardinality(Mentions(scenario)) # 1
    \/ /\ scenario.asks = "default"
       /\ \/ Cardinality(Named(scenario.defaults)) > 1
          \/ EffectiveDefault(scenario) = NoVersion
          \/ \A v \in OfferedVersions(scenario) : ~Matches(EffectiveDefault(scenario), v)
    \/ /\ scenario.asks = "range"
       /\ \A v \in OfferedVersions(scenario) : ~Matches(scenario.range, v)

\* What makes a version the right one.
Right(v) ==
    /\ v \in Version
    /\ \E a \in Offered(scenario.name) : entries[a].version = v
    /\ NothingRedefined(scenario) /\ scenario.asks = "range"
           => Newest(v, scenario.range, OfferedVersions(scenario))
    /\ NothingRedefined(scenario) /\ scenario.asks = "default"
           => Newest(v, EffectiveDefault(scenario), OfferedVersions(scenario))

Answers(v) == IF v = NoVersion THEN NothingRedefined(scenario) => Reason ELSE Right(v)

\* A range is answered by the newest version in it,
LEMMA AnswersRequested ==
    ASSUME AllRead, scenario.asks = "range"
    PROVE  Answers(FindMatchingVersion(scenario.range, AllDependencyVersions(scenario.name)))
<1> DEFINE V == AllDependencyVersions(scenario.name)
           v == FindMatchingVersion(scenario.range, V)
<1>1. /\ V \subseteq Version
      /\ IF \A w \in V : ~Matches(scenario.range, w) THEN v = NoVersion
         ELSE v # NoVersion /\ Newest(v, scenario.range, V)
  BY Finds
<1>2. NothingRedefined(scenario) => V = OfferedVersions(scenario)
  BY SameVersions
<1>3. \A w \in V : \E a \in Offered(scenario.name) : entries[a].version = w
  BY DEF AllDependencyVersions
<1> HIDE DEF V
<1>4. CASE \A w \in V : ~Matches(scenario.range, w)
  <2>1. v = NoVersion /\ (NothingRedefined(scenario) => Reason)
    BY <1>1, <1>2, <1>4 DEF Reason
  <2> QED
    BY <2>1 DEF Answers, V
<1>5. CASE ~\A w \in V : ~Matches(scenario.range, w)
  <2>1. v # NoVersion /\ Newest(v, scenario.range, V) /\ v \in V
    BY <1>1, <1>5 DEF Newest
  <2> HIDE DEF v
  <2> QED
    BY <1>1, <1>2, <1>3, <2>1 DEF Answers, Right, V, v
<1> QED
  BY <1>4, <1>5

\* the default by the newest version in its range,
LEMMA AnswersDefault ==
    ASSUME AllRead, scenario.asks = "default"
    PROVE  LET only == CHOOSE a \in Named(defaults) : TRUE
           IN  Answers(IF Cardinality(Named(defaults)) # 1 THEN NoVersion
                       ELSE FindMatchingVersion(defaults[only].version,
                                                AllDependencyVersions(scenario.name)))
<1> DEFINE V == AllDependencyVersions(scenario.name)
           only == CHOOSE a \in Named(defaults) : TRUE
           c == EffectiveDefault(scenario)
           v == FindMatchingVersion(c, V)
<1>1. CASE Cardinality(Named(defaults)) # 1
  BY <1>1, DefaultsCounted DEF Answers, Reason
<1>2. CASE Cardinality(Named(defaults)) = 1
  <2>1. PICK a : Named(defaults) = {a}
    BY <1>2, DefaultsCounted, FS_Singleton
  <2>2. only = a
    BY <2>1
  <2>3. defaults[only].version = c
    BY <2>1, <2>2, DefaultIsEffective
  <2>4. /\ V \subseteq Version
        /\ IF \A w \in V : ~Matches(c, w) THEN v = NoVersion ELSE v # NoVersion /\ Newest(v, c, V)
    BY Finds
  <2>5. NothingRedefined(scenario) => V = OfferedVersions(scenario)
    BY SameVersions
  <2>6. \A w \in V : \E b \in Offered(scenario.name) : entries[b].version = w
    BY DEF AllDependencyVersions
  <2> HIDE DEF V, only, c
  <2>7. CASE \A w \in V : ~Matches(c, w)
    <3>1. NothingRedefined(scenario) => Reason
      BY <2>5, <2>7 DEF Reason, c
    <3>2. v = NoVersion
      BY <2>4, <2>7
    <3> QED
      BY <1>2, <2>3, <3>1, <3>2 DEF Answers, V, only
  <2>8. CASE ~\A w \in V : ~Matches(c, w)
    <3>1. v # NoVersion /\ Newest(v, c, V) /\ v \in V
      BY <2>4, <2>8 DEF Newest
    <3> HIDE DEF v
    <3>2. Right(v)
      BY <2>4, <2>5, <2>6, <3>1 DEF Right, c
    <3> QED
      BY <1>2, <2>3, <3>1, <3>2 DEF Answers, V, only, v
  <2> QED
    BY <2>7, <2>8
<1> QED
  BY <1>1, <1>2

\* and a dependency with one entry by that.
LEMMA AnswersOnly ==
    ASSUME AllRead, scenario.asks = "only"
    PROVE  LET only == CHOOSE a \in Offered(scenario.name) : TRUE
           IN  Answers(IF Cardinality(Offered(scenario.name)) # 1 THEN NoVersion
                       ELSE entries[only].version)
<1> DEFINE only == CHOOSE a \in Offered(scenario.name) : TRUE
<1>1. IsFiniteSet(Offered(scenario.name))
  <2>1. DOMAIN entries = 1 .. Len(entries) /\ Len(entries) \in Int
    BY DEF AllRead, Typed
  <2>2. Offered(scenario.name) \in SUBSET (1 .. Len(entries))
    BY <2>1 DEF Offered
  <2> QED
    BY <2>1, <2>2, FS_Interval, FS_Subset
<1>2. CASE Cardinality(Offered(scenario.name)) # 1
  <2>1. NothingRedefined(scenario) => Cardinality(Mentions(scenario)) # 1
    <3>1. SUFFICES ASSUME NothingRedefined(scenario), Cardinality(Mentions(scenario)) = 1
                   PROVE  FALSE
      OBVIOUS
    <3>2. IsFiniteSet(Mentions(scenario))
      BY MentionsFinite DEF AllRead, Typed
    <3>3. PICK m : Mentions(scenario) = {m}
      BY <3>1, <3>2, FS_Singleton
    <3>4. \E a : Offered(scenario.name) = {a}
      BY <3>1, <3>3, OnlyOne
    <3> QED
      BY <1>1, <1>2, <3>4, FS_Singleton
  <2> QED
    BY <1>2, <2>1 DEF Answers, Reason
<1>3. CASE Cardinality(Offered(scenario.name)) = 1
  <2>1. \E a : Offered(scenario.name) = {a}
    BY <1>1, <1>3, FS_Singleton
  <2>2. only \in Offered(scenario.name) /\ only \in DOMAIN entries
    BY <2>1 DEF Offered
  <2> HIDE DEF only
  <2>3. entries[only] \in Entry
    BY <2>2 DEF AllRead, Typed
  <2>4. entries[only].version \in Version /\ entries[only].version # NoVersion
    BY <2>3, NoVersionAssumption DEF Entry
  <2>5. Right(entries[only].version)
    BY <2>2, <2>4 DEF Right
  <2> QED
    BY <1>3, <2>4, <2>5 DEF Answers, only
<1> QED
  BY <1>2, <1>3

-----------------------------------------------------------------------------
(* The invariant, step by step.                                            *)

\* What starts with the manifest as it is has read nothing.
LEMMA InitInv == ASSUME Init PROVE Inv
<1>1. scenario \in Scenario
  BY ScenariosAssumption DEF Init
<1>2. /\ pc = "CheckStackSupport" /\ file = 1 /\ line = 1 /\ version = NoVersion
      /\ defaults = scenario.defaults /\ entries = scenario.entries
  BY DEF Init
<1>3. Typed
  BY <1>1, <1>2, ScenarioFields DEF Typed
<1>4. \A i, k \in Nat : ~DefaultRead(i, k) /\ ~EntryRead(i, k)
  <2>1. ASSUME NEW i \in Sections(scenario) PROVE i >= 1 /\ i \in Nat
    BY <1>1, ScenarioFields
  <2>2. ASSUME NEW i \in Sections(scenario), NEW k \in Nat,
               k \in DOMAIN DefaultsOf(scenario, i)
        PROVE  k >= 1
    BY <1>1, <2>2, ScenarioFields
  <2>3. ASSUME NEW i \in Sections(scenario), NEW k \in Nat,
               k \in DOMAIN EntriesOf(scenario, i)
        PROVE  ~(Len(DefaultsOf(scenario, i)) + k < 1)
    BY <1>1, <2>3, ScenarioFields
  <2> QED
    BY <1>2, <2>1, <2>2, <2>3 DEF DefaultRead, EntryRead
<1>5. EntriesKept
  <2>1. Len(scenario.entries) <= Len(entries)
    BY <1>1, <1>2, ScenarioFields
  <2> QED
    BY <1>2, <1>4, <2>1 DEF EntriesKept, Base
<1>6. DefaultsKept
  BY <1>2, <1>4 DEF DefaultsKept, DefaultUntouched, Named
<1> QED
  BY <1>2, <1>3, <1>5, <1>6 DEF Inv, Selected, EntryFitsStack, FailsForAReason

\* The entries are as described after a step that leaves them alone and reads none,
LEMMA EntriesUnread ==
    ASSUME EntriesKept, UNCHANGED <<scenario, entries>>,
           \A i, k \in Nat : EntryRead(i, k)' <=> EntryRead(i, k)
    PROVE  EntriesKept'
<1>1. UNCHANGED <<Base, NothingRedefined(scenario)>>
  BY DEF Base
<1> QED
  BY <1>1 DEF EntriesKept

\* and so are the defaults.
LEMMA DefaultsUnread ==
    ASSUME DefaultsKept, UNCHANGED <<scenario, defaults>>,
           \A i, k \in Nat : DefaultRead(i, k)' <=> DefaultRead(i, k)
    PROVE  DefaultsKept'
<1>1. UNCHANGED <<Named(defaults), Named(scenario.defaults)>>
  BY DEF Named
<1>2. DefaultUntouched => DefaultUntouched'
  BY <1>1 DEF DefaultUntouched
<1>3. DefaultReplaced => DefaultReplaced'
  <2>1. SUFFICES ASSUME DefaultReplaced PROVE DefaultReplaced'
    OBVIOUS
  <2>2. PICK i, k \in Nat :
        /\ DefaultRead(i, k) /\ DefaultsOf(scenario, i)[k].name = scenario.name
        /\ \A j, l \in Nat :
              DefaultRead(j, l) /\ DefaultsOf(scenario, j)[l].name = scenario.name
                  => NotAfter(<<j, l>>, <<i, k>>)
        /\ Named(defaults) # {}
        /\ \A a \in Named(defaults) : defaults[a] = DefaultsOf(scenario, i)[k]
    BY <2>1 DEF DefaultReplaced
  <2>3. DefaultRead(i, k)' /\ \A j, l \in Nat : DefaultRead(j, l)' => DefaultRead(j, l)
    BY <2>2
  <2> QED
    BY <1>1, <2>2, <2>3, SMTT(30) DEF DefaultReplaced
<1> QED
  BY <1>1, <1>2, <1>3 DEF DefaultsKept

\* Most steps read nothing.
LEMMA KeptUnread ==
    ASSUME EntriesKept, DefaultsKept, UNCHANGED <<scenario, defaults, entries, file, line>>
    PROVE  EntriesKept' /\ DefaultsKept'
<1>1. \A i, k \in Nat : /\ DefaultRead(i, k)' <=> DefaultRead(i, k)
                        /\ EntryRead(i, k)' <=> EntryRead(i, k)
  BY DEF DefaultRead, EntryRead
<1> QED
  BY <1>1, EntriesUnread, DefaultsUnread

\* A stack without entries is known before any file is read.
LEMMA CheckStackSupportInv == ASSUME Inv, CheckStackSupport PROVE Inv'
<1>1. /\ pc = "CheckStackSupport" /\ entries = scenario.entries
      /\ pc' \in {"ApplyOverride", "failed"}
      /\ pc' = "failed" <=> ~manifestSupportsStack
      /\ UNCHANGED <<scenario, defaults, entries, file, line, version, entry>>
  BY DEF CheckStackSupport, Inv, Typed
<1>2. Typed'
  BY <1>1 DEF Inv, Typed
<1>3. EntriesKept' /\ DefaultsKept'
  BY <1>1, KeptUnread DEF Inv
<1>4. FailsForAReason'
  <2>1. pc' = "failed" =>
           IF scenario.bpStack # NoStack THEN scenario.bpStack # scenario.stack
           ELSE \A i \in DOMAIN scenario.entries :
                   scenario.stack \notin scenario.entries[i].stacks
    BY <1>1 DEF manifestSupportsStack, entrySupportsStack
  <2> QED
    BY <1>1, <2>1 DEF FailsForAReason
<1> QED
  BY <1>1, <1>2, <1>3, <1>4 DEF Inv, Selected, EntryFitsStack

\* The steps that read the override files.
LEMMA ApplyOverrideInv ==
    ASSUME Inv, LoadFails \/ OverrideDefault \/ OverrideEntry \/ NextOverride \/ ApplyOverrideEnds
    PROVE  Inv'
<1>1. Typed /\ EntriesKept /\ DefaultsKept
  BY DEF Inv
<1>2. CASE LoadFails
  <2>1. /\ UNCHANGED <<scenario, defaults, entries, file, line, version, entry>>
        /\ pc' = "failed" /\ scenario.overrides[file] = Unreadable
        /\ file \in DOMAIN scenario.overrides
    BY <1>1, <1>2, ScenarioFields DEF LoadFails, ApplyingOverride, override, Typed
  <2>2. Typed'
    BY <1>1, <2>1 DEF Typed
  <2>3. EntriesKept' /\ DefaultsKept'
    BY <1>1, <2>1, KeptUnread
  <2> QED
    BY <2>1, <2>2, <2>3 DEF Inv, Selected, EntryFitsStack, FailsForAReason
<1>3. CASE OverrideDefault
  <2>1. /\ UNCHANGED <<pc, scenario, entries, file, version, entry>> /\ pc = "ApplyOverride"
        /\ line' = line + 1
        /\ defaults' = replaceDefaultVersion(defaults, override.defaults[line])
    BY <1>3 DEF OverrideDefault, ApplyingOverride
  <2>2. defaults' \in Seq(Default)
    <3>1. override.defaults[line] \in Default
      BY <1>1, <1>3, ReadsDefault, ScenarioFields DEF Typed
    <3> QED
      BY <1>1, <2>1, <3>1, ReplacedDefault DEF Typed
  <2>3. Typed'
    BY <1>1, <2>1, <2>2 DEF Typed
  <2>4. EntriesKept'
    <3>1. \A i, k \in Nat : EntryRead(i, k)' <=> EntryRead(i, k)
      BY <1>1, <1>3, ReadsDefault
    <3> QED
      BY <1>1, <2>1, <3>1, EntriesUnread
  <2>5. DefaultsKept'
    BY <1>1, <1>3, DefaultsAdded
  <2> QED
    BY <2>1, <2>3, <2>4, <2>5 DEF Inv, Selected, EntryFitsStack, FailsForAReason
<1>4. CASE OverrideEntry
  <2>1. /\ UNCHANGED <<pc, scenario, defaults, file, version, entry>> /\ pc = "ApplyOverride"
        /\ line' = line + 1
    BY <1>4 DEF OverrideEntry, ApplyingOverride
  <2>2. entries' \in Seq(Entry)
    <3> DEFINE e == EntriesOf(scenario, file)[line - Len(DefaultsOf(scenario, file))]
    <3>1. e \in Entry /\ entries' = replaceManifestEntry(entries, e)
      BY <1>1, <1>4, ReadsEntry, ScenarioFields DEF Typed
    <3> HIDE DEF e
    <3> QED
      BY <1>1, <3>1, ReplacedEntry DEF Typed
  <2>3. Typed'
    BY <1>1, <2>1, <2>2 DEF Typed
  <2>4. DefaultsKept'
    <3>1. \A i, k \in Nat : DefaultRead(i, k)' <=> DefaultRead(i, k)
      BY <1>1, <1>4, ReadsEntry
    <3> QED
      BY <1>1, <2>1, <3>1, DefaultsUnread
  <2>5. EntriesKept'
    BY <1>1, <1>4, EntriesAdded
  <2> QED
    BY <2>1, <2>3, <2>4, <2>5 DEF Inv, Selected, EntryFitsStack, FailsForAReason
<1>5. CASE NextOverride
  <2>1. /\ UNCHANGED <<pc, scenario, defaults, entries, version, entry>> /\ pc = "ApplyOverride"
        /\ file' = file + 1 /\ line' = 1
    BY <1>5 DEF NextOverride, ApplyingOverride
  <2>2. Typed'
    BY <1>1, <2>1 DEF Typed
  <2>3. \A i, k \in Nat : /\ DefaultRead(i, k)' <=> DefaultRead(i, k)
                          /\ EntryRead(i, k)' <=> EntryRead(i, k)
    BY <1>1, <1>5, ReadsOn
  <2>4. EntriesKept'
    BY <1>1, <2>1, <2>3, EntriesUnread
  <2>5. DefaultsKept'
    BY <1>1, <2>1, <2>3, DefaultsUnread
  <2> QED
    BY <2>1, <2>2, <2>4, <2>5 DEF Inv, Selected, EntryFitsStack, FailsForAReason
<1>6. CASE ApplyOverrideEnds
  <2>1. /\ UNCHANGED <<scenario, defaults, entries, file, line, version, entry>>
        /\ pc' = "SelectVersion" /\ file > Len(scenario.overrides)
    BY <1>6 DEF ApplyOverrideEnds
  <2>2. Typed'
    BY <1>1, <2>1 DEF Typed
  <2>3. EntriesKept' /\ DefaultsKept'
    BY <1>1, <2>1, KeptUnread
  <2> QED
    BY <2>1, <2>2, <2>3 DEF Inv, Selected, EntryFitsStack, FailsForAReason
<1> QED
  BY <1>2, <1>3, <1>4, <1>5, <1>6

\* A selection with the right answer; every selection has it.
LEMMA SelectInv ==
    ASSUME Inv, SelectRequested \/ DefaultVersion \/ InstallOnlyVersion
    PROVE  Inv'
<1>1. AllRead
  BY DEF Inv, Typed, AllRead, SelectRequested, DefaultVersion, InstallOnlyVersion, Select
<1>2. PICK v : Select(v) /\ Answers(v)
  <2>1. CASE SelectRequested
    BY <1>1, <2>1, AnswersRequested DEF SelectRequested
  <2>2. CASE DefaultVersion
    BY <1>1, <2>2, AnswersDefault DEF DefaultVersion, Named
  <2>3. CASE InstallOnlyVersion
    BY <1>1, <2>3, AnswersOnly DEF InstallOnlyVersion
  <2> QED
    BY <2>1, <2>2, <2>3
<1>3. /\ pc = "SelectVersion" /\ version' = v
      /\ pc' = IF v = NoVersion THEN "failed" ELSE "GetEntry"
      /\ UNCHANGED <<scenario, defaults, entries, file, line, entry>>
  BY <1>2 DEF Select
<1>4. Typed'
  BY <1>2, <1>3 DEF Inv, Typed, Answers, Right
<1>5. EntriesKept' /\ DefaultsKept'
  BY <1>3, KeptUnread DEF Inv
<1>6. Selected'
  <2>1. pc' = "GetEntry" => Right(v)
    BY <1>2, <1>3 DEF Answers
  <2> QED
    BY <1>3, <2>1 DEF Selected, Right, Offered, entrySupportsStack
<1>7. FailsForAReason'
  <2>1. pc' = "failed" /\ NothingRedefined(scenario) => Reason
    BY <1>2, <1>3 DEF Answers
  <2>2. Reason' = Reason
    BY <1>3 DEF Reason, Named
  <2> QED
    BY <1>3, <2>1, <2>2 DEF FailsForAReason, Reason, Named
<1> QED
  BY <1>3, <1>4, <1>5, <1>6, <1>7 DEF Inv, EntryFitsStack

\* The version was selected from entries that are still there.
LEMMA GetEntryInv == ASSUME Inv, GetEntry PROVE Inv'
<1> DEFINE found == {i \in DOMAIN entries : IsEntry(entries[i])}
           first == CHOOSE i \in found : \A j \in found : i <= j
<1>1. pc = "GetEntry" /\ UNCHANGED <<scenario, defaults, entries, file, line, version>>
  BY DEF GetEntry
<1>2. found # {}
  <2>1. PICK a \in Offered(scenario.name) : entries[a].version = version
    BY <1>1 DEF Inv, Selected
  <2>2. a \in found
    BY <2>1 DEF Offered, IsEntry
  <2> QED
    BY <2>2
<1>3. pc' = "done" /\ entry' = entries[first]
  BY <1>2 DEF GetEntry
<1>4. first \in found
  <2>1. \A i \in found : i \in Nat
    BY DEF Inv, Typed
  <2> HIDE DEF found
  <2>2. \E i \in found : \A j \in found : i <= j
    BY <1>2, <2>1, LeastIs
  <2> QED
    BY <2>2
<1>5. IsEntry(entries[first])
  <2> HIDE DEF first
  <2> QED
    BY <1>4
<1> HIDE DEF first, found
<1>6. Typed'
  BY <1>1, <1>3 DEF Inv, Typed
<1>7. EntriesKept' /\ DefaultsKept'
  BY <1>1, KeptUnread DEF Inv
<1>8. Selected'
  BY <1>1 DEF Inv, Selected, Offered, entrySupportsStack
<1>9. EntryFitsStack' /\ FailsForAReason'
  BY <1>1, <1>3, <1>5 DEF EntryFitsStack, FailsForAReason, IsEntry, entrySupportsStack
<1> QED
  BY <1>6, <1>7, <1>8, <1>9 DEF Inv

\* Every reachable state is as the invariant says.
LEMMA Invariance == Spec => []Inv
<1>1. Init => Inv
  BY InitInv
<1>2. Inv /\ [Next]_vars => Inv'
  <2> SUFFICES ASSUME Inv, [Next]_vars PROVE Inv'
    OBVIOUS
  <2>1. CASE Next
    BY <2>1, CheckStackSupportInv, ApplyOverrideInv, SelectInv, GetEntryInv DEF Next
  <2>2. CASE UNCHANGED vars
    <3>1. Typed' /\ Selected' /\ EntryFitsStack' /\ FailsForAReason'
      BY <2>2 DEF vars, Inv, Typed, Selected, Offered, entrySupportsStack,
                  EntryFitsStack, FailsForAReason
    <3> QED
      BY <2>2, <3>1, KeptUnread DEF vars, Inv
  <2> QED
    BY <2>1, <2>2
<1> QED
  BY <1>1, <1>2, PTL DEF Spec

-----------------------------------------------------------------------------
(***************************************************************************)
(* Whatever the manifest and the override files hold, an app that asks for *)
(* a range gets the newest version in it.                                  *)
(***************************************************************************)
THEOREM NewestIsSelected == Spec => []NewestSelected
<1>1. Inv => NewestSelected
  BY DEF Inv, Selected, NewestSelected
<1> QED
  BY <1>1, Invariance, PTL

(***************************************************************************)
(* Whatever the files hold, the last default for the name decides.         *)
(***************************************************************************)
THEOREM DefaultIsOverridden == Spec => []DefaultOverridden
<1>1. Inv => DefaultOverridden
  BY DEF Inv, Selected, DefaultOverridden
<1> QED
  BY <1>1, Invariance, PTL

(***************************************************************************)
(* The entry that is found anew for the selected version is one for the    *)
(* stack, also when files define a version again.                          *)
(***************************************************************************)
THEOREM EntryIsForStack == Spec => []EntryFitsStack
<1>1. Inv => EntryFitsStack
  BY DEF Inv
<1> QED
  BY <1>1, Invariance, PTL

(***************************************************************************)
(* Selection never fails without a reason in its inputs: no order of the   *)
(* files leaves two defaults for a name or loses an entry.                 *)
(***************************************************************************)
THEOREM FailuresHaveReasons == Spec => []FailsForAReason
<1>1. Inv => FailsForAReason
  BY DEF Inv
<1> QED
  BY <1>1, Invariance, PTL
=============================================================================
