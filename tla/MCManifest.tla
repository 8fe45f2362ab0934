----------------------------- MODULE MCManifest ------------------------------
(***************************************************************************)
(* A few stacks, a handful of versions and override files for TLC.           *)
(***************************************************************************)
EXTENDS Manifest

MCName == {"python", "pip"}
MCStack == {"cflinuxfs3", "cflinuxfs4", "cflinuxfs5"}
MCNumber == {0, 1, 3, 9, 10, 26, 99}
MCSha256 == {"base", "base fs4", "base fs5", "new", "redefined"}

OnBoth == {"cflinuxfs4", "cflinuxfs5"}
Of(n, v, stacks, sha256) == [name |-> n, version |-> v, stacks |-> stacks, sha256 |-> sha256]
DefaultOf(n, c) == [name |-> n, version |-> c]
PythonFile(ds, es) == [language |-> "python", defaults |-> ds, entries |-> es]

\* As in manifest.yml: some versions once for all stacks, some once per stack.
BaseEntries ==
    <<Of("pip", <<26, 1, 0>>, OnBoth, "base"),
      Of("python", <<3, 10, 1>>, {"cflinuxfs4"}, "base fs4"),
      Of("python", <<3, 10, 1>>, {"cflinuxfs5"}, "base fs5"),
      Of("python", <<3, 9, 10>>, OnBoth, "base"),
      Of("python", <<3, 9, 9>>, OnBoth, "base"),
      Of("python", <<3, 10, 0>>, {"cflinuxfs4"}, "base")>>

\* The manifest of a buildpack that is packaged for one stack: the entries of
\* that stack, without their lists.
Packaged(es, stack) ==
    LET On(e) == stack \in e.stacks
        kept == SelectSeq(es, On)
    IN  [i \in DOMAIN kept |-> [kept[i] EXCEPT !.stacks = {}]]

NewPython == Of("python", <<3, 99, 0>>, OnBoth, "new")
NewOnOneStack == Of("python", <<3, 9, 26>>, {"cflinuxfs5"}, "new")
Redefined == Of("python", <<3, 10, 1>>, OnBoth, "redefined")
NewPip == Of("pip", <<99, 0, 0>>, OnBoth, "new")

Files ==
    {Unreadable,
     [language |-> "other", defaults |-> <<DefaultOf("python", <<3, 10, 1>>)>>,
      entries |-> <<NewPython>>],
     PythonFile(<<DefaultOf("python", <<3, 99, 0>>)>>, <<NewPython>>),
     PythonFile(<<DefaultOf("python", <<3, 9>>)>>, <<>>),
     PythonFile(<<DefaultOf("pip", <<99>>), DefaultOf("python", <<1>>)>>, <<NewOnOneStack>>),
     PythonFile(<<>>, <<NewPip>>),
     PythonFile(<<>>, <<Redefined>>)}

Manifests ==
    {[bpStack |-> NoStack, entries |-> BaseEntries],
     [bpStack |-> NoStack, entries |-> SubSeq(BaseEntries, 4, 5)],
     [bpStack |-> "cflinuxfs4", entries |-> Packaged(BaseEntries, "cflinuxfs4")]}

Bare ==
    [stack : MCStack, manifest : Manifests,
     defaults : {<<>>, <<DefaultOf("python", <<3, 10>>)>>,
                 <<DefaultOf("python", <<3, 10>>), DefaultOf("python", <<3, 9>>)>>},
     overrides : {<<>>} \cup {<<f>> : f \in Files} \cup {<<f, g>> : f \in Files, g \in Files}]

Asking(s, name, asks, range) ==
    [stack |-> s.stack, bpStack |-> s.manifest.bpStack, defaults |-> s.defaults,
     entries |-> s.manifest.entries,
     overrides |-> s.overrides, name |-> name, asks |-> asks, range |-> range]

Ranges == {Unreadable, <<3>>, <<3, 9>>, <<3, 10>>, <<3, 9, 9>>, <<1>>}

MCScenarios ==
    {Asking(s, "python", "range", c) : s \in {b \in Bare : b.defaults = <<>>}, c \in Ranges}
    \cup {Asking(s, "python", "default", Unreadable) : s \in Bare}
    \cup {Asking(s, n, "only", Unreadable) :
             s \in {b \in Bare : b.defaults = <<>>}, n \in MCName}
=============================================================================
