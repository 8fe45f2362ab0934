------------------------------ MODULE Versions ------------------------------
(***************************************************************************)
(* The order on versions and their selection by a constraint               *)
(* (libbuildpack/versions.go).  A version is its three numbers; versions   *)
(* with a pre-release part are left out.  A constraint is the numbers it   *)
(* fixes: "3.9.21" all three, "3.9.x" two, "3.x" one.                      *)
(***************************************************************************)
EXTENDS Naturals

CONSTANTS
    Number,      \* what the parts of a version range over
    Unreadable,  \* a constraint or a file that cannot be parsed
    NoVersion

Version == [1 .. 3 -> Number]
Constraint == UNION {[1 .. n -> Number] : n \in 1 .. 3} \cup {Unreadable}

ASSUME NumberAssumption == Number \subseteq Nat
ASSUME NoVersionAssumption ==
    NoVersion \notin Version /\ Unreadable \notin UNION {[1 .. n -> Number] : n \in 1 .. 3}

\* Mistake: versions are compared as text, 3.10 before 3.9.
LTAsText(v, w) ==
    LET First(n) == IF n < 10 THEN n ELSE n \div 10
        Before(m, n) == First(m) < First(n) \/ (First(m) = First(n) /\ m < n)
    IN  \E i \in 1 .. 3 : Before(v[i], w[i]) /\ \A j \in 1 .. i - 1 : v[j] = w[j]

LT(v, w) == \E i \in 1 .. 3 : v[i] < w[i] /\ \A j \in 1 .. i - 1 : v[j] = w[j]

Matches(c, v) == c # Unreadable /\ \A i \in DOMAIN c : v[i] = c[i]

Matching(c, versions) == {v \in versions : Matches(c, v)}

\* The last of those that match, in ascending order; NoVersion stands for the
\* error when there is none.
FindMatchingVersion(c, versions) ==
    LET matching == Matching(c, versions)
    IN  IF matching = {} THEN NoVersion
        ELSE CHOOSE v \in matching : \A w \in matching : w = v \/ LT(w, v)
=============================================================================
