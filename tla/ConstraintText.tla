--------------------------- MODULE ConstraintText ---------------------------
(***************************************************************************)
(* How the python version that Pipfile.lock or runtime.txt names becomes a *)
(* constraint of Versions.  A text is given by its parts, split at dots    *)
(* and without "python-": "3.9.x" is <<3, 9, Wildcard>>, and the empty     *)
(* text has one part, the empty one.                                       *)
(***************************************************************************)
EXTENDS Versions, Sequences

CONSTANTS
    Wildcard,   \* the part "x"
    Empty       \* the part without a character

\* With less than a patch version it names a version line: "3.9" is "3.9.x",
\* and the text that a lock without python_version gives is ".x".
formatVersion(version) ==
    IF Len(version) < 3 THEN Append(version, Wildcard) ELSE version

\* Mistake: an empty part is taken for one that is left open.
ReadConstraintLoosely(text) ==
    LET IsGiven(part) == part \notin {Wildcard, Empty}
    IN  SelectSeq(text, IsGiven)

(***************************************************************************)
(* The numbers a text of up to three parts fixes, wildcards at its end.    *)
(* blang's ParseRange, which is tried first, takes three numbers or a      *)
(* wildcard behind one or two; in ".x" it finds no digit (range.go:239).   *)
(* Masterminds' NewConstraint then fills up two numbers with a zero and    *)
(* leaves the rest open after one; an empty part does not match there      *)
(* either, its expression wants a character in each part                   *)
(* (constraints.go:182 and 398).                                           *)
(***************************************************************************)
ReadConstraint(text) ==
    LET IsGiven(part) == part # Wildcard
    IN  IF \E i \in DOMAIN text : text[i] = Empty THEN Unreadable
        ELSE IF Len(text) = 2 /\ text[2] # Wildcard THEN Append(text, 0)
        ELSE SelectSeq(text, IsGiven)
=============================================================================
