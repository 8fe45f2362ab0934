--------------------------- MODULE MCBuildpackChain --------------------------
(***************************************************************************)
(* This buildpack with one or two others, in every order: one that brings  *)
(* a python of its own, and one that shares a variable and the name of a   *)
(* script with this buildpack.                                             *)
(***************************************************************************)
EXTENDS BuildpackChain

MCOther == {"apt", "nodejs"}
MCCommand == {"python", "pip", "node"}
MCScript == OwnScript \cup {"appdynamics.sh", "apt.sh", "lang.sh"}
MCCommands == [apt |-> {"python"}, nodejs |-> {"node"}]
MCEnvFiles == [apt |-> {}, nodejs |-> {"LANG"}]
MCScripts == [apt |-> {"apt.sh"}, nodejs |-> {"lang.sh", "appdynamics.sh"}]

Orders(S) == UNION {{c \in [1 .. Cardinality(T) -> T] : \A i, j \in DOMAIN c : c[i] = c[j] => i = j}
                      : T \in SUBSET S}

MCChains ==
    {c \in Orders({"python", "apt", "nodejs"}) \cup Orders({"conda", "apt", "nodejs"}) :
        \E i \in DOMAIN c : c[i] \in {"python", "conda"}}
=============================================================================
