------------------------------ MODULE MCMerge ------------------------------
(* Small instances of the merge for TLC. *)
EXTENDS Merge, TLC

MCPaths == {<<"a">>, <<"a", "x">>, <<"a", "y">>, <<"a", "x", "z">>}

(* Sources: scalars, empty objects, arrays and objects in each other's way. *)
MCContents ==
    {<<"a">> :> k : k \in {"scalar", "empty"}} \cup
    {c \in UNION {[S -> {"scalar", "empty", "array"}] :
             S \in SUBSET {<<"a", "x">>, <<"a", "y">>, <<"a", "x", "z">>}} :
        /\ DOMAIN c # {}
        /\ \A p, q \in DOMAIN c : p # q => ~overlap(p, q)
        /\ \A p \in DOMAIN c : p # <<"a", "x">> => c[p] = "scalar"}

MCDecoded == {<< >> :> k : k \in {"scalar", "array"}} \cup {[r \in {<<"x">>, <<"y">>} |-> "scalar"]}
=============================================================================
