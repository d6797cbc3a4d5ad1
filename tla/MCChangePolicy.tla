--------------------------- MODULE MCChangePolicy ---------------------------
(* Results of two sources, "p" and "s", over the key "o" and the secret name "k". *)
EXTENDS ChangePolicy, TLC

root == << >> :> "object"
under(t) == root @@ [q \in {<<"o">> \o r : r \in DOMAIN t} |-> t[SubSeq(q, 2, Len(q))]]

leaf(x) == << >> :> x
inner(x, S) == [r \in {<< >>} \cup S |-> IF r = << >> THEN x ELSE "v"]

Arrays == {under(inner("array", S)) : S \in {{<<"0">>}, {<<"0">>, <<"1">>}}}
Objects == {under(inner("object", S)) : S \in {{<<"x">>}, {<<"x">>, <<"y">>}}}
                \cup {under((<<"x">> :> "w") @@ leaf("object"))}
Named == {t @@ (<<"k">> :> "v") : t \in {root, under(inner("object", {<<"x">>, <<"y">>}))}}

Trees == {root, under(leaf("1"))} \cup Arrays \cup Objects \cup Named

leaves(t) == {p \in DOMAIN t \ {<< >>} :
    /\ t[p] = "object" => \A q \in DOMAIN t : isPathPrefix(p, q) => q = p
    /\ \A q \in DOMAIN t : isPathPrefix(q, p) /\ q # p => t[q] = "object"}

owner(w, o, l) == [winner |-> w, overridden |-> o, line |-> l]
plain == owner("p", << >>, 1)
Owners_ == {plain, owner("p", <<"s">>, 1), owner("s", <<"p">>, 1), owner("p", << >>, 2)}

descriptor(n, secret, paths, names) ==
    [priority |-> n, secretSource |-> secret, secretPaths |-> paths, secretNames |-> names]
good == descriptor(1, FALSE, {}, {})
SourceLists ==
    {[id \in {"p", "s"} |-> IF id = "p" THEN good ELSE d] :
        d \in {descriptor(2, TRUE, {}, {}), descriptor(3, FALSE, {<<"o", "x">>, <<"o", "0">>}, {"y"})}}

diagnostic(p, s, t, v) == [path |-> p, source |-> s, previous |-> t, validator |-> v]
Notes == {diagnostic({<<"o">>}, {"p"}, {}, FALSE), diagnostic({}, {"s"}, {}, FALSE),
          diagnostic({<<"o", "x">>}, {"s"}, {}, TRUE), diagnostic({<<"k">>}, {"p"}, {"s"}, FALSE)}

result(t, o, p, s, ok, incomplete) ==
    [ok |-> ok, incomplete |-> incomplete, config |-> t, sources |-> s, issues |-> Notes, provenance |-> Notes,
     resolved |-> [q \in leaves(t) \ (IF incomplete THEN {<<"k">>} ELSE {}) |-> IF q = p THEN o ELSE plain]]

results(T, O) ==
    {result(t, o, p, s, TRUE, FALSE) : t \in T, o \in O, p \in {<<"o">>, <<"o", "x">>}, s \in SourceLists}
Large == CHOOSE t \in Named : Cardinality(DOMAIN t) > 3
failed(i) == {result(Large, owner("s", <<"p">>, 1), <<"o", "x">>, s, FALSE, i) : s \in SourceLists}

(* Results that gave up their trees. *)
givenUp(i) == {[R EXCEPT !.config = root] : R \in failed(i)}

(* A secret object on both sides, with its leaves and their owners. *)
secretObjects(O) ==
    {result(root @@ [q \in {<<"k">>} \cup S |-> IF q = <<"k">> THEN "object" ELSE "v"], o, <<"k", "x">>, s, TRUE, FALSE) :
        S \in {{<<"k", "x">>}, {<<"k", "x">>, <<"k", "y">>}}, o \in O, s \in SourceLists}

MCBefores ==
    results({under(inner("array", {<<"0">>})), Large}, {owner("p", <<"s">>, 1)}) \cup secretObjects({plain})
        \cup failed(TRUE) \cup givenUp(TRUE)
MCAfters == results(Trees, Owners_) \cup secretObjects(Owners_) \cup failed(FALSE) \cup givenUp(FALSE)

MCOptions == {[ids |-> {}, paths |-> {<<"o", "y">>}, names |-> {}]}

MCComparisons ==
    LET all == [values |-> TRUE, sources |-> TRUE, locations |-> TRUE]
        none == [values |-> FALSE, sources |-> FALSE, locations |-> FALSE]
    IN  {all, none, [none EXCEPT !.values = TRUE], [none EXCEPT !.sources = TRUE]}

rule(i, p, m, a) == [id |-> i, path |-> p, mode |-> m, allowed |-> a]
forbid(i, p) == rule(i, p, "forbid-changes", {})
MCPolicies ==
    {<<forbid("1", p)>> : p \in {<<"o", "x">>, <<"o", "0">>, <<"k">>}}
        \cup {<<forbid("1", <<"o">>), forbid(i, <<"o", "x">>)>> : i \in {"1", "2"}}
        \cup {<<rule("1", <<"o", "x">>, "require-path", {}), rule("2", <<"o">>, "allowed-sources", {"p"})>>}

fit == [before |-> {}, after |-> {}, diff |-> FALSE]
MCOverflows ==
    {fit, [before |-> {"report"}, after |-> {"inspection"}, diff |-> TRUE]}

MCQueryPaths == {<<"o">>, <<"o", "x">>, <<"o", "x", "z", "z">>}
=============================================================================
