-------------------------- MODULE MCDeclaredInput --------------------------
(* One good source of each kind and everything one field away from it; lists of *)
(* mappings; declarations with equal ids, profiles and limits; and too many     *)
(* issues for the bound.                                                        *)
EXTENDS DeclaredInput

goodFields ==
    [object |-> [value |-> "good"], file |-> [path |-> "good"], adapter |-> [path |-> "good", format |-> "json"],
     env |-> [mappings |-> "good"], argv |-> [mappings |-> "good"]]
noPolicy == [object |-> TRUE, fields |-> << >>]
src(id, kind, fields, mappings) ==
    [object |-> TRUE, id |-> id, kind |-> kind, fields |-> ("priority" :> "good") @@ fields, mappings |-> mappings, policy |-> noPolicy]
good(id, kind) == src(id, kind, goodFields[kind], << >>)
doc(fields, list, validators, limits, named) ==
    [object |-> TRUE, fields |-> ("sources" :> "good") @@ fields, sources |-> list, validators |-> validators,
     rules |-> << >>, limits |-> limits, profiles |-> named]
plain(list) == doc(<< >>, list, << >>, << >>, << >>)

right(f) ==
    CASE f = "parseAs" -> "string" [] f = "numberFormat" -> "javascript" [] f = "emptyValue" -> "parse"
      [] f = "secret" -> "false" [] OTHER -> "good"
edits(r, names) ==      \* r with one field taken away, added or changed
    {[r EXCEPT !.fields = [f \in DOMAIN @ \ {g} |-> @[f]]] : g \in names}
      \cup {[r EXCEPT !.fields = (g :> c) @@ @] : g \in names, c \in {"bad", "empty"}}
      \cup {[r EXCEPT !.fields = (g :> right(g)) @@ @] : g \in names}

sourceFields(k) == {"priority", "displayName", "redaction", "unknown"} \cup SOURCE_KIND_FIELDS[k]
sourceEdits ==
    UNION {edits(good("a", k), sourceFields(k)) : k \in Kinds}
      \cup {[good("a", "object") EXCEPT !.kind = ""], [good("a", "object") EXCEPT !.kind = "other"], good("", "file"),
            [good("a", "file") EXCEPT !.object = FALSE]}
      \cup {src("a", "adapter", [path |-> "good", format |-> f, allowTrailingComma |-> c], << >>) :
               f \in {"json", "jsonc", "bad"}, c \in {"good", "bad"}}
      \cup {src("a", "env", [mappings |-> "good", unmappedBehavior |-> b, unmappedPrefix |-> p], << >>) :
               b \in {"warning", "bad"}, p \in {"good", "empty"}}
      \cup {[good("a", "object") EXCEPT !.fields = ("redaction" :> "good") @@ @, !.policy = q] :
               q \in edits(noPolicy, {"secretSource", "secretPaths", "secretNamePatterns", "unknown"})}

map(name, target, kind, fields) == [object |-> TRUE, name |-> name, target |-> target, kind |-> kind, fields |-> fields]
strict(kind) == IF kind = "env" THEN [mappings |-> "good", unmappedBehavior |-> "error", unmappedPrefix |-> "good"]
                ELSE [mappings |-> "good", unmappedBehavior |-> "warning"]
mapped(kind, fields, mappings) == src("a", kind, fields, mappings)
mappingEdits ==
    LET base(k) == map("--x", <<"p">>, k, << >>)
        qs(k) == edits(base(k), {"parseAs", "numberFormat", "emptyValue", "secret", "unknown"})
                   \cup {[base(k) EXCEPT !.name = ""], [base(k) EXCEPT !.name = "n="], [base(k) EXCEPT !.target = << >>],
                         [base(k) EXCEPT !.object = FALSE], [base(k) EXCEPT !.kind = "argv"]}
                   \cup {map("--x", <<"p">>, k, [parseAs |-> "number", numberFormat |-> f]) : f \in {"decimal", "integer", "bad"}}
                   \cup {map("--x", t, k, ("parseAs" :> p) @@ ("emptyValue" :> e)) :
                            t \in {<<"p">>, <<"__proto__">>}, p \in {"string", "number", "boolean", "json"}, e \in {"parse", "ignore", "error"}}
    IN  {mapped(k, strict(k), <<q>>) : k \in {"env", "argv"}, q \in UNION {qs(j) : j \in {"env", "argv"}}}
mappingLists ==
    {mapped(k, strict(k), <<map(n[1], t[1], k, << >>), map(n[2], t[2], k, << >>), map(n[3], t[3], k, [secret |-> "true"])>>) :
        k \in {"env", "argv"},
        n \in {<<"--x", "-y", "z">>, <<"--x", "--x", "-y">>},
        t \in [1..3 -> {<<"p">>, <<"q">>, <<"p", "q">>, <<"p", "r">>, <<"r">>}]}
      \cup {mapped(k, strict(k), [i \in 1..4 |-> map(<<"--x", "-y", "z", "w">>[i], t[i], k, << >>)]) :   \* more than the bound on diagnostics
               k \in {"env", "argv"}, t \in {<< <<"p">>, <<"q">>, <<"r">>, <<"s">> >>, << <<"p">>, <<"q">>, <<"r">>, <<"p">> >>}}

val(id, fields) == [object |-> TRUE, id |-> id, fields |-> fields]
goodVal(id) == val(id, [kind |-> "good", schema |-> "good"])
idDocuments ==
    {doc(("validators" :> "good"), [i \in DOMAIN s |-> good(s[i], "object")], [i \in DOMAIN v |-> goodVal(v[i])], << >>, << >>) :
        s \in BoundedSeq({"a", "b", ""}, 3), v \in BoundedSeq({"a", "c", ""}, 2)}
otherDocuments ==
    edits(plain(<<good("a", "object")>>), {"validators", "coercionRules", "limits", "profiles", "extends", "unknown"})
      \cup edits(plain(<< >>), {"sources", "unknown"})
      \cup {[plain(<< >>) EXCEPT !.object = FALSE]}
      \cup {doc(("validators" :> "good"), << >>, <<v>>, << >>, << >>) :
               v \in edits(goodVal("v"), {"kind", "schema", "includeConstraints", "unknown"}) \cup {[goodVal("v") EXCEPT !.object = FALSE]}}
      \cup {[doc(("coercionRules" :> "good"), << >>, << >>, << >>, << >>) EXCEPT !.rules = <<r>>] :
               r \in edits([object |-> TRUE, fields |-> [path |-> "good", from |-> "good", to |-> "good", onFailure |-> "good"]],
                           {"path", "from", "to", "onFailure", "unknown"}) \cup {[object |-> FALSE, fields |-> << >>]}}
crowded ==              \* as many issues as fit, and a list that is none
    {doc([validators |-> v, limits |-> "good"], [i \in 1..n |-> [good("a", "object") EXCEPT !.id = ""]], << >>, l, << >>) :
        v \in {"good", "bad"}, n \in 1..3, l \in {<< >>, ("maxSources" :> 3)}}
limitDocuments ==
    {doc([limits |-> "good", validators |-> "good"], [i \in 1..n |-> good(<<"a", "b">>[i], "object")], <<goodVal("v"), goodVal("w")>>, l, << >>) :
        n \in 0..2,
        l \in {("maxSources" :> 1), ("maxSources" :> 0), ("maxProvenanceEvents" :> 1), ("maxReportBytes" :> 3), ("maxReportBytes" :> 8), ("colour" :> 1)}}
prof(fields, ids, vals, limits) == doc(fields, [i \in DOMAIN ids |-> good(ids[i], "object")], [i \in DOMAIN vals |-> goodVal(vals[i])], limits, << >>)
profiles ==
    {prof(<< >>, ids, << >>, << >>) : ids \in {<<"a">>, <<"c">>, <<"c", "d">>, <<"c", "d", "e">>, <<"c", "c">>}}
      \cup {prof(("validators" :> "good"), <<"c">>, v, << >>) : v \in {<<"a">>, <<"c">>, <<"v">>, <<"w">>}}
      \cup {prof(("limits" :> "good"), <<"c">>, << >>, l) : l \in {("maxSources" :> 1), ("maxSources" :> 0), ("maxSources" :> 3)}}
      \cup {prof(("limits" :> "bad"), << >>, << >>, << >>), prof(("profiles" :> "good"), << >>, << >>, << >>),
            [prof(<< >>, << >>, << >>, << >>) EXCEPT !.fields = << >>], [prof(<< >>, << >>, << >>, << >>) EXCEPT !.object = FALSE]}
profileDocuments ==
    {doc([profiles |-> "good", limits |-> "good", validators |-> "good"], [i \in 1..n |-> good(<<"a", "b">>[i], "object")], <<goodVal("v")>>, l, p) :
        n \in 0..2, l \in {<< >>, ("maxSources" :> 1), ("maxSources" :> 3), ("maxProvenanceEvents" :> 1), ("maxSources" :> 0)},
        p \in {("prod" :> q) : q \in profiles} \cup {("-" :> prof(<< >>, << >>, << >>, << >>)),
               ("prod" :> prof(<< >>, <<"c">>, << >>, << >>)) @@ ("test" :> prof(<< >>, <<"d">>, << >>, << >>)),
               [m \in {"prod", "test", "-"} |-> prof(<< >>, << >>, << >>, << >>)]}}

MCDocuments ==
    {plain(<<s>>) : s \in sourceEdits \cup mappingEdits \cup mappingLists}
      \cup idDocuments \cup otherDocuments \cup crowded \cup limitDocuments \cup profileDocuments

MCEnvironments == {<< >>, ("--x" :> "12"), ("--x" :> "") @@ ("-y" :> "true"), ("--x" :> "text") @@ ("other" :> "12") @@ ("w" :> "12")}
MCArguments ==
    {<< >>, <<"--x", "12">>, <<"--x=1.5", "z", "text">>, <<"--x", "-y", "12">>, <<"z", "z", "12">>, <<"--x", "12", "--x=12">>,
     <<"-y", "--x", "-5">>, <<"--x=", "text", "-y">>, <<"--x", "z", "12", "--x">>, <<"12", "12", "12", "12", "12">>}
MCAssigned == [t \in {"--x=1.5", "--x=12", "--x="} |->
                 [name |-> "--x", value |-> IF t = "--x=1.5" THEN "1.5" ELSE IF t = "--x=12" THEN "12" ELSE ""]]
=============================================================================
