----------------------------- MODULE Overrides -----------------------------
(***************************************************************************)
(* Sources read from the environment and from arguments: mapping.ts of     *)
(* packages/core, process-env-source.ts and argv-source.ts of              *)
(* packages/node.  A raw value is a word of RawValues; what a parser makes *)
(* of it is the word and the parser.                                       *)
(***************************************************************************)
EXTENDS PathTrie, Sequences, SequencesExt, FiniteSets

CONSTANTS RawValues,            \* texts a variable or an argument may hold
          Integers_, UnsafeIntegers, Decimals, FiniteNumbers,   \* what they look like
          Booleans, JsonTexts, Blank,
          ValueTokens,          \* arguments isArgValueToken accepts
          Assigned,             \* arguments "name=value", with both parts
          Prefixed,             \* variables that begin with the strict prefix
          UnsafeSegments,       \* segments isUnsafePathSegment names
          NamesWithEquals       \* texts that contain "="

(* A JSON object has some fields, each of them good, empty, bad, or a word the code looks at. *)
has(r, f) == f \in DOMAIN r.fields
malformed(r, f) == has(r, f) /\ r.fields[f] \in {"bad", "empty"}
lacks(r, f) == ~has(r, f) \/ malformed(r, f)
word(r, f, words) == has(r, f) /\ r.fields[f] \in words
when(condition, code) == IF condition THEN <<code>> ELSE << >>

put(f, key, x) == [k \in DOMAIN f \cup {key} |-> IF k = key THEN x ELSE f[k]]

setting(mapping, f, default) == IF has(mapping, f) THEN mapping.fields[f] ELSE default

parseMappedValue(raw, mapping) ==
    CASE setting(mapping, "parseAs", "string") = "string" -> TRUE
      [] mapping.fields.parseAs = "number" ->
            /\ raw \in FiniteNumbers
            /\ setting(mapping, "numberFormat", "javascript") = "decimal" => raw \in Decimals
            /\ setting(mapping, "numberFormat", "javascript") = "integer" => raw \in Integers_ \ UnsafeIntegers
      [] mapping.fields.parseAs = "boolean" -> raw \in Booleans
      [] mapping.fields.parseAs = "json" -> raw \in JsonTexts

validMappingPolicy(mapping) ==
    /\ has(mapping, "numberFormat") => ~malformed(mapping, "numberFormat") /\ word(mapping, "parseAs", {"number"})
    /\ ~malformed(mapping, "emptyValue")

parsedValue(raw, mapping) == <<raw, setting(mapping, "parseAs", "string")>>

(* One round of the loop: x is what has been mapped so far. *)
applyMapping(x, mapping, values) ==
    LET raw == values[mapping.name]
        conflict == conflictWith(x.trie, mapping.target)
        report(y, code) == [y EXCEPT !.issues = Append(@, code)]
        entered == [x EXCEPT !.trie = addPath(@, mapping.target)]
    IN  IF ~validMappingPolicy(mapping) THEN report(x, "mapping_policy_invalid")
        ELSE IF mapping.name \notin DOMAIN values THEN x
        ELSE IF raw = Blank /\ setting(mapping, "emptyValue", "parse") = "ignore" THEN x
        ELSE IF raw = Blank /\ setting(mapping, "emptyValue", "parse") = "error" THEN report(x, "mapping_empty_value")
        ELSE IF conflict # "none" THEN report(x, conflict)
        ELSE IF \E i \in DOMAIN mapping.target : mapping.target[i] \in UnsafeSegments THEN report(entered, "unsafe_mapping_path")
        ELSE IF ~parseMappedValue(raw, mapping) THEN report(entered, "mapping_parse_failed")
        ELSE [entered EXCEPT !.value = put(@, mapping.target, parsedValue(raw, mapping))]

createMappedOverrideSource(kind, values, mappings) ==
    LET loop(x, mapping) == IF mapping.kind = kind THEN applyMapping(x, mapping, values) ELSE x
    IN  FoldLeft(loop, [value |-> << >>, issues |-> << >>, trie |-> emptyTrie], mappings)

externalNames(kind, mappings) == {mappings[i].name : i \in {j \in DOMAIN mappings : mappings[j].kind = kind}}
secretTargets(kind, mappings) ==
    {mappings[i].target : i \in {j \in DOMAIN mappings : mappings[j].kind = kind /\ setting(mappings[j], "secret", "false") = "true"}}

result(value, issues, secretPaths) == [value |-> value, issues |-> issues, secretPaths |-> secretPaths]

-----------------------------------------------------------------------------
(* Environment: every name under the strict prefix is mapped or reported.    *)
unmappedEnvPolicy(source) ==
    when(malformed(source, "unmappedBehavior"), "unmapped_env_behavior_invalid")
      \o when(has(source, "unmappedPrefix") /\ ~has(source, "unmappedBehavior"), "unmapped_env_behavior_required")
      \o when(has(source, "unmappedBehavior") /\ lacks(source, "unmappedPrefix"), "unmapped_env_prefix_required")

createProcessEnvSource(source, env) ==
    LET names == externalNames("env", source.mappings)
        unmapped == SetToSeq({n \in DOMAIN env \cap Prefixed : has(source, "unmappedBehavior") /\ n \notin names})
        values == [n \in DOMAIN env \cap names |-> env[n]]
        mapped == createMappedOverrideSource("env", values, source.mappings)
    IN  IF Cardinality(DOMAIN env) > source.maximum
        THEN result(<< >>, <<"max_env_entries_exceeded">>, source.secretPaths)
        ELSE IF unmappedEnvPolicy(source) # << >>
        THEN result(<< >>, <<Head(unmappedEnvPolicy(source))>>, source.secretPaths)
        ELSE result(mapped.value, [i \in DOMAIN unmapped |-> "unmapped_env_entry"] \o mapped.issues,
                    source.secretPaths \cup secretTargets("env", source.mappings))

-----------------------------------------------------------------------------
(* Arguments: a name takes the token after it when that looks like a value. *)
recordArgObservation(observations, name, found, value) ==
    LET old == IF name \in DOMAIN observations THEN observations[name]
               ELSE [matchCount |-> 0, hasInvalidMatch |-> FALSE, value |-> Blank]
    IN  put(observations, name, [matchCount |-> old.matchCount + 1, hasInvalidMatch |-> old.hasInvalidMatch \/ ~found,
                                 value |-> IF found THEN value ELSE old.value])

matchAssignmentPrefixes(names, arg) == arg \in DOMAIN Assigned /\ Assigned[arg].name \in names

Bug_scanToken(x, i, argv, names) ==      \* a token taken as a value is looked at again
    IF argv[i] \in names
    THEN LET hasValue == i < Len(argv) /\ argv[i + 1] \in ValueTokens
         IN  [x EXCEPT !.observations =
                 recordArgObservation(@, argv[i], hasValue, IF hasValue THEN argv[i + 1] ELSE Blank)]
    ELSE IF matchAssignmentPrefixes(names, argv[i])
    THEN [x EXCEPT !.observations = recordArgObservation(@, Assigned[argv[i]].name, TRUE, Assigned[argv[i]].value)]
    ELSE [x EXCEPT !.unmapped = @ \cup {i}]
scanToken(x, i, argv, names) ==
    IF x.taken = i THEN x
    ELSE IF argv[i] \in names
    THEN LET hasValue == i < Len(argv) /\ argv[i + 1] \in ValueTokens
         IN  [x EXCEPT !.taken = IF hasValue THEN i + 1 ELSE @,
                       !.observations = recordArgObservation(@, argv[i], hasValue, IF hasValue THEN argv[i + 1] ELSE Blank)]
    ELSE IF matchAssignmentPrefixes(names, argv[i])
    THEN [x EXCEPT !.observations = recordArgObservation(@, Assigned[argv[i]].name, TRUE, Assigned[argv[i]].value)]
    ELSE [x EXCEPT !.unmapped = @ \cup {i}]
scanArgv(argv, names) ==
    FoldLeftDomain(LAMBDA x, i : scanToken(x, i, argv, names),
                   [taken |-> 0, observations |-> << >>, unmapped |-> {}], argv)

observationToArgValue(observations, name) ==
    IF name \notin DOMAIN observations THEN "missing"
    ELSE IF observations[name].matchCount > 1 THEN "duplicate"
    ELSE IF observations[name].hasInvalidMatch THEN "invalid" ELSE "found"

createArgvSource(source, argv) ==
    LET names == externalNames("argv", source.mappings)
        scan == scanArgv(argv, names)
        status(n) == observationToArgValue(scan.observations, n)
        unmapped == IF has(source, "unmappedBehavior") THEN SetToSeq(scan.unmapped) ELSE << >>
        refuse(codes, q) == IF q.kind = "argv" /\ status(q.name) \in {"invalid", "duplicate"} THEN Append(codes, status(q.name)) ELSE codes
        values == [n \in {m \in names : status(m) = "found"} |-> scan.observations[n].value]
        mapped == createMappedOverrideSource("argv", values, source.mappings)
    IN  IF names \cap NamesWithEquals # {}
        THEN result(<< >>, <<"argv_mapping_external_name_invalid">>, source.secretPaths)
        ELSE IF Len(argv) > source.maximum
        THEN result(<< >>, <<"max_argv_entries_exceeded">>, source.secretPaths)
        ELSE IF malformed(source, "unmappedBehavior")
        THEN result(<< >>, <<"unmapped_argv_behavior_invalid">>, source.secretPaths)
        ELSE result(mapped.value,
                    [i \in DOMAIN unmapped |-> "unmapped_argv_entry"] \o FoldLeft(refuse, << >>, source.mappings) \o mapped.issues,
                    source.secretPaths \cup secretTargets("argv", source.mappings))
=============================================================================
