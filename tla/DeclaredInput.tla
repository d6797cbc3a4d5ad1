--------------------------- MODULE DeclaredInput ---------------------------
(***************************************************************************)
(* One declaration from its document to the sources it declares:           *)
(* readSingleDeclaration and loadPipelineDeclarationContext of             *)
(* packages/node/src/pipeline.ts, selectPipelineProfile of profiles.ts,    *)
(* normalizePipelineDeclaration, and the environment and argument sources  *)
(* of loadDeclaredSources.                                                 *)
(***************************************************************************)
EXTENDS Declaration

CONSTANTS ParsedDocuments,      \* parsed declarations
          NoProfile,            \* no profile is asked for
          Environments, Arguments,      \* what the process was given
          MaxEntries            \* entries a source takes when it does not say

(* A parsed declaration: records of their flag, their fields and what stands   *)
(* beside them, which is empty where the field it belongs to is not there.     *)
isList(s) == s \in Seq(ToSet(s))
isFunction(f) == IsFiniteSet(DOMAIN f) /\ f = [x \in DOMAIN f |-> f[x]]
isJson(r) == r.object \in BOOLEAN /\ isFunction(r.fields)
isParsedMapping(q) ==
    /\ q = [object |-> q.object, name |-> q.name, target |-> q.target, kind |-> q.kind, fields |-> q.fields]
    /\ isJson(q) /\ isList(q.target)
    /\ has(q, "emptyValue") => q.fields.emptyValue \in {"parse", "ignore", "error", "bad", "empty"}
isParsedSource(s) ==
    /\ s = [object |-> s.object, id |-> s.id, kind |-> s.kind, fields |-> s.fields, mappings |-> s.mappings, policy |-> s.policy]
    /\ isJson(s) /\ isJson(s.policy) /\ s.policy = [object |-> TRUE, fields |-> s.policy.fields]
    /\ isList(s.mappings) /\ \A i \in DOMAIN s.mappings : isParsedMapping(s.mappings[i])
    /\ has(s, "redaction") \/ DOMAIN s.policy.fields = {}
    /\ s.kind \in {"env", "argv"} \/ s.mappings = << >>
isParsedValidator(v) == isJson(v) /\ v = [object |-> v.object, id |-> v.id, fields |-> v.fields]
isParsedRule(r) == isJson(r) /\ r = [object |-> r.object, fields |-> r.fields]
isParsedBody(body) ==
    /\ body = [object |-> body.object, fields |-> body.fields, sources |-> body.sources, validators |-> body.validators,
               rules |-> body.rules, limits |-> body.limits, profiles |-> body.profiles]
    /\ isJson(body) /\ isList(body.sources) /\ isList(body.validators) /\ isList(body.rules)
    /\ \A i \in DOMAIN body.sources : isParsedSource(body.sources[i])
    /\ \A i \in DOMAIN body.validators : isParsedValidator(body.validators[i])
    /\ \A i \in DOMAIN body.rules : isParsedRule(body.rules[i])
    /\ isFunction(body.limits) /\ \A f \in DOMAIN body.limits : body.limits[f] \in Nat
    /\ ~lacks(body, "limits") \/ DOMAIN body.limits = {}
isParsedDeclaration(body) ==
    /\ isParsedBody(body) /\ isFunction(body.profiles)
    /\ \A n \in DOMAIN body.profiles : isParsedBody(body.profiles[n]) /\ DOMAIN body.profiles[n].profiles = {}
    /\ has(body, "profiles") \/ DOMAIN body.profiles = {}

ASSUME InputConstants ==
    /\ \A d \in ParsedDocuments : isParsedDeclaration(d)
    /\ NoProfile \notin ProfileNames
    /\ {MaxProfiles, DefaultSources, DefaultEvents, MinReportBytes} \subseteq Nat
    /\ \A env \in Environments : isFunction(env) /\ \A n \in DOMAIN env : env[n] \in RawValues
    /\ \A argv \in Arguments : isList(argv) /\ ToSet(argv) \subseteq RawValues
    /\ DOMAIN Assigned \subseteq NamesWithEquals /\ \A a \in DOMAIN Assigned : Assigned[a].value \in RawValues
    /\ Blank \in RawValues /\ "none" \notin RawValues       \* "none" is what rawText says of a name without a text

VARIABLES document,             \* the parsed JSON
          profile,              \* the profile asked for
          stage,                \* "parsed", "read", "selected", "loaded"; "rejected" or "thrown"
          issues,               \* of the PipelineDeclarationError, when rejected
          found,                \* issues the validation came upon
          declaration,          \* the declaration the next stage works on
          given,                \* the environment and the arguments
          sources               \* what loadDeclaredSources returned in the places of env and argv sources

inputVars == <<document, profile, stage, issues, found, declaration, given, sources>>

-----------------------------------------------------------------------------
(* Normalisation copies the fields each kind has; a check of its own throws a *)
(* plain Error.                                                               *)
copied == [object |-> {"value"}, file |-> {"path", "maxFileBytes"},
           adapter |-> {"path", "format", "maxFileBytes", "allowTrailingComma"},
           env |-> {"mappings", "maxEnvEntries", "unmappedBehavior", "unmappedPrefix"},
           argv |-> {"mappings", "maxArgvEntries", "unmappedBehavior"}]
copy(r, names) == [r EXCEPT !.fields = [f \in names \cap DOMAIN r.fields |-> r.fields[f]]]
wrong(r, names) == \E f \in names \cap DOMAIN r.fields : r.fields[f] = "bad"

mappingThrows(mapping) == ~mapping.object \/ mapping.name = "" \/ wrong(mapping, {"parseAs", "secret"})
normalizeOverrideMapping(mapping, kind) ==
    [copy(mapping, {"parseAs", "numberFormat", "emptyValue", "secret"}) EXCEPT !.kind = kind]

policyThrows(policy) == wrong(policy, {"secretSource", "secretPaths", "secretNamePatterns"})
sourceThrows(s) ==
    \/ ~s.object \/ s.kind \notin Kinds \/ s.id = ""
    \/ ~has(s, "priority") \/ wrong(s, {"priority", "displayName"})
    \/ has(s, "redaction") /\ ~wrong(s, {"redaction"}) /\ policyThrows(s.policy)
    \/ s.kind \in {"file", "adapter"} /\ (~has(s, "path") \/ wrong(s, {"path", "maxFileBytes"}))
    \/ s.kind = "adapter" /\ (~has(s, "format") \/ wrong(s, {"format", "allowTrailingComma"}))
    \/ s.kind \in {"env", "argv"} /\ (~has(s, "mappings") \/ wrong(s, {"mappings", limitField(s.kind)})
                                      \/ \E i \in DOMAIN s.mappings : mappingThrows(s.mappings[i]))
    \/ s.kind = "env" /\ wrong(s, {"unmappedPrefix"})
Bug_normalizeSourceDeclaration(s) ==    \* the strict prefix is not copied
    [copy(s, BASE_SOURCE_FIELDS \cup (copied[s.kind] \ {"unmappedPrefix"})) EXCEPT
        !.policy = copy(@, {"secretSource", "secretPaths", "secretNamePatterns"}),
        !.mappings = [i \in DOMAIN @ |-> normalizeOverrideMapping(@[i], s.kind)]]
normalizeSourceDeclaration(s) ==
    [copy(s, BASE_SOURCE_FIELDS \cup copied[s.kind]) EXCEPT
        !.policy = copy(@, {"secretSource", "secretPaths", "secretNamePatterns"}),
        !.mappings = [i \in DOMAIN @ |-> normalizeOverrideMapping(@[i], s.kind)]]

bodyThrows(body) ==
    \/ lacks(body, "sources")
    \/ \E i \in DOMAIN body.sources : sourceThrows(body.sources[i])
    \/ \E i \in DOMAIN body.validators :
          LET v == body.validators[i] IN ~v.object \/ v.id = "" \/ wrong(v, {"includeConstraints"})
    \/ \E i \in DOMAIN body.rules :
          LET r == body.rules[i] IN ~r.object \/ lacks(r, "path") \/ lacks(r, "to")
    \/ \E f \in DOMAIN limitsOf(body) \cap RESOURCE_LIMIT_FIELDS : body.limits[f] = 0
declarationThrows(body) ==
    \/ bodyThrows(body)
    \/ \E n \in DOMAIN body.profiles : ~body.profiles[n].object \/ bodyThrows(profileToDeclaration(body.profiles[n]))

normalizeBody(body) ==
    [copy(body, {f \in {"sources", "validators", "coercionRules", "limits", "profiles", "extends"} : ~malformed(body, f)}) EXCEPT
        !.sources = [i \in DOMAIN @ |-> normalizeSourceDeclaration(@[i])],
        !.validators = [i \in DOMAIN @ |-> copy(@[i], {"kind", "schema", "includeConstraints"})],
        !.rules = [i \in DOMAIN @ |-> copy(@[i], {"path", "from", "to", "onFailure"})],
        !.limits = [f \in DOMAIN @ \cap RESOURCE_LIMIT_FIELDS |-> @[f]]]
normalizePipelineDeclaration(body) ==
    [normalizeBody(body) EXCEPT
        !.profiles = [n \in DOMAIN @ |-> normalizeBody(profileToDeclaration(@[n]))]]

-----------------------------------------------------------------------------
reject(codes) == stage' = "rejected" /\ issues' = codes /\ UNCHANGED <<declaration, sources, given>>

(* What validation finds is an error; the rest is normalised. *)
Settle(body, next) ==
    /\ found' = validation(body).found
    /\ IF validatePipelineDeclaration(body) # << >>
       THEN reject(IF Len(validatePipelineDeclaration(body)) <= MaxDiagnostics THEN validatePipelineDeclaration(body)
                   ELSE appendDeclarationIssues(<< >>, validatePipelineDeclaration(body)))
       ELSE /\ stage' = IF declarationThrows(body) THEN "thrown" ELSE next
            /\ declaration' = IF declarationThrows(body) THEN body ELSE normalizePipelineDeclaration(body)
            /\ UNCHANGED <<issues, sources, given>>

Read ==
    /\ stage = "parsed"
    /\ Settle(document, "read")
    /\ UNCHANGED <<document, profile>>

(* The declaration with the sources, validators, rules and limits of a profile. *)
compiled(body, p) ==
    LET selected == body.profiles[p]
        fieldsOf(x) == [f \in DOMAIN x.fields \cap {"sources", "validators", "coercionRules", "limits"} |-> x.fields[f]]
    IN  IF p = NoProfile THEN [body EXCEPT !.fields = fieldsOf(body), !.profiles = << >>]
        ELSE [body EXCEPT !.fields = spread(fieldsOf(selected), fieldsOf(body)),
                          !.sources = @ \o selected.sources,
                          !.validators = @ \o selected.validators,
                          !.rules = @ \o selected.rules,
                          !.limits = spread(limitsOf(body), limitsOf(selected)),
                          !.profiles = << >>]

(* Without a profile the declaration is used as it was read. *)
Select ==
    /\ stage = "read"
    /\ IF profile = NoProfile
       THEN stage' = "selected" /\ UNCHANGED <<issues, found, declaration, given, sources>>
       ELSE IF validatePipelineDeclaration(declaration) # << >>
       THEN found' = 0 /\ reject(validatePipelineDeclaration(declaration))
       ELSE IF profile \notin ProfileNames \cap DOMAIN declaration.profiles
       THEN found' = 1 /\ reject(<<"pipeline_profile_not_found">>)
       ELSE Settle(compiled(declaration, profile), "selected")
    /\ UNCHANGED <<document, profile>>

-----------------------------------------------------------------------------
(* createDescriptor: the paths of secret mappings are secret paths of the source. *)
mergeSourceRedactionWithSecretMappings(s) ==
    {s.mappings[i].target : i \in {j \in DOMAIN s.mappings : setting(s.mappings[j], "secret", "false") = "true"}}

inputOf(s) ==
    [fields |-> s.fields, mappings |-> s.mappings, secretPaths |-> mergeSourceRedactionWithSecretMappings(s),
     maximum |-> MaxEntries]
loadDeclared(s, env, argv) ==
    IF s.kind = "env" THEN createProcessEnvSource(inputOf(s), env) ELSE createArgvSource(inputOf(s), argv)

overrideSources(body) == {i \in DOMAIN body.sources : body.sources[i].kind \in {"env", "argv"}}

Load ==
    /\ stage = "selected"
    /\ \E env \in Environments, argv \in Arguments :
          /\ given' = [env |-> env, argv |-> argv]
          /\ sources' = [i \in overrideSources(declaration) |-> loadDeclared(declaration.sources[i], env, argv)]
    /\ stage' = "loaded"
    /\ UNCHANGED <<document, profile, issues, found, declaration>>

InputInit ==
    /\ document \in ParsedDocuments /\ profile \in {NoProfile} \cup DOMAIN document.profiles \cup {"missing"}
    /\ stage = "parsed" /\ issues = << >> /\ found = 0
    /\ declaration = document /\ given = [env |-> << >>, argv |-> << >>] /\ sources = << >>

InputNext == Read \/ Select \/ Load

InputSpec == InputInit /\ [][InputNext]_inputVars

-----------------------------------------------------------------------------
(* What a declaration must be, without an order of checks and without a bound *)
(* on what is said about it.                                                  *)
sound(r, required, optional) ==
    /\ r.object /\ required \subseteq DOMAIN r.fields
    /\ DOMAIN r.fields \subseteq required \cup optional
    /\ \A f \in DOMAIN r.fields \ {"value"} : r.fields[f] \notin {"bad", "empty"}     \* the value of an object source is anything

soundMapping(q, kind) ==
    /\ sound(q, {}, {"parseAs", "numberFormat", "emptyValue", "secret"})
    /\ q.name # "" /\ q.kind = kind /\ q.target # << >>
    /\ kind = "argv" => q.name \notin NamesWithEquals
    /\ "numberFormat" \in DOMAIN q.fields => setting(q, "parseAs", "string") = "number"

soundSource(s) ==
    /\ s.id # "" /\ s.kind \in Kinds
    /\ CASE s.kind = "object" -> sound(s, {"priority", "value"}, {"displayName", "redaction"})
         [] s.kind = "file" -> sound(s, {"priority", "path"}, {"displayName", "redaction", "maxFileBytes"})
         [] s.kind = "adapter" -> /\ sound(s, {"priority", "path", "format"}, {"displayName", "redaction", "maxFileBytes", "allowTrailingComma"})
                                  /\ "allowTrailingComma" \in DOMAIN s.fields => s.fields.format = "jsonc"
         [] s.kind = "env" -> /\ sound(s, {"priority", "mappings"}, {"displayName", "redaction", "maxEnvEntries", "unmappedBehavior", "unmappedPrefix"})
                              /\ "unmappedBehavior" \in DOMAIN s.fields <=> "unmappedPrefix" \in DOMAIN s.fields
         [] s.kind = "argv" -> sound(s, {"priority", "mappings"}, {"displayName", "redaction", "maxArgvEntries", "unmappedBehavior"})
    /\ "redaction" \in DOMAIN s.fields => sound(s.policy, {}, {"secretSource", "secretPaths", "secretNamePatterns"})
    /\ s.kind \in {"env", "argv"} =>
          /\ \A i \in DOMAIN s.mappings : soundMapping(s.mappings[i], s.kind)
          /\ \A i, j \in DOMAIN s.mappings : i # j => ~overlap(s.mappings[i].target, s.mappings[j].target)

soundBody(body, limits) ==
    LET ids == [i \in DOMAIN body.sources |-> body.sources[i].id] \o [i \in DOMAIN body.validators |-> body.validators[i].id]
    IN  /\ \A i \in DOMAIN body.sources : body.sources[i].object /\ soundSource(body.sources[i])
        /\ \A i \in DOMAIN body.validators :
              body.validators[i].id # "" /\ sound(body.validators[i], {"kind", "schema"}, {"includeConstraints"})
        /\ \A i \in DOMAIN body.rules : sound(body.rules[i], {"path", "from", "to", "onFailure"}, {})
        /\ \A i, j \in DOMAIN ids : i # j => ids[i] # ids[j]
        /\ DOMAIN limits \subseteq RESOURCE_LIMIT_FIELDS /\ \A f \in DOMAIN limits : limits[f] > 0
        /\ "maxReportBytes" \in DOMAIN limits => limits.maxReportBytes >= MinReportBytes
        /\ Len(body.sources) <= IF "maxSources" \in DOMAIN limits THEN limits.maxSources ELSE DefaultSources
        /\ Len(body.validators) <= IF "maxProvenanceEvents" \in DOMAIN limits THEN limits.maxProvenanceEvents ELSE DefaultEvents

WellFormed(body) ==
    /\ sound(body, {"sources"}, {"validators", "coercionRules", "limits", "profiles", "extends"})
    /\ soundBody(body, body.limits)
    /\ Cardinality(DOMAIN body.profiles) <= MaxProfiles
    /\ \A n \in DOMAIN body.profiles :
          /\ n \in ProfileNames
          /\ sound(body.profiles[n], {}, {"sources", "validators", "coercionRules", "limits"})
          /\ soundBody(body.profiles[n], spread(body.limits, body.profiles[n].limits))

(* A document is read when it is well formed, and only then; and a profile it    *)
(* has is selected when the two together are well formed, and only then: the     *)
(* early returns, the bound on diagnostics and the inherited limits of           *)
(* validatePipelineDeclaration and validateProfiles decide no verdict.           *)
VerdictIsExact ==
    [][/\ stage = "parsed" => (stage' = "read" <=> WellFormed(document))
       /\ stage = "read" /\ profile \in DOMAIN document.profiles =>
             (stage' = "selected" <=> WellFormed(compiled(document, profile)))]_inputVars

(* What validation lets through, normalisation neither refuses with an error of  *)
(* its own nor turns into a declaration that validation would refuse, which      *)
(* selectPipelineProfile and the inheritance validate again.                     *)
NormalisedIsValid ==
    /\ stage # "thrown"
    /\ stage \in {"read", "selected", "loaded"} =>
          /\ validatePipelineDeclaration(declaration) = << >>
          /\ normalizePipelineDeclaration(declaration) = declaration

(* The arguments by their positions: a token is the value of the name before it, *)
(* or an occurrence of a name, or neither.                                       *)
valueOf(argv, names) ==
    [i \in 1..Len(argv) |-> i > 1 /\ argv[i - 1] \in names /\ argv[i] \in ValueTokens]
takenIn(argv, names) ==
    LET taken[i \in 0..Len(argv)] == i > 1 /\ ~taken[i - 1] /\ valueOf(argv, names)[i] IN taken
occurrences(argv, names, n) ==
    {i \in 1..Len(argv) : ~takenIn(argv, names)[i] /\ (argv[i] = n \/ (argv[i] \in DOMAIN Assigned /\ Assigned[argv[i]].name = n))}
textAt(argv, names, i) ==
    IF argv[i] \in names THEN IF i < Len(argv) /\ takenIn(argv, names)[i + 1] THEN argv[i + 1] ELSE "none" ELSE Assigned[argv[i]].value

rawText(s, n) ==
    LET names == {s.mappings[i].name : i \in DOMAIN s.mappings}
        at == occurrences(given.argv, names, n)
    IN  IF s.kind = "env" THEN IF n \in DOMAIN given.env THEN given.env[n] ELSE "none"
        ELSE IF Cardinality(at) = 1 THEN textAt(given.argv, names, CHOOSE i \in at : TRUE) ELSE "none"
refusedText(s, n) ==        \* given more than once, or as a name without a value
    s.kind = "argv" /\ occurrences(given.argv, {s.mappings[i].name : i \in DOMAIN s.mappings}, n) # {} /\ rawText(s, n) = "none"
unmappedCount(s) ==
    LET names == {s.mappings[i].name : i \in DOMAIN s.mappings}
    IN  IF ~has(s, "unmappedBehavior") THEN 0
        ELSE IF s.kind = "env" THEN Cardinality((DOMAIN given.env \cap Prefixed) \ names)
        ELSE Cardinality({i \in DOMAIN given.argv : ~takenIn(given.argv, names)[i] /\ \A n \in names : i \notin occurrences(given.argv, names, n)})

(* Every mapping of a declared source sets its path to the one text given for it, *)
(* or is reported; no argument counts twice or is passed over; and two mappings   *)
(* of a declaration that was accepted are never in each other's way.              *)
InputsAsMapped ==
    stage = "loaded" => \A i \in overrideSources(declaration) :
        LET s == declaration.sources[i]
            entries == IF s.kind = "env" THEN Cardinality(DOMAIN given.env) ELSE Len(given.argv)
            blank(q) == rawText(s, q.name) = Blank /\ setting(q, "emptyValue", "parse") # "parse"
            applied == {q \in {s.mappings[j] : j \in DOMAIN s.mappings} :
                           /\ rawText(s, q.name) # "none" /\ ~blank(q)
                           /\ parseMappedValue(rawText(s, q.name), q)
                           /\ \A k \in DOMAIN q.target : q.target[k] \notin UnsafeSegments}
            silent == {q \in {s.mappings[j] : j \in DOMAIN s.mappings} :
                           \/ rawText(s, q.name) = "none" /\ ~refusedText(s, q.name)
                           \/ blank(q) /\ q.fields.emptyValue = "ignore"}
        IN  IF entries > MaxEntries THEN sources[i].value = << >> /\ Len(sources[i].issues) = 1
            ELSE /\ DOMAIN sources[i].value = {q.target : q \in applied}
                 /\ \A q \in applied : sources[i].value[q.target] = parsedValue(rawText(s, q.name), q)
                 /\ Len(sources[i].issues) = unmappedCount(s) + Len(s.mappings) - Cardinality(applied \cup silent)
                 /\ ~contains(sources[i].issues, "exact") /\ ~contains(sources[i].issues, "overlap")

(* docs/cli/configuration.md: "The final retained diagnostic is                   *)
(* resource-limit/max_diagnostics_exceeded when additional errors are omitted."   *)
MarkerWhenOmitted ==
    stage = "rejected" /\ Len(issues) < found => issues[Len(issues)] = "overflow"
=============================================================================
