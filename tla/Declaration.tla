---------------------------- MODULE Declaration ----------------------------
(***************************************************************************)
(* Validation, selection of a profile and normalisation of a pipeline      *)
(* declaration: declaration-validation.ts, declaration-fields.ts,          *)
(* profile-validation.ts, profiles.ts, declaration-normalization.ts and    *)
(* declaration-diagnostics.ts of packages/node.                            *)
(*                                                                         *)
(* A JSON object is a record with its `object' flag (FALSE: some other     *)
(* value stands in its place) and the function `fields' from the names it  *)
(* has to what each holds: "good", "empty" (an empty string), "bad" (a     *)
(* value of the wrong type), or the word itself where the code looks at    *)
(* it.  Lists and ids stand beside `fields'; an id of "" is malformed.     *)
(***************************************************************************)
EXTENDS Overrides, Diagnostics

CONSTANTS DefaultSources, DefaultEvents,        \* maxSources and maxProvenanceEvents of DEFAULT_RESOURCE_LIMITS
          MinReportBytes,       \* the least maxReportBytes
          MaxProfiles,          \* profiles of a declaration
          ProfileNames          \* names isProfileName accepts

Kinds == {"object", "file", "adapter", "env", "argv"}       \* SUPPORTED_SOURCE_KINDS, with one kind for JSON and dotenv files

copies(n, code) == [i \in 1..n |-> code]

SOURCE_KIND_FIELDS ==
    [object |-> {"value"}, file |-> {"path", "maxFileBytes"},
     adapter |-> {"format", "path", "maxFileBytes", "allowTrailingComma"},
     env |-> {"mappings", "maxEnvEntries", "unmappedBehavior", "unmappedPrefix"},
     argv |-> {"mappings", "maxArgvEntries", "unmappedBehavior"}]
BASE_SOURCE_FIELDS == {"priority", "displayName", "redaction"}
RESOURCE_LIMIT_FIELDS == {"maxSources", "maxProvenanceEvents", "maxDiagnostics", "maxReportBytes"}

unknownFields(r, allowed, code) == copies(Cardinality(DOMAIN r.fields \ allowed), code)

-----------------------------------------------------------------------------
(* Steps of a validation: each adds its issues and may end it.  What is     *)
(* pushed is not bounded until the next issues are appended; appending      *)
(* ends the validation when the overflow marker is in the list.             *)
Append_(issues) == <<[issues |-> issues, bounded |-> TRUE, last |-> FALSE]>>
Push(issues) == <<[issues |-> issues, bounded |-> FALSE, last |-> FALSE]>>
Return(steps) ==
    [i \in DOMAIN steps |-> [issues |-> steps[i].issues, bounded |-> steps[i].bounded, last |-> TRUE]]
if(condition, steps) == IF condition THEN steps ELSE << >>

(* combineConfigIssues keeps no more than the maximum of what is there. *)
combineConfigIssues(s, t) == appendBoundedIssues(SubSeq(s, 1, Min({Len(s), MaxDiagnostics})), t)
appendDeclarationIssues(s, t) == combineConfigIssues(s, t)

Take(run, step) ==
    IF run.ended THEN run
    ELSE LET s == IF step.bounded THEN appendDeclarationIssues(run.issues, step.issues)
                  ELSE run.issues \o step.issues
         IN  [issues |-> s, found |-> run.found + Len(step.issues),
              ended |-> step.last \/ (step.bounded /\ contains(s, "overflow"))]
Validation(steps) == FoldLeft(Take, [issues |-> << >>, found |-> 0, ended |-> FALSE], steps)
Collect(steps) == Validation(steps).issues

each(list, Steps(_)) == FlattenSeq([i \in DOMAIN list |-> Steps(list[i])])

-----------------------------------------------------------------------------
idOf(entry) == IF entry.object THEN entry.id ELSE ""

validateUniqueDeclarationIds(list, code) ==
    copies(Cardinality({i \in DOMAIN list :
        idOf(list[i]) # "" /\ \E j \in 1..(i - 1) : idOf(list[j]) = idOf(list[i])}), code)

validateDisjointDeclarationIds(sources, validators) ==
    copies(Cardinality({i \in DOMAIN validators :
        idOf(validators[i]) # "" /\ \E j \in DOMAIN sources : idOf(sources[j]) = idOf(validators[i])}),
        "pipeline_declaration_id_namespace_collision")

(* A target path that is not a list of strings, or is empty, is the empty sequence. *)
addTarget(x, mapping) ==
    IF ~mapping.object \/ mapping.target = << >> THEN x
    ELSE LET conflict == conflictWith(x.trie, mapping.target)
         IN  [trie |-> addPath(x.trie, mapping.target),
              issues |-> IF conflict = "none" THEN x.issues ELSE appendDeclarationIssues(x.issues, <<conflict>>)]
validateUniqueMappingTargetPaths(mappings) ==
    FoldLeft(addTarget, [trie |-> emptyTrie, issues |-> << >>], mappings).issues

validateOverrideMappingDeclaration(mapping, kind) ==
    IF ~mapping.object THEN <<"pipeline_override_mapping_invalid">>
    ELSE unknownFields(mapping, {"parseAs", "numberFormat", "emptyValue", "secret"}, "pipeline_override_mapping_unknown_field")
      \o when(mapping.name = "" \/ (kind = "argv" /\ mapping.name \in NamesWithEquals), "pipeline_override_mapping_external_name_invalid")
      \o when(mapping.kind # kind, "pipeline_override_mapping_source_kind_invalid")
      \o when(mapping.target = << >>, "pipeline_override_mapping_target_path_invalid")
      \o when(malformed(mapping, "parseAs"), "pipeline_override_mapping_parse_as_invalid")
      \o when(has(mapping, "numberFormat") /\ (malformed(mapping, "numberFormat") \/ ~word(mapping, "parseAs", {"number"})),
              "pipeline_override_mapping_number_format_invalid")
      \o when(malformed(mapping, "emptyValue"), "pipeline_override_mapping_empty_value_invalid")
      \o when(malformed(mapping, "secret"), "pipeline_override_mapping_secret_invalid")

validateRedactionPolicyDeclaration(policy) ==
    unknownFields(policy, {"secretSource", "secretPaths", "secretNamePatterns"}, "pipeline_redaction_policy_unknown_field")
      \o when(malformed(policy, "secretSource"), "pipeline_redaction_secret_source_invalid")
      \o when(malformed(policy, "secretPaths"), "pipeline_redaction_secret_paths_invalid")
      \o when(malformed(policy, "secretNamePatterns"), "pipeline_redaction_secret_name_patterns_invalid")

validateCommonSourceFields(source) ==
    (IF source.kind \in Kinds
     THEN unknownFields(source, BASE_SOURCE_FIELDS \cup SOURCE_KIND_FIELDS[source.kind], "pipeline_source_unknown_field")
     ELSE << >>)
      \o when(source.id = "", "pipeline_source_id_invalid")
      \o when(source.kind = "", "pipeline_source_kind_invalid")
      \o when(source.kind \notin Kinds \cup {""}, "unsupported_source_kind")
      \o when(malformed(source, "redaction"), "pipeline_redaction_policy_invalid")
      \o (IF ~lacks(source, "redaction") THEN validateRedactionPolicyDeclaration(source.policy) ELSE << >>)
      \o when(lacks(source, "priority"), "pipeline_source_priority_invalid")
      \o when(malformed(source, "displayName"), "pipeline_source_display_name_invalid")

validateFileSourceFields(source) ==
    when(source.kind = "adapter" /\ lacks(source, "format"), "pipeline_file_format_invalid")
      \o when(source.kind = "adapter" /\ has(source, "allowTrailingComma")
              /\ (malformed(source, "allowTrailingComma") \/ ~word(source, "format", {"jsonc"})),
              "pipeline_file_trailing_comma_invalid")
      \o when(lacks(source, "path"), "pipeline_file_source_path_invalid")
      \o when(malformed(source, "maxFileBytes"), "pipeline_file_source_max_file_bytes_invalid")

validateProcessEnvPrefix(source) ==
    when(malformed(source, "unmappedPrefix"), "pipeline_unmapped_prefix_invalid")
      \o when(~lacks(source, "unmappedBehavior") /\ lacks(source, "unmappedPrefix"),
              "pipeline_unmapped_prefix_required")
      \o when(~lacks(source, "unmappedPrefix") /\ ~has(source, "unmappedBehavior"),
              "pipeline_unmapped_behavior_required")

limitField(kind) == IF kind = "env" THEN "maxEnvEntries" ELSE "maxArgvEntries"

validateOverrideSourceFields(source, common) ==
    Collect(Push(common
                 \o when(malformed(source, limitField(source.kind)), "pipeline_max_entries_invalid")
                 \o when(malformed(source, "unmappedBehavior"), "pipeline_unmapped_behavior_invalid")
                 \o (IF source.kind = "env" THEN validateProcessEnvPrefix(source) ELSE << >>))
            \o (IF lacks(source, "mappings") THEN Push(<<"pipeline_override_mappings_invalid">>)
                ELSE each(source.mappings, LAMBDA q : Append_(validateOverrideMappingDeclaration(q, source.kind)))
                     \o Append_(validateUniqueMappingTargetPaths(source.mappings))))

validateSourceDeclaration(source) ==
    IF ~source.object THEN <<"pipeline_source_invalid">>
    ELSE LET common == validateCommonSourceFields(source)
         IN  CASE source.kind = "object" -> common \o when(~has(source, "value"), "pipeline_object_source_value_missing")
               [] source.kind \in {"file", "adapter"} -> common \o validateFileSourceFields(source)
               [] source.kind \in {"env", "argv"} -> validateOverrideSourceFields(source, common)
               [] OTHER -> common

validateValidatorDeclaration(validator) ==
    IF ~validator.object THEN <<"pipeline_validator_invalid">>
    ELSE unknownFields(validator, {"kind", "schema", "includeConstraints"}, "pipeline_validator_unknown_field")
      \o when(validator.id = "", "pipeline_validator_id_invalid")
      \o when(lacks(validator, "kind"), "pipeline_validator_kind_invalid")
      \o when(malformed(validator, "includeConstraints"), "pipeline_validator_constraints_invalid")
      \o when(lacks(validator, "schema"), "pipeline_validator_schema_invalid")

validateCoercionRuleDeclaration(rule) ==
    IF ~rule.object THEN <<"pipeline_coercion_rule_invalid">>
    ELSE unknownFields(rule, {"path", "from", "to", "onFailure"}, "pipeline_coercion_rule_unknown_field")
      \o when(lacks(rule, "path"), "pipeline_coercion_rule_path_invalid")
      \o when(lacks(rule, "from"), "pipeline_coercion_rule_from_invalid")
      \o when(lacks(rule, "to"), "pipeline_coercion_rule_to_invalid")
      \o when(lacks(rule, "onFailure"), "pipeline_coercion_rule_on_failure_invalid")

(* Limits: a number, where 0 is anything but a positive safe integer. *)
isPositiveInteger(limits, f) == f \in DOMAIN limits /\ limits[f] > 0
limitOr(limits, f, default) == IF isPositiveInteger(limits, f) THEN limits[f] ELSE default
spread(f, g) ==         \* { ...f, ...g }
    [x \in DOMAIN f \cup DOMAIN g |-> IF x \in DOMAIN g THEN g[x] ELSE f[x]]
limitsOf(body) == IF lacks(body, "limits") THEN << >> ELSE body.limits

validateResourceLimitsDeclaration(body) ==
    IF malformed(body, "limits") THEN <<"pipeline_limits_invalid">>
    ELSE copies(Cardinality(DOMAIN body.limits \ RESOURCE_LIMIT_FIELDS), "pipeline_limits_unknown_field")
      \o copies(Cardinality({f \in DOMAIN body.limits \cap RESOURCE_LIMIT_FIELDS : body.limits[f] = 0}), "pipeline_limit_value_invalid")
      \o when(isPositiveInteger(body.limits, "maxReportBytes") /\ body.limits.maxReportBytes < MinReportBytes, "pipeline_limit_value_invalid")

validateSourceBudget(body) ==
    Collect(if(has(body, "limits"), Append_(validateResourceLimitsDeclaration(body)))
            \o if(Len(body.sources) > limitOr(limitsOf(body), "maxSources", DefaultSources),
                  Append_(<<"max_sources_exceeded">>)))

-----------------------------------------------------------------------------
validatorSteps(body) ==
    IF malformed(body, "validators") THEN Push(<<"pipeline_validators_invalid">>)
    ELSE IF Len(body.validators) > limitOr(limitsOf(body), "maxProvenanceEvents", DefaultEvents)
    THEN Return(Append_(<<"max_provenance_events_exceeded">>))
    ELSE each(body.validators, LAMBDA v : Append_(validateValidatorDeclaration(v)))
         \o Append_(validateUniqueDeclarationIds(body.validators, "pipeline_validator_id_duplicate"))
         \o Append_(validateDisjointDeclarationIds(body.sources, body.validators))

ruleSteps(body) ==
    IF malformed(body, "coercionRules") THEN Push(<<"pipeline_coercion_rules_invalid">>)
    ELSE each(body.rules, LAMBDA r : Append_(validateCoercionRuleDeclaration(r)))

(* The steps up to the profiles, for a declaration and for a profile. *)
bodySteps(body) ==
    LET budgetIssues == validateSourceBudget(body)
        overBudget == contains(budgetIssues, "max_sources_exceeded") \/ contains(budgetIssues, "overflow")
    IN  Append_(unknownFields(body, {"sources", "validators", "coercionRules", "limits", "profiles", "extends"}, "pipeline_unknown_field"))
        \o if(lacks(body, "sources"), Return(Push(<<"pipeline_sources_missing">>)))
        \o if(overBudget, Return(Append_(budgetIssues)))
        \o each(body.sources, LAMBDA s : Append_(validateSourceDeclaration(s)))
        \o Append_(validateUniqueDeclarationIds(body.sources, "pipeline_source_id_duplicate"))
        \o Append_(budgetIssues)
        \o validatorSteps(body)
        \o ruleSteps(body)

(* A profile as a declaration of its own: no profiles, no extends, and the limits given. *)
profileToDeclaration(profile) ==
    LET kept == DOMAIN profile.fields \cap {"sources", "validators", "coercionRules", "limits"}
    IN  [profile EXCEPT !.fields = [f \in kept \cup {"sources"} |-> IF f \in kept THEN profile.fields[f] ELSE "good"]]

Bug_withLimits(profile, base) == profile     \* the limits of the declaration are not inherited
withLimits(profile, base) ==
    IF malformed(profile, "limits") THEN profile
    ELSE [profile EXCEPT !.fields = spread(@, [limits |-> "good"]),
                         !.limits = spread(base, limitsOf(profile))]

profileSteps(name, profile, base) ==
    IF name \notin ProfileNames THEN Append_(<<"pipeline_profile_name_invalid">>)
    ELSE IF ~profile.object THEN Append_(<<"pipeline_profile_invalid">>)
    ELSE LET nested == withLimits(profileToDeclaration(profile), base)
         IN  if(DOMAIN profile.fields \ {"sources", "validators", "coercionRules", "limits"} # {},
                Append_(<<"pipeline_profile_unknown_field">>))
             \o (IF Len(profile.sources) > limitOr(limitsOf(nested), "maxSources", DefaultSources)
                 THEN Append_(<<"max_sources_exceeded">>)
                 ELSE Append_(Collect(bodySteps(nested))))

validateProfiles(body) ==
    IF malformed(body, "profiles") THEN <<"pipeline_profiles_invalid">>
    ELSE IF Cardinality(DOMAIN body.profiles) > MaxProfiles THEN <<"max_profiles_exceeded">>
    ELSE Collect(each(SetToSeq(DOMAIN body.profiles),
                      LAMBDA n : profileSteps(n, body.profiles[n], limitsOf(body))))

(* What follows a full list leaves it as it is. *)
validation(body) ==
    IF ~body.object THEN Validation(Push(<<"pipeline_declaration_invalid">>))
    ELSE Validation(bodySteps(body)
                    \o if(has(body, "profiles"), Append_(validateProfiles(body)))
                    \o Append_(when(malformed(body, "extends"), "pipeline_extends_invalid")))
validatePipelineDeclaration(body) == validation(body).issues
=============================================================================
