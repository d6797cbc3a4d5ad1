----------------------------- MODULE Comparison -----------------------------
(***************************************************************************)
(* Inspection of a result and comparison of two: inspection.ts, diff.ts,   *)
(* comparison.ts and source-identity.ts of packages/core.  Sizes in bytes  *)
(* are not modelled: `over' says which of the reports do not fit.          *)
(***************************************************************************)
EXTENDS Redaction

CONSTANTS
    MaxResolvedPaths, MaxPathLength,
    Numbers, Null           \* scalars that are no strings

ASSUME ComparisonConstants == {MaxResolvedPaths, MaxPathLength} \subseteq Nat \ {0}

configValueType(x) ==
    IF x \in {"object", "array"} THEN x
    ELSE IF x \in Numbers THEN "number" ELSE IF x = Null THEN "null" ELSE "string"

(* The value at a path: itself and all below, under relative paths. *)
below(p, S) == {q \in S : isPathPrefix(p, q)}
relative(p, q) == SubSeq(q, Len(p) + 1, Len(q))
getConfigValueAtPath(R, p) ==
    [r \in {relative(p, q) : q \in below(p, DOMAIN R.config)} |-> R.config[p \o r]]

-----------------------------------------------------------------------------
(***************************************************************************)
(* buildConfigInspection.                                                  *)
(***************************************************************************)
(* The report tells the owner of the nearest leaf at or above a node. *)
closestSource(S, p) == {q \in S : isPathPrefix(q, p) /\ \A r \in S : isPathPrefix(r, p) => Len(r) <= Len(q)}

hidden(S, redactor, p) == redacts(redactor, p) \/ \E q \in closestSource(S, p) : redacts(redactor, q)

(* The walk does not go below what is hidden. *)
inspected(R, path, S, redactor) ==
    LET nodes == below(path, DOMAIN R.config)
        Hidden == {p \in nodes : hidden(S, redactor, p)}
        Visited == {p \in nodes : \A q \in Hidden : isPathPrefix(q, p) => q = p}
    IN  [p \in Visited |->
            [type |-> configValueType(R.config[p]),
             visibility |-> IF p \in Hidden THEN "redacted"
                            ELSE IF R.config[p] \in {"object", "array"} THEN "container" ELSE "visible",
             source |-> closestSource(S, p)]]

inspectionFailure(report, code) ==
    [status |-> "error", found |-> FALSE, entries |-> << >>,
     diagnostics |-> [status |-> "error", resolved |-> report.resolved, issues |-> {},
                      provenance |-> report.provenance],
     code |-> code]

(* Leaves and diagnostics elsewhere are left out. *)
selected(S, path) == {d \in S : \A p \in d.of.path : overlap(path, p)}
selectedReport(report, path) ==
    [status |-> report.status, resolved |-> {p \in report.resolved : overlap(path, p)},
     issues |-> selected(report.issues, path), provenance |-> selected(report.provenance, path)]

(* A failed result may hold values that are not effective: none is shown. *)
buildConfigInspection(R, options, path, over) ==
    LET whole == buildDiagnosticReport(R, options, "report" \notin over)
        report == selectedReport(whole, path)
        entries == inspected(R, path, report.resolved, createPathRedactor(R, options))
        found == path \in DOMAIN R.config
    IN  IF Len(path) > MaxPathLength THEN inspectionFailure(whole, "invalid_inspection_path")
        ELSE IF ~R.ok \/ report.status = "error"
        THEN [status |-> report.status, found |-> found, entries |-> << >>, diagnostics |-> report, code |-> "none"]
        ELSE IF ~found THEN inspectionFailure(report, "inspection_path_not_found")
        ELSE IF Cardinality(DOMAIN entries) > MaxResolvedPaths
        THEN inspectionFailure(report, "max_inspection_entries_exceeded")
        ELSE IF "inspection" \in over THEN inspectionFailure(report, "max_report_bytes_exceeded")
        ELSE [status |-> "ok", found |-> TRUE, entries |-> entries, diagnostics |-> report, code |-> "none"]

-----------------------------------------------------------------------------
(***************************************************************************)
(* buildConfigDiff.                                                        *)
(***************************************************************************)
(* What is secret on one side is secret on both. *)
Bug_sharedRedaction(before, after, options) ==  \* a path is secret on the side where a secret source set it
    [ids |-> secretIds(before, options) \cup secretIds(after, options),
     paths |-> options.paths \cup sourcePaths(before) \cup sourcePaths(after),
     names |-> options.names \cup sourceNames(before) \cup sourceNames(after)]
sharedRedaction(before, after, options) ==
    LET ids == secretIds(before, options) \cup secretIds(after, options)
        combined == [options EXCEPT !.ids = ids]
        secretLeaves(R) == {p \in DOMAIN R.resolved : redacts(createPathRedactor(R, combined), p)}
    IN  [ids |-> ids,
         paths |-> options.paths \cup sourcePaths(before) \cup sourcePaths(after)
                       \cup secretLeaves(before) \cup secretLeaves(after),
         names |-> options.names \cup sourceNames(before) \cup sourceNames(after)]

(* A path that is missing on one side is an addition or a removal. *)
withoutFailure(R, inspection) ==
    IF R.ok /\ inspection.code = "inspection_path_not_found"
    THEN [status |-> "ok", found |-> inspection.found, entries |-> inspection.entries,
          diagnostics |-> [inspection.diagnostics EXCEPT !.status = "ok"], code |-> "none"]
    ELSE inspection

comparisonInspection(R, options, path, over) ==
    withoutFailure(R, buildConfigInspection(R, options, path, over))

normalizeComparisonOptions(c) == c.values \/ c.sources \/ c.locations

sourceIdentity(R, o, comparison) ==
    <<IF comparison.sources
      THEN <<o.winner, R.sources[o.winner].priority,
             [i \in 1..Len(o.overridden) |-> <<o.overridden[i], R.sources[o.overridden[i]].priority>>]>>
      ELSE << >>,
      IF comparison.locations THEN <<o.line>> ELSE << >>>>

(* The owners that are compared at an entry: its own, or all below a secret object. *)
sourceIdentities(R, entries, p, comparison) ==
    LET e == entries[p]
        opaque == e.visibility = "redacted" /\ e.type = "object" /\ e.source = {}
    IN  IF ~comparison.sources /\ ~comparison.locations THEN {}
        ELSE IF opaque
        THEN {<<relative(p, q), sourceIdentity(R, R.resolved[q], comparison)>> : q \in below(p, DOMAIN R.resolved)}
        ELSE {<< << >>, sourceIdentity(R, R.resolved[q], comparison)>> : q \in e.source}

changeKinds(before, after, L, M, p, comparison, detect) ==
    IF p \notin DOMAIN L THEN {"added"}
    ELSE IF p \notin DOMAIN M THEN {"removed"}
    ELSE LET secret == "redacted" \in {L[p].visibility, M[p].visibility}
             sameType == L[p].type = M[p].type
         IN  {k \in {"type-changed", "value-changed", "source-changed"} :
                CASE k = "type-changed" -> comparison.values /\ ~sameType
                  [] k = "value-changed" ->
                        /\ comparison.values /\ sameType /\ (secret => detect)
                        /\ secret \/ L[p].visibility = "visible"
                        /\ getConfigValueAtPath(before, p) # getConfigValueAtPath(after, p)
                  [] k = "source-changed" ->
                        sourceIdentities(before, L, p, comparison) # sourceIdentities(after, M, p, comparison)}

uncomparedSecretPaths(L, M, comparison, detect) ==
    {p \in DOMAIN L \cap DOMAIN M :
        comparison.values /\ ~detect /\ "redacted" \in {L[p].visibility, M[p].visibility}}

(* Both sides lose their values; their diagnostics stay. *)
diffFailure(left, right) ==
    [status |-> "error", before |-> [left EXCEPT !.entries = << >>],
     after |-> [right EXCEPT !.entries = << >>], changes |-> << >>, uncompared |-> {}]

buildConfigDiff(before, after, options, path, comparison, detect, over) ==
    LET policy == sharedRedaction(before, after, options)
        left == comparisonInspection(before, policy, path, over.before)
        right == comparisonInspection(after, policy, path, over.after)
        L == left.entries
        M == right.entries
        keys == DOMAIN L \cup DOMAIN M
        kinds == [p \in keys |-> changeKinds(before, after, L, M, p, comparison, detect)]
    IN  IF \/ ~normalizeComparisonOptions(comparison)
           \/ "error" \in {left.status, right.status} \/ ~(left.found \/ right.found)
           \/ Cardinality(keys) > MaxResolvedPaths \/ over.diff
        THEN diffFailure(left, right)
        ELSE [status |-> "ok", before |-> left, after |-> right,
              changes |-> [p \in {q \in keys : kinds[q] # {}} |-> kinds[p]],
              uncompared |-> uncomparedSecretPaths(L, M, comparison, detect)]
=============================================================================
