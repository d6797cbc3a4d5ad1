---------------------------- MODULE ChangePolicy ----------------------------
(***************************************************************************)
(* checkConfigChanges: change-policy.ts and path-intersection-index.ts of  *)
(* packages/core.  Two results are compared, and the rules of a policy are *)
(* evaluated one after another, with the answers kept by path that the     *)
(* evaluator shares between rules.                                         *)
(***************************************************************************)
EXTENDS Comparison

CONSTANTS
    Befores, Afters,        \* results
    OptionSets,             \* what else is secret
    QueryPaths,             \* of a diff without a policy
    Comparisons,
    Policies,               \* sequences of rules
    Overflows               \* which reports do not fit

Rule == [id : STRING, path : Seq(STRING), mode : STRING, allowed : SUBSET STRING]

(* A tree holds what leads to its nodes; owners are not above one another, nor     *)
(* below what is no object.  A failed result may have lost its tree and kept them. *)
ASSUME InputsAsDeclared ==
    /\ \A R \in Befores \cup Afters :
        /\ << >> \in DOMAIN R.config /\ DOMAIN R.config \subseteq Seq(STRING)
        /\ \A p \in DOMAIN R.config : \A n \in 0..Len(p) : SubSeq(p, 1, n) \in DOMAIN R.config
        /\ DOMAIN R.resolved \subseteq Seq(STRING) /\ (R.ok => DOMAIN R.resolved \subseteq DOMAIN R.config)
        /\ \A p \in DOMAIN R.resolved : \A q \in DOMAIN R.config \cup DOMAIN R.resolved :
              q # p /\ isPathPrefix(q, p) =>
                  q \notin DOMAIN R.resolved /\ (q \in DOMAIN R.config => R.config[q] = "object")
        /\ \A id \in DOMAIN R.sources : R.sources[id].secretPaths \subseteq Seq(STRING)
    /\ \A o \in OptionSets : /\ o = [ids |-> o.ids, paths |-> o.paths, names |-> o.names]
                             /\ o.paths \subseteq Seq(STRING)
    /\ Policies \subseteq Seq(Rule)

VARIABLES
    before, after, options, detect, comparison, policy,
    query,                  \* the path of a diff, none with a policy
    phase,                  \* "compare", "rules", "report", "done"
    diff,                   \* {} or the diff
    next,                   \* the index of the next rule
    violations,
    equality, ownership,    \* the caches of the evaluator
    verdict                 \* "none", "passed", "failed", "error"

inputVars == <<before, after, options, detect, comparison, policy, query>>
evaluatorVars == <<next, violations, equality, ownership>>
vars == <<inputVars, phase, diff, evaluatorVars, verdict>>

Modes == {"require-path", "allowed-sources", "forbid-changes"}
Codes == {"required_path_missing", "source_not_allowed", "change_forbidden", "comparison_indeterminate"}

TypeOK ==
    /\ phase \in {"compare", "rules", "report", "done"}
    /\ verdict \in {"none", "passed", "failed", "error"}
    /\ Cardinality(diff) <= 1 /\ detect \in BOOLEAN
    /\ next \in 1..Len(policy) + 1
    /\ \A v \in violations : v.code \in Codes /\ v.rule \in {policy[i].id : i \in 1..Len(policy)}

-----------------------------------------------------------------------------
(* A proper rule has its fields and no others; an allowed-sources rule allows some. *)
properRule(rule) == rule.mode \in Modes /\ (rule.mode = "allowed-sources" => rule.allowed # {})

parsePolicy ==
    /\ normalizeComparisonOptions(comparison)
    /\ \A i \in 1..Len(policy) : properRule(policy[i])
    /\ \A i, j \in 1..Len(policy) : i # j => policy[i].id # policy[j].id

Everything == [values |-> TRUE, sources |-> TRUE, locations |-> TRUE]

withoutPolicy == query # {}

(* A policy is about everything: it takes no path, and one that does not parse *)
(* selects nothing.                                                            *)
Compare ==
    /\ phase = "compare"
    /\ \E over \in Overflows :
        LET path == IF withoutPolicy THEN CHOOSE p \in query : TRUE ELSE << >>
            selection == IF withoutPolicy \/ parsePolicy THEN comparison ELSE Everything
            d == buildConfigDiff(before, after, options, path, selection, detect, over)
        IN  /\ diff' = {d}
            /\ IF withoutPolicy THEN phase' = "done" /\ UNCHANGED verdict
               ELSE IF d.status = "error" \/ ~parsePolicy THEN phase' = "report" /\ verdict' = "error"
               ELSE phase' = "rules" /\ UNCHANGED verdict
    /\ UNCHANGED <<inputVars, evaluatorVars>>

-----------------------------------------------------------------------------
(***************************************************************************)
(* createRuleEvaluator.                                                    *)
(***************************************************************************)
(* A walk down the path meets an entry, or ends where entries are at or below. *)
intersects(S, p) == \E q \in S : overlap(q, p)
related(S, p) == {q \in S : overlap(q, p)}

theDiff == CHOOSE d \in diff : TRUE
changed(kinds) == {p \in DOMAIN theDiff.changes : theDiff.changes[p] \cap kinds # {}}
anyChange == DOMAIN theDiff.changes

ownershipAtPath(R, p) ==
    {<<q, sourceIdentity(R, R.resolved[q], comparison)>> : q \in related(DOMAIN R.resolved, p)}

kept(cache, p, value) == IF p \in DOMAIN cache THEN cache[p] ELSE value
keep(cache, p, value) == [q \in DOMAIN cache \cup {p} |-> IF q = p THEN value ELSE cache[q]]
equalAt(p) ==
    kept(equality, p, ~comparison.values \/ getConfigValueAtPath(before, p) = getConfigValueAtPath(after, p))
ownersAt(p) == kept(ownership, p, <<ownershipAtPath(before, p), ownershipAtPath(after, p)>>)
sameOwners(p) == ownersAt(p)[1] = ownersAt(p)[2]

has(R, p) == p \in DOMAIN R.config
presenceChanged(p) == ~comparison.values /\ intersects(changed({"added", "removed"}), p)
Bug_unknownAt(p) == comparison.values /\ p \in theDiff.uncompared
unknownAt(p) == comparison.values /\ intersects(theDiff.uncompared, p)
sourcesChanged(p) == intersects(changed({"source-changed"}), p)

(* A rule against changes gets to the values, and then to the owners. *)
looksAtValues(rule) ==
    /\ rule.mode = "forbid-changes" /\ has(before, rule.path) /\ has(after, rule.path)
    /\ ~presenceChanged(rule.path) /\ ~unknownAt(rule.path)
looksAtOwners(rule) == looksAtValues(rule) /\ equalAt(rule.path) /\ sourcesChanged(rule.path)

forbidden(p) ==
    IF ~(has(before, p) /\ has(after, p))
    THEN IF has(before, p) \/ has(after, p) THEN {"change_forbidden"} ELSE {}
    ELSE IF presenceChanged(p) THEN {"change_forbidden"}
    ELSE IF unknownAt(p)
    THEN {IF intersects(anyChange, p) THEN "change_forbidden" ELSE "comparison_indeterminate"}
    ELSE IF ~equalAt(p) \/ (sourcesChanged(p) /\ ~sameOwners(p)) THEN {"change_forbidden"} ELSE {}

evaluateRule(rule) ==
    CASE rule.mode = "require-path" ->
            IF has(after, rule.path) THEN {} ELSE {"required_path_missing"}
      [] rule.mode = "allowed-sources" ->
            IF \E q \in related(DOMAIN after.resolved, rule.path) : after.resolved[q].winner \notin rule.allowed
            THEN {"source_not_allowed"} ELSE {}
      [] rule.mode = "forbid-changes" -> forbidden(rule.path)

EvaluateRule ==
    /\ phase = "rules" /\ next <= Len(policy)
    /\ LET rule == policy[next]
           p == rule.path
       IN  /\ violations' = violations \cup {[code |-> c, rule |-> rule.id] : c \in evaluateRule(rule)}
           /\ equality' = IF looksAtValues(rule) THEN keep(equality, p, equalAt(p)) ELSE equality
           /\ ownership' = IF looksAtOwners(rule) THEN keep(ownership, p, ownersAt(p)) ELSE ownership
    /\ next' = next + 1
    /\ UNCHANGED <<inputVars, phase, diff, verdict>>

EndRules ==
    /\ phase = "rules" /\ next > Len(policy)
    /\ phase' = "report" /\ verdict' = IF violations = {} THEN "passed" ELSE "failed"
    /\ UNCHANGED <<inputVars, diff, evaluatorVars>>

(* The whole check is one report; when it does not fit, its diff is emptied. *)
Report ==
    /\ phase = "report" /\ phase' = "done"
    /\ \/ UNCHANGED <<diff, verdict, violations>>
       \/ verdict' = "error" /\ violations' = {} /\ diff' = {diffFailure(d.before, d.after) : d \in diff}
    /\ UNCHANGED <<inputVars, next, equality, ownership>>

Init ==
    /\ before \in Befores /\ after \in Afters /\ options \in OptionSets
    /\ detect \in BOOLEAN /\ comparison \in Comparisons
    /\ \/ query = {} /\ policy \in Policies
       \/ query \in {{p} : p \in QueryPaths} /\ policy = << >>
    /\ phase = "compare" /\ diff = {} /\ next = 1 /\ violations = {}
    /\ equality = << >> /\ ownership = << >> /\ verdict = "none"

Next == Compare \/ EvaluateRule \/ EndRules \/ Report

Spec == Init /\ [][Next]_vars

-----------------------------------------------------------------------------
(***************************************************************************)
(* Reference.                                                              *)
(***************************************************************************)
Sides == {before, after}

(* A secret source: by the options or by a descriptor of either side. *)
SecretSource(id) ==
    id \in options.ids \/ \E R \in Sides : id \in DOMAIN R.sources /\ R.sources[id].secretSource

(* At or below a path named secret, or a leaf that a secret source set, if only  *)
(* to be overridden, or might have set.                                          *)
Secret(p) ==
    \/ \E q \in options.paths : isPathPrefix(q, p)
    \/ \E R \in Sides :
        \/ \E q \in DOMAIN R.resolved : isPathPrefix(q, p) /\ (R.incomplete \/
              \E id \in {R.resolved[q].winner} \cup {R.resolved[q].overridden[i] : i \in 1..Len(R.resolved[q].overridden)} :
                  SecretSource(id))
        \/ \E id \in DOMAIN R.sources : \E q \in R.sources[id].secretPaths : isPathPrefix(q, p)
    \/ \E i \in 1..Len(p) :
        p[i] \in DEFAULT_SECRET_NAMES \cup options.names \cup sourceNames(before) \cup sourceNames(after)

(* A secret leaf hides its whole atomic value, and what is in it. *)
Visible(R) == {p \in DOMAIN R.config : \A q \in DOMAIN R.config : isPathPrefix(q, p) /\ q # p => ~Secret(q)}

Owners(R, p) == {<<q, sourceIdentity(R, R.resolved[q], comparison)>> : q \in {r \in DOMAIN R.resolved : overlap(r, p)}}

Unchanged(p) ==
    IF has(before, p) /\ has(after, p)
    THEN /\ comparison.values =>
                /\ getConfigValueAtPath(before, p) = getConfigValueAtPath(after, p)
                /\ detect \/ \A q \in DOMAIN before.config \cap DOMAIN after.config : overlap(p, q) => ~Secret(q)
         /\ ~comparison.values =>
                {q \in Visible(before) : overlap(p, q)} = {q \in Visible(after) : overlap(p, q)}
         /\ comparison.sources \/ comparison.locations => Owners(before, p) = Owners(after, p)
    ELSE ~has(before, p) /\ ~has(after, p)

Holds(rule) ==
    CASE rule.mode = "require-path" -> has(after, rule.path)
      [] rule.mode = "allowed-sources" ->
            \A q \in DOMAIN after.resolved : overlap(q, rule.path) => after.resolved[q].winner \in rule.allowed
      [] rule.mode = "forbid-changes" -> Unchanged(rule.path)

(* Neither side shows a value, or the message of a diagnostic, that is secret by *)
(* the policy, the owners or the names of either: a secret that one side set in  *)
(* plain stays hidden, and so it is when the comparison fails.                   *)
NothingSecretShown ==
    \A d \in diff : \A side \in {d.before, d.after} :
        /\ d.status = "error" => side.entries = << >>
        /\ \A p \in DOMAIN side.entries : side.entries[p].visibility = "visible" => ~Secret(p)
        /\ \A m \in side.diagnostics.issues \cup side.diagnostics.provenance :
            m.shown => /\ \A p \in m.of.path : ~Secret(p)
                       /\ \A id \in m.of.previous \cup (IF m.of.validator THEN {} ELSE m.of.source) : ~SecretSource(id)

(* A policy passes exactly when every rule holds of the two configurations, with *)
(* no secret left uncompared where values count; only a good diff of two good    *)
(* results passes it.                                                            *)
PassedRulesHold ==
    phase \in {"report", "done"} /\ ~withoutPolicy /\ verdict # "error" =>
        /\ before.ok /\ after.ok /\ theDiff.status = "ok"
        /\ verdict = "passed" <=> \A i \in 1..Len(policy) : Holds(policy[i])
=============================================================================
