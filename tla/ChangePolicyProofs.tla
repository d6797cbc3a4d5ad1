------------------------- MODULE ChangePolicyProofs -------------------------
(***************************************************************************)
(* What a comparison shows of secrets, and what a policy that passes says  *)
(* of the two configurations, for all results, options, policies and       *)
(* bounds.                                                                 *)
(***************************************************************************)
EXTENDS ChangePolicy, WellFoundedInduction, TLAPS

(* The redaction that both sides are shown under. *)
Shared == sharedRedaction(before, after, options)

Inputs == before \in Befores /\ after \in Afters /\ options \in OptionSets

-----------------------------------------------------------------------------
(***************************************************************************)
(* What is secret is redacted on both sides.                               *)
(***************************************************************************)
LEMMA SharedParts ==
    ASSUME Inputs
    PROVE  /\ \A id : SecretSource(id) => id \in Shared.ids
           /\ options.paths \cup sourcePaths(before) \cup sourcePaths(after) \subseteq Shared.paths
           /\ options.names \cup sourceNames(before) \cup sourceNames(after) \subseteq Shared.names
BY DEF Shared, sharedRedaction, SecretSource, secretIds, sourceIds, Sides

(* A leaf that a secret source set, or might have set, is a secret path. *)
LEMMA SharedLeaves ==
    ASSUME Inputs, NEW R \in Sides, NEW q \in DOMAIN R.resolved,
           R.incomplete \/ \E id \in {R.resolved[q].winner} \cup {R.resolved[q].overridden[i] : i \in 1..Len(R.resolved[q].overridden)} :
                               SecretSource(id)
    PROVE  q \in Shared.paths
<1>. DEFINE ids == secretIds(before, options) \cup secretIds(after, options)
            combined == [options EXCEPT !.ids = ids]
            redactor == createPathRedactor(R, combined)
<1>1. q \in Seq(STRING)
    BY InputsAsDeclared DEF InputsAsDeclared, Inputs, Sides
<1>2. Len(q) \in Nat
    BY <1>1
<1>3. isPathPrefix(q, q) /\ isPathPrefix(<< >>, q)
    BY <1>2 DEF isPathPrefix
<1>4. combined.ids = ids
    <2>1. options = [ids |-> options.ids, paths |-> options.paths, names |-> options.names]
        BY InputsAsDeclared DEF InputsAsDeclared, Inputs
    <2>. HIDE DEF ids
    <2>2. QED
        BY <2>1
<1>5. \A id : SecretSource(id) => id \in secretIds(R, combined)
    <2>1. ids \subseteq secretIds(R, combined)
        BY <1>4 DEF secretIds
    <2>2. QED
        BY <2>1 DEF SecretSource, secretIds, sourceIds, Sides
<1>6. redacts(redactor, q)
    <2>1. CASE R.incomplete
        BY <1>3, <2>1 DEF redacts, createPathRedactor
    <2>2. CASE ~R.incomplete
        <3>1. ownedBy(R.resolved[q], secretIds(R, combined))
            BY <1>5, <2>2 DEF ownedBy
        <3>2. q \in redactor.paths
            BY <2>2, <3>1 DEF createPathRedactor
        <3>3. QED
            BY <1>3, <3>2 DEF redacts
    <2>3. QED
        BY <2>1, <2>2
<1>7. QED
    BY <1>6 DEF Shared, sharedRedaction, Sides

LEMMA SecretIsRedacted ==
    ASSUME Inputs, NEW R \in Sides, ~R.incomplete, NEW p, Secret(p)
    PROVE  redacts(createPathRedactor(R, Shared), p)
<1>. DEFINE redactor == createPathRedactor(R, Shared)
<1>1. Shared.paths \subseteq redactor.paths /\ DEFAULT_SECRET_NAMES \cup Shared.names \subseteq redactor.names
    BY DEF createPathRedactor
<1>2. CASE \E q \in options.paths : isPathPrefix(q, p)
    BY <1>1, <1>2, SharedParts DEF redacts
<1>3. ASSUME NEW T \in Sides, NEW q \in DOMAIN T.resolved, isPathPrefix(q, p),
             T.incomplete \/ \E id \in {T.resolved[q].winner} \cup {T.resolved[q].overridden[i] : i \in 1..Len(T.resolved[q].overridden)} :
                                 SecretSource(id)
      PROVE  redacts(redactor, p)
    BY <1>1, <1>3, SharedLeaves DEF redacts
<1>4. ASSUME NEW T \in Sides, NEW id \in DOMAIN T.sources, NEW q \in T.sources[id].secretPaths, isPathPrefix(q, p)
      PROVE  redacts(redactor, p)
    <2>1. q \in sourcePaths(before) \cup sourcePaths(after)
        BY <1>4 DEF Sides, sourcePaths, sourceIds
    <2>2. QED
        BY <1>1, <1>4, <2>1, SharedParts DEF redacts
<1>5. CASE \E i \in 1..Len(p) :
            p[i] \in DEFAULT_SECRET_NAMES \cup options.names \cup sourceNames(before) \cup sourceNames(after)
    BY <1>1, <1>5, SharedParts DEF redacts
<1>6. QED
    BY <1>2, <1>3, <1>4, <1>5 DEF Secret

-----------------------------------------------------------------------------
(***************************************************************************)
(* What a report and an inspection show.                                   *)
(***************************************************************************)
SafeMessage(m) ==
    m.shown => /\ \A p \in m.of.path : ~Secret(p)
               /\ \A id \in m.of.previous \cup (IF m.of.validator THEN {} ELSE m.of.source) : ~SecretSource(id)

SafeReport(r) ==
    /\ r = [status |-> r.status, resolved |-> r.resolved, issues |-> r.issues, provenance |-> r.provenance]
    /\ \A m \in r.issues \cup r.provenance : SafeMessage(m)

SafeEntries(entries) == \A p \in DOMAIN entries : entries[p].visibility = "visible" => ~Secret(p)

SafeInspection(s) ==
    /\ s = [status |-> s.status, found |-> s.found, entries |-> s.entries,
            diagnostics |-> s.diagnostics, code |-> s.code]
    /\ SafeEntries(s.entries)
    /\ SafeReport(s.diagnostics)

LEMMA NothingIsSafe == SafeEntries(<< >>)
BY DEF SafeEntries

(* A message about a secret path or of a secret source is not shown. *)
LEMMA SanitizedIsSafe ==
    ASSUME Inputs, NEW R \in Sides, ~R.incomplete, NEW S, NEW m \in sanitized(S, R, Shared)
    PROVE  SafeMessage(m)
<1>1. PICK d \in S : m = [of |-> d, shown |-> ~shouldSanitizeDiagnostic(d, secretIds(R, Shared), createPathRedactor(R, Shared))]
    BY DEF sanitized
<1>2. m.of = d /\ (m.shown => ~shouldSanitizeDiagnostic(d, secretIds(R, Shared), createPathRedactor(R, Shared)))
    BY <1>1
<1>3. \A id : SecretSource(id) => id \in secretIds(R, Shared)
    BY SharedParts DEF secretIds
<1>4. \A p : Secret(p) => redacts(createPathRedactor(R, Shared), p)
    BY SecretIsRedacted
<1>5. QED
    BY <1>2, <1>3, <1>4 DEF SafeMessage, shouldSanitizeDiagnostic

LEMMA ReportIsSafe ==
    ASSUME Inputs, NEW R \in Sides, NEW fits
    PROVE  /\ SafeReport(buildDiagnosticReport(R, Shared, fits))
           /\ R.incomplete => buildDiagnosticReport(R, Shared, fits).status = "error"
<1>1. CASE R.incomplete \/ ~fits
    BY <1>1 DEF buildDiagnosticReport, omittedReport, SafeReport
<1>2. CASE ~(R.incomplete \/ ~fits)
    <2>1. \A m \in sanitized(R.issues, R, Shared) \cup sanitized(R.provenance, R, Shared) : SafeMessage(m)
        BY <1>2, SanitizedIsSafe
    <2>2. QED
        BY <1>2, <2>1 DEF buildDiagnosticReport, SafeReport
<1>3. QED
    BY <1>1, <1>2

LEMMA SelectedIsSafe ==
    ASSUME NEW r, SafeReport(r), NEW path
    PROVE  SafeReport(selectedReport(r, path)) /\ selectedReport(r, path).status = r.status
BY DEF SafeReport, selected, selectedReport

LEMMA FailureIsSafe ==
    ASSUME NEW r, SafeReport(r), NEW code
    PROVE  /\ SafeInspection(inspectionFailure(r, code))
           /\ inspectionFailure(r, code).status = "error"
<1>1. SafeReport([status |-> "error", resolved |-> r.resolved, issues |-> {}, provenance |-> r.provenance])
    BY DEF SafeReport
<1>2. QED
    BY <1>1, NothingIsSafe DEF inspectionFailure, SafeInspection

(* The walk shows the value of no secret path. *)
LEMMA InspectedIsSafe ==
    ASSUME Inputs, NEW R \in Sides, ~R.incomplete, NEW path, NEW S
    PROVE  SafeEntries(inspected(R, path, S, createPathRedactor(R, Shared)))
<1>. DEFINE redactor == createPathRedactor(R, Shared)
            entries == inspected(R, path, S, redactor)
            nodes == below(path, DOMAIN R.config)
            Hidden == {q \in nodes : hidden(S, redactor, q)}
<1>1. SUFFICES ASSUME NEW p \in DOMAIN entries, entries[p].visibility = "visible"
               PROVE  ~Secret(p)
    BY DEF SafeEntries
<1>2. p \in nodes /\ p \notin Hidden
    BY <1>1 DEF inspected
<1>3. ~redacts(redactor, p)
    BY <1>2 DEF hidden
<1>4. QED
    BY <1>3, SecretIsRedacted

LEMMA InspectionIsSafe ==
    ASSUME Inputs, NEW R \in Sides, NEW path, NEW over
    PROVE  SafeInspection(buildConfigInspection(R, Shared, path, over))
<1>. DEFINE whole == buildDiagnosticReport(R, Shared, "report" \notin over)
            report == selectedReport(whole, path)
            entries == inspected(R, path, report.resolved, createPathRedactor(R, Shared))
            found == path \in DOMAIN R.config
            result == buildConfigInspection(R, Shared, path, over)
<1>1. SafeReport(whole) /\ SafeReport(report) /\ (R.incomplete => report.status = "error")
    <2>1. SafeReport(whole) /\ (R.incomplete => whole.status = "error")
        BY ReportIsSafe
    <2>2. QED
        BY <2>1, SelectedIsSafe
<1>2. report.status # "error" => SafeEntries(entries)
    BY <1>1, InspectedIsSafe
<1>3. \/ \E code : result = inspectionFailure(whole, code) \/ result = inspectionFailure(report, code)
      \/ result = [status |-> report.status, found |-> found, entries |-> << >>, diagnostics |-> report, code |-> "none"]
      \/ /\ report.status # "error"
         /\ result = [status |-> "ok", found |-> TRUE, entries |-> entries, diagnostics |-> report, code |-> "none"]
    BY Zenon DEF buildConfigInspection
<1>. HIDE DEF whole, report, entries, found, result
<1>4. SafeInspection(result)
    BY <1>1, <1>2, <1>3, FailureIsSafe, NothingIsSafe DEF SafeInspection
<1>5. QED
    BY <1>4 DEF result

LEMMA SideIsSafe ==
    ASSUME Inputs, NEW R \in Sides, NEW path, NEW over
    PROVE  SafeInspection(comparisonInspection(R, Shared, path, over))
<1>. DEFINE inspection == buildConfigInspection(R, Shared, path, over)
<1>1. SafeInspection(inspection)
    BY InspectionIsSafe
<1>. HIDE DEF inspection
<1>2. SafeInspection([status |-> "ok", found |-> inspection.found, entries |-> inspection.entries,
                     diagnostics |-> [inspection.diagnostics EXCEPT !.status = "ok"], code |-> "none"])
    BY <1>1 DEF SafeInspection, SafeReport
<1>3. QED
    BY <1>1, <1>2 DEF comparisonInspection, withoutFailure, inspection

-----------------------------------------------------------------------------
(***************************************************************************)
(* What a comparison shows.                                                *)
(***************************************************************************)
SafeDiff(d) ==
    \A side \in {d.before, d.after} :
        SafeInspection(side) /\ (d.status = "error" => side.entries = << >>)

LEMMA DiffFailureIsSafe ==
    ASSUME NEW left, NEW right, SafeInspection(left), SafeInspection(right)
    PROVE  SafeDiff(diffFailure(left, right))
<1>1. ASSUME NEW s, SafeInspection(s)
      PROVE  SafeInspection([s EXCEPT !.entries = << >>]) /\ [s EXCEPT !.entries = << >>].entries = << >>
    BY <1>1, NothingIsSafe DEF SafeInspection
<1>2. QED
    BY <1>1 DEF diffFailure, SafeDiff

LEMMA DiffIsSafe ==
    ASSUME Inputs, NEW path, NEW selection, NEW over
    PROVE  SafeDiff(buildConfigDiff(before, after, options, path, selection, detect, over))
<1>. DEFINE left == comparisonInspection(before, Shared, path, over.before)
            right == comparisonInspection(after, Shared, path, over.after)
            d == buildConfigDiff(before, after, options, path, selection, detect, over)
<1>1. SafeInspection(left) /\ SafeInspection(right)
    BY SideIsSafe DEF Sides
<1>2. d = diffFailure(left, right) \/ (d.status = "ok" /\ d.before = left /\ d.after = right)
    BY DEF buildConfigDiff, Shared
<1>. HIDE DEF left, right, d
<1>3. SafeDiff(d)
    BY <1>1, <1>2, DiffFailureIsSafe DEF SafeDiff
<1>4. QED
    BY <1>3 DEF d

-----------------------------------------------------------------------------
(***************************************************************************)
(* The invariant: the inputs stay, and every diff that is held is safe.    *)
(***************************************************************************)
DiffInv == Inputs /\ \A d \in diff : SafeDiff(d)

LEMMA DiffInvHolds == Spec => []DiffInv
<1>1. Init => DiffInv
    BY DEF Init, DiffInv, Inputs
<1>2. DiffInv /\ [Next]_vars => DiffInv'
    <2> SUFFICES ASSUME DiffInv, [Next]_vars PROVE DiffInv'
        OBVIOUS
    <2>1. ASSUME UNCHANGED inputVars, \A d \in diff' : SafeDiff(d)
          PROVE  DiffInv'
        BY <2>1 DEF DiffInv, Inputs, inputVars, SafeDiff, SafeInspection, SafeReport, SafeMessage, SafeEntries,
            Secret, SecretSource, Sides
    <2>2. ASSUME UNCHANGED inputVars, UNCHANGED diff
          PROVE  DiffInv'
        BY <2>1, <2>2 DEF DiffInv
    <2>3. CASE Compare
        <3>1. PICK path, selection, over :
                diff' = {buildConfigDiff(before, after, options, path, selection, detect, over)}
            BY <2>3 DEF Compare
        <3>2. UNCHANGED inputVars
            BY <2>3 DEF Compare
        <3>3. QED
            BY <2>1, <3>1, <3>2, DiffIsSafe DEF DiffInv
    <2>4. CASE EvaluateRule
        BY <2>2, <2>4 DEF EvaluateRule, inputVars
    <2>5. CASE EndRules
        BY <2>2, <2>5 DEF EndRules
    <2>6. CASE Report
        <3>1. UNCHANGED inputVars
            BY <2>6 DEF Report
        <3>2. CASE UNCHANGED diff
            BY <2>2, <3>1, <3>2
        <3>3. CASE diff' = {diffFailure(d.before, d.after) : d \in diff}
            BY <2>1, <3>1, <3>3, DiffFailureIsSafe DEF DiffInv, SafeDiff
        <3>4. QED
            BY <2>6, <3>2, <3>3 DEF Report
    <2>7. CASE UNCHANGED vars
        BY <2>2, <2>7 DEF vars
    <2>8. QED
        BY <2>3, <2>4, <2>5, <2>6, <2>7 DEF Next
<1>3. QED
    BY <1>1, <1>2, PTL DEF Spec

(* Whatever is compared, under any limits and any policy, neither side shows a   *)
(* value or a message that is secret by the policy, the owners or the names of   *)
(* either, and a failed comparison shows no values.                              *)
THEOREM SecretsStayHidden == Spec => []NothingSecretShown
<1>1. DiffInv => NothingSecretShown
    BY DEF DiffInv, NothingSecretShown, SafeDiff, SafeInspection, SafeReport, SafeMessage, SafeEntries
<1>2. QED
    BY <1>1, DiffInvHolds, PTL

-----------------------------------------------------------------------------
(***************************************************************************)
(* Paths.                                                                  *)
(***************************************************************************)
Path == Seq(STRING)

(* Every set of numbers has a least one. *)
LEMMA LeastNumber ==
    ASSUME NEW T \in SUBSET Nat, T # {}
    PROVE  \E m \in T : \A n \in T : m <= n
<1>1. IsWellFoundedOn(OpToRel(<, Nat), Nat)
    BY NatLessThanWellFounded
<1>2. PICK m \in T : \A n \in T : ~(<<n, m>> \in OpToRel(<, Nat))
    BY <1>1, WFMin
<1>3. \A n \in T : ~(n < m)
    BY <1>2 DEF OpToRel
<1>4. QED
    BY <1>3

LEMMA PrefixReflexive == \A p \in Path : isPathPrefix(p, p) /\ isPathPrefix(<< >>, p)
BY DEF isPathPrefix, Path

LEMMA PrefixTransitive ==
    ASSUME NEW p \in Path, NEW q \in Path, NEW r \in Path, isPathPrefix(p, q), isPathPrefix(q, r)
    PROVE  isPathPrefix(p, r)
BY DEF isPathPrefix, Path

(* A path and its prefix of the same length are the same. *)
LEMMA PrefixSame ==
    ASSUME NEW p \in Path, NEW q \in Path, isPathPrefix(p, q), Len(q) <= Len(p)
    PROVE  p = q
<1>1. Len(p) = Len(q) /\ \A i \in 1..Len(q) : p[i] = q[i]
    BY DEF isPathPrefix, Path
<1>2. QED
    BY <1>1 DEF Path

(* Of two prefixes of a path one is a prefix of the other. *)
LEMMA PrefixesOverlap ==
    ASSUME NEW p \in Path, NEW q \in Path, NEW r \in Path, isPathPrefix(p, r), isPathPrefix(q, r)
    PROVE  overlap(p, q)
<1>1. Len(p) \in Nat /\ Len(q) \in Nat
    BY DEF Path
<1>2. CASE Len(p) <= Len(q)
    BY <1>1, <1>2 DEF isPathPrefix, overlap
<1>3. CASE Len(q) <= Len(p)
    BY <1>1, <1>3 DEF isPathPrefix, overlap
<1>4. QED
    BY <1>1, <1>2, <1>3

(* What overlaps a path is overlapped by the prefixes of that path. *)
LEMMA PrefixOverlaps ==
    ASSUME NEW h \in Path, NEW p \in Path, NEW q \in Path, isPathPrefix(h, q), overlap(q, p)
    PROVE  overlap(h, p)
<1>1. CASE isPathPrefix(q, p)
    BY <1>1, PrefixTransitive DEF overlap
<1>2. CASE isPathPrefix(p, q)
    BY <1>2, PrefixesOverlap
<1>3. QED
    BY <1>1, <1>2 DEF overlap

(* The first segments of a path are a prefix of it. *)
LEMMA Truncated ==
    ASSUME NEW p \in Path, NEW n \in 0..Len(p)
    PROVE  /\ SubSeq(p, 1, n) \in Path /\ Len(SubSeq(p, 1, n)) = n
           /\ isPathPrefix(SubSeq(p, 1, n), p)
           /\ \A q \in Path : isPathPrefix(q, p) /\ Len(q) = n => q = SubSeq(p, 1, n)
<1>. DEFINE s == SubSeq(p, 1, n)
<1>1. s \in Path /\ Len(s) = n /\ n \in Nat /\ n <= Len(p) /\ \A i \in 1..n : s[i] = p[i]
    BY DEF Path
<1>. HIDE DEF s
<1>2. isPathPrefix(s, p)
    BY <1>1 DEF isPathPrefix
<1>3. ASSUME NEW q \in Path, isPathPrefix(q, p), Len(q) = n
      PROVE  q = s
    <2>1. Len(q) = Len(s) /\ \A i \in 1..Len(q) : q[i] = s[i]
        BY <1>1, <1>3 DEF isPathPrefix
    <2>2. isPathPrefix(q, s) /\ Len(s) <= Len(q)
        BY <1>1, <1>3, <2>1 DEF isPathPrefix
    <2>3. QED
        BY <1>1, <2>2, PrefixSame
<1>4. QED
    BY <1>1, <1>2, <1>3 DEF s

(* A path below another is known by what is relative to that one. *)
LEMMA RelativeLength ==
    ASSUME NEW h \in Path, NEW p \in Path, isPathPrefix(h, p)
    PROVE  /\ Len(relative(h, p)) = Len(p) - Len(h)
           /\ \A i \in 1..Len(p) - Len(h) : relative(h, p)[i] = p[Len(h) + i]
<1>1. Len(h) \in Nat /\ Len(p) \in Nat /\ Len(h) <= Len(p)
    BY DEF isPathPrefix, Path
<1>2. QED
    BY <1>1 DEF relative, Path

LEMMA RelativeKnows ==
    ASSUME NEW h \in Path, NEW p \in Path, NEW q \in Path, isPathPrefix(h, p), isPathPrefix(h, q),
           relative(h, p) = relative(h, q)
    PROVE  p = q
<1>1. Len(h) \in Nat /\ Len(p) \in Nat /\ Len(q) \in Nat /\ Len(h) <= Len(p) /\ Len(h) <= Len(q)
    BY DEF isPathPrefix, Path
<1>2. Len(p) = Len(q)
    BY <1>1, RelativeLength
<1>3. ASSUME NEW i \in 1..Len(p) PROVE p[i] = q[i]
    <2>1. CASE i <= Len(h)
        BY <1>3, <2>1, <1>1 DEF isPathPrefix
    <2>2. CASE Len(h) < i
        <3>1. i - Len(h) \in 1..Len(p) - Len(h) /\ Len(h) + (i - Len(h)) = i
            BY <1>1, <2>2
        <3>2. relative(h, p)[i - Len(h)] = p[i] /\ relative(h, q)[i - Len(h)] = q[i]
            BY <1>2, <3>1, RelativeLength
        <3>3. QED
            BY <3>2
    <2>3. QED
        BY <1>1, <2>1, <2>2
<1>4. isPathPrefix(p, q)
    BY <1>1, <1>2, <1>3 DEF isPathPrefix
<1>5. QED
    BY <1>1, <1>2, <1>4, PrefixSame

LEMMA RelativeEmpty ==
    ASSUME NEW h \in Path, NEW p \in Path, isPathPrefix(h, p), relative(h, p) = << >>
    PROVE  h = p
<1>1. Len(h) \in Nat /\ Len(p) \in Nat /\ Len(p) - Len(h) = 0
    BY RelativeLength DEF Path
<1>2. QED
    BY <1>1, PrefixSame

-----------------------------------------------------------------------------
(***************************************************************************)
(* Nothing is redacted that is not secret, and what is at or below what is *)
(* secret is secret.                                                       *)
(***************************************************************************)
(* The paths of a result are paths, a tree holds what leads to its nodes, and a  *)
(* leaf is below no other and below objects only.                                *)
LEMMA Declared ==
    ASSUME Inputs, NEW R \in Sides
    PROVE  /\ << >> \in DOMAIN R.config /\ DOMAIN R.config \subseteq Path
           /\ DOMAIN R.resolved \subseteq Path /\ (R.ok => DOMAIN R.resolved \subseteq DOMAIN R.config)
           /\ \A p \in DOMAIN R.config : \A q \in Path : isPathPrefix(q, p) => q \in DOMAIN R.config
           /\ \A p \in DOMAIN R.resolved : \A q \in Path :
                q # p /\ isPathPrefix(q, p) => q \notin DOMAIN R.resolved /\ (R.ok => R.config[q] = "object")
<1>1. /\ << >> \in DOMAIN R.config /\ DOMAIN R.config \subseteq Path
      /\ \A p \in DOMAIN R.config : \A n \in 0..Len(p) : SubSeq(p, 1, n) \in DOMAIN R.config
      /\ DOMAIN R.resolved \subseteq Path /\ (R.ok => DOMAIN R.resolved \subseteq DOMAIN R.config)
      /\ \A p \in DOMAIN R.resolved : \A q \in DOMAIN R.config \cup DOMAIN R.resolved :
            q # p /\ isPathPrefix(q, p) =>
                q \notin DOMAIN R.resolved /\ (q \in DOMAIN R.config => R.config[q] = "object")
    BY InputsAsDeclared DEF InputsAsDeclared, Inputs, Sides, Path
<1>2. ASSUME NEW p \in DOMAIN R.config, NEW q \in Path, isPathPrefix(q, p)
      PROVE  q \in DOMAIN R.config
    <2>1. p \in Path /\ Len(q) \in 0..Len(p)
        BY <1>1, <1>2 DEF isPathPrefix, Path
    <2>2. q = SubSeq(p, 1, Len(q))
        BY <1>2, <2>1, Truncated
    <2>3. QED
        BY <1>1, <2>1, <2>2
<1>3. QED
    BY <1>1, <1>2

(* A leaf is its own closest source. *)
LEMMA LeafIsClosest ==
    ASSUME Inputs, NEW R \in Sides, NEW q \in DOMAIN R.resolved
    PROVE  /\ closestSource(DOMAIN R.resolved, q) = {q}
           /\ \A p \in Path : isPathPrefix(p, q) /\ p # q => closestSource(DOMAIN R.resolved, p) = {}
<1>1. q \in Path /\ \A p \in DOMAIN R.resolved : p \in Path
    BY Declared
<1>2. \A p \in DOMAIN R.resolved : isPathPrefix(p, q) => p = q
    BY <1>1, Declared
<1>3. Len(q) <= Len(q)
    BY <1>1 DEF Path
<1>4. ASSUME NEW p \in Path, isPathPrefix(p, q), p # q
      PROVE  closestSource(DOMAIN R.resolved, p) = {}
    <2>1. SUFFICES ASSUME NEW r \in DOMAIN R.resolved, isPathPrefix(r, p) PROVE FALSE
        BY DEF closestSource
    <2>2. r = q
        BY <1>1, <1>2, <1>4, <2>1, PrefixTransitive
    <2>3. QED
        BY <1>1, <1>4, <2>1, <2>2, PrefixSame DEF isPathPrefix
<1>5. closestSource(DOMAIN R.resolved, q) = {q}
    <2>1. \A r \in closestSource(DOMAIN R.resolved, q) : r = q
        BY <1>2 DEF closestSource
    <2>2. q \in closestSource(DOMAIN R.resolved, q)
        BY <1>1, <1>2, <1>3, PrefixReflexive DEF closestSource
    <2>3. QED
        BY <2>1, <2>2
<1>6. QED
    BY <1>4, <1>5

(* What is below a secret path is secret. *)
LEMMA SecretBelow ==
    ASSUME Inputs, NEW q \in Path, NEW p \in Path, isPathPrefix(q, p), Secret(q)
    PROVE  Secret(p)
<1>1. CASE \E r \in options.paths : isPathPrefix(r, q)
    <2>1. options.paths \subseteq Path
        BY InputsAsDeclared DEF InputsAsDeclared, Inputs, Path
    <2>2. QED
        BY <1>1, <2>1, PrefixTransitive DEF Secret
<1>2. ASSUME NEW R \in Sides, NEW r \in DOMAIN R.resolved, isPathPrefix(r, q),
             R.incomplete \/ \E id \in {R.resolved[r].winner} \cup {R.resolved[r].overridden[i] : i \in 1..Len(R.resolved[r].overridden)} :
                                 SecretSource(id)
      PROVE  Secret(p)
    <2>1. isPathPrefix(r, p)
        BY <1>2, PrefixTransitive, Declared
    <2>2. QED
        BY <1>2, <2>1 DEF Secret
<1>3. ASSUME NEW R \in Sides, NEW id \in DOMAIN R.sources, NEW r \in R.sources[id].secretPaths, isPathPrefix(r, q)
      PROVE  Secret(p)
    <2>1. r \in Path
        BY <1>3, InputsAsDeclared DEF InputsAsDeclared, Inputs, Sides, Path
    <2>2. isPathPrefix(r, p)
        BY <1>3, <2>1, PrefixTransitive
    <2>3. QED
        BY <1>3, <2>2 DEF Secret
<1>4. CASE \E i \in 1..Len(q) :
            q[i] \in DEFAULT_SECRET_NAMES \cup options.names \cup sourceNames(before) \cup sourceNames(after)
    <2>1. \A i \in 1..Len(q) : i \in 1..Len(p) /\ p[i] = q[i]
        BY DEF isPathPrefix, Path
    <2>2. QED
        BY <1>4, <2>1 DEF Secret
<1>5. QED
    BY <1>1, <1>2, <1>3, <1>4 DEF Secret

(* Two results with all their owners. *)
Complete == Inputs /\ \A R \in Sides : R.ok /\ ~R.incomplete

(* A redactor whose paths are secret and whose names are redacts just secrets. *)
LEMMA RedactorIsSound ==
    ASSUME Inputs, NEW redactor, NEW p \in Path, redacts(redactor, p),
           \A q \in redactor.paths : q \in Path /\ Secret(q),
           redactor.names \subseteq DEFAULT_SECRET_NAMES \cup options.names \cup sourceNames(before) \cup sourceNames(after)
    PROVE  Secret(p)
<1>1. CASE \E q \in redactor.paths : isPathPrefix(q, p)
    BY <1>1, SecretBelow
<1>2. CASE \E i \in 1..Len(p) : p[i] \in redactor.names
    BY <1>2 DEF Secret
<1>3. QED
    BY <1>1, <1>2 DEF redacts

(* The paths that a redactor is made of. *)
LEMMA NamedPathsAreSecret ==
    ASSUME Inputs, NEW p \in options.paths \cup sourcePaths(before) \cup sourcePaths(after)
    PROVE  p \in Path /\ Secret(p)
<1>1. CASE p \in options.paths
    <2>1. p \in Path
        BY <1>1, InputsAsDeclared DEF InputsAsDeclared, Inputs, Path
    <2>2. QED
        BY <1>1, <2>1, PrefixReflexive DEF Secret
<1>2. ASSUME NEW R \in Sides, p \in sourcePaths(R)
      PROVE  p \in Path /\ Secret(p)
    <2>1. PICK id \in DOMAIN R.sources : p \in R.sources[id].secretPaths
        BY <1>2 DEF sourcePaths, sourceIds
    <2>2. p \in Path
        BY <2>1, InputsAsDeclared DEF InputsAsDeclared, Inputs, Sides, Path
    <2>3. QED
        BY <2>1, <2>2, PrefixReflexive DEF Secret
<1>3. QED
    BY <1>1, <1>2 DEF Sides

LEMMA OwnedLeavesAreSecret ==
    ASSUME Inputs, NEW R \in Sides, NEW ids, \A id \in ids : SecretSource(id),
           NEW p \in DOMAIN R.resolved, ownedBy(R.resolved[p], ids)
    PROVE  p \in Path /\ Secret(p)
<1>1. p \in Path /\ isPathPrefix(p, p)
    BY PrefixReflexive, Declared
<1>2. \E id \in {R.resolved[p].winner} \cup {R.resolved[p].overridden[i] : i \in 1..Len(R.resolved[p].overridden)} :
        SecretSource(id)
    BY DEF ownedBy
<1>3. QED
    BY <1>1, <1>2 DEF Secret

LEMMA SecretIdsAreSecret ==
    ASSUME Inputs, NEW R \in Sides, NEW o, \A id \in o.ids : SecretSource(id)
    PROVE  \A id \in secretIds(R, o) : SecretSource(id)
BY DEF secretIds, sourceIds, SecretSource

LEMMA SharedIsSecret ==
    ASSUME Complete
    PROVE  /\ \A id \in Shared.ids : SecretSource(id)
           /\ \A p \in Shared.paths : p \in Path /\ Secret(p)
           /\ Shared.names = options.names \cup sourceNames(before) \cup sourceNames(after)
<1>. DEFINE ids == secretIds(before, options) \cup secretIds(after, options)
            combined == [options EXCEPT !.ids = ids]
            secretLeaves(R) == {p \in DOMAIN R.resolved : redacts(createPathRedactor(R, combined), p)}
<1>1. combined.ids = ids /\ combined.paths = options.paths /\ combined.names = options.names
    <2>1. options = [ids |-> options.ids, paths |-> options.paths, names |-> options.names]
        BY InputsAsDeclared DEF InputsAsDeclared, Inputs, Complete
    <2>. HIDE DEF ids
    <2>2. QED
        BY <2>1
<1>2. \A id \in ids : SecretSource(id)
    BY DEF secretIds, sourceIds, SecretSource, Sides
<1>3. Shared.ids = ids /\ Shared.names = options.names \cup sourceNames(before) \cup sourceNames(after)
    BY DEF Shared, sharedRedaction
<1>4. ASSUME NEW R \in Sides, NEW p \in secretLeaves(R)
      PROVE  p \in Path /\ Secret(p)
    <2>. DEFINE redactor == createPathRedactor(R, combined)
    <2>1. p \in Path /\ ~R.incomplete /\ Inputs
        BY <1>4, Declared DEF Complete
    <2>2. \A q \in redactor.paths : q \in Path /\ Secret(q)
        <3>1. \A id \in secretIds(R, combined) : SecretSource(id)
            BY <1>1, <1>2, <2>1, SecretIdsAreSecret
        <3>2. ASSUME NEW q \in redactor.paths
              PROVE  \/ q \in options.paths \cup sourcePaths(R)
                     \/ q \in DOMAIN R.resolved /\ ownedBy(R.resolved[q], secretIds(R, combined))
            BY <1>1, <2>1, <3>2 DEF createPathRedactor
        <3>3. sourcePaths(R) \subseteq sourcePaths(before) \cup sourcePaths(after)
            BY DEF Sides
        <3>4. QED
            BY <2>1, <3>1, <3>2, <3>3, NamedPathsAreSecret, OwnedLeavesAreSecret
    <2>3. redactor.names \subseteq DEFAULT_SECRET_NAMES \cup options.names \cup sourceNames(before) \cup sourceNames(after)
        BY <1>1 DEF createPathRedactor, Sides
    <2>4. redacts(redactor, p)
        BY <1>4
    <2>. HIDE DEF redactor
    <2>5. QED
        BY <2>1, <2>2, <2>3, <2>4, RedactorIsSound
<1>5. Shared.paths = options.paths \cup sourcePaths(before) \cup sourcePaths(after)
                        \cup secretLeaves(before) \cup secretLeaves(after)
    BY DEF Shared, sharedRedaction
<1>6. \A p \in Shared.paths : p \in Path /\ Secret(p)
    <2>1. Inputs
        BY DEF Complete
    <2>. HIDE DEF secretLeaves
    <2>2. QED
        BY <1>4, <1>5, <2>1, NamedPathsAreSecret DEF Sides
<1>7. QED
    BY <1>2, <1>3, <1>6

(* On both sides just what is secret is redacted. *)
LEMMA RedactedIsSecret ==
    ASSUME Complete, NEW R \in Sides, NEW p \in Path
    PROVE  redacts(createPathRedactor(R, Shared), p) <=> Secret(p)
<1>. DEFINE redactor == createPathRedactor(R, Shared)
<1>1. Inputs /\ ~R.incomplete
    BY DEF Complete
<1>2. Secret(p) => redacts(redactor, p)
    BY <1>1, SecretIsRedacted
<1>3. \A q \in redactor.paths : q \in Path /\ Secret(q)
    <2>1. \A id \in secretIds(R, Shared) : SecretSource(id)
        BY <1>1, SharedIsSecret, SecretIdsAreSecret
    <2>2. ASSUME NEW q \in redactor.paths
          PROVE  \/ q \in Shared.paths \cup sourcePaths(R)
                 \/ q \in DOMAIN R.resolved /\ ownedBy(R.resolved[q], secretIds(R, Shared))
        BY <1>1, <2>2 DEF createPathRedactor
    <2>3. sourcePaths(R) \subseteq sourcePaths(before) \cup sourcePaths(after)
        BY DEF Sides
    <2>4. QED
        BY <1>1, <2>1, <2>2, <2>3, SharedIsSecret, NamedPathsAreSecret, OwnedLeavesAreSecret
<1>4. redactor.names \subseteq DEFAULT_SECRET_NAMES \cup options.names \cup sourceNames(before) \cup sourceNames(after)
    BY SharedIsSecret DEF createPathRedactor, Sides
<1>. HIDE DEF redactor
<1>5. redacts(redactor, p) => Secret(p)
    BY <1>1, <1>3, <1>4, RedactorIsSound
<1>6. QED
    BY <1>2, <1>5 DEF redactor

-----------------------------------------------------------------------------
(***************************************************************************)
(* The diff that a policy is checked on: that of all entries of two good   *)
(* results.                                                                *)
(***************************************************************************)
Entries(R) == inspected(R, << >>, DOMAIN R.resolved, createPathRedactor(R, Shared))

(* The entries are the nodes below nothing secret, and the secret ones redacted. *)
LEMMA EntriesAreVisible ==
    ASSUME Complete, NEW R \in Sides
    PROVE  /\ DOMAIN Entries(R) = Visible(R)
           /\ \A p \in Visible(R) :
                /\ Entries(R)[p].visibility = "redacted" <=> Secret(p)
                /\ Entries(R)[p].type = "object" <=> R.config[p] = "object"
                /\ Entries(R)[p].source = closestSource(DOMAIN R.resolved, p)
<1>. DEFINE redactor == createPathRedactor(R, Shared)
            nodes == below(<< >>, DOMAIN R.config)
            Hidden == {p \in nodes : hidden(DOMAIN R.resolved, redactor, p)}
            Visited == {p \in nodes : \A q \in Hidden : isPathPrefix(q, p) => q = p}
<1>1. Inputs /\ DOMAIN R.config \subseteq Path /\ DOMAIN R.resolved \subseteq Path
    BY Declared DEF Complete
<1>2. nodes = DOMAIN R.config
    BY <1>1, PrefixReflexive DEF below
<1>3. \A p \in nodes : hidden(DOMAIN R.resolved, redactor, p) <=> Secret(p)
    <2>1. \A p \in Path : redacts(redactor, p) <=> Secret(p)
        BY RedactedIsSecret
    <2>2. \A p \in nodes : \A q \in closestSource(DOMAIN R.resolved, p) : Secret(q) => Secret(p)
        BY <1>1, <1>2, SecretBelow DEF closestSource
    <2>3. \A p \in nodes : p \in Path /\ \A q \in closestSource(DOMAIN R.resolved, p) : q \in Path
        BY <1>1, <1>2 DEF closestSource
    <2>. HIDE DEF redactor
    <2>4. QED
        BY <2>1, <2>2, <2>3 DEF hidden
<1>4. Hidden = {p \in DOMAIN R.config : Secret(p)}
    BY <1>2, <1>3
<1>5. Visited = Visible(R)
    BY <1>2, <1>4 DEF Visible
<1>6. Entries(R) = [p \in Visited |->
            [type |-> configValueType(R.config[p]),
             visibility |-> IF p \in Hidden THEN "redacted"
                            ELSE IF R.config[p] \in {"object", "array"} THEN "container" ELSE "visible",
             source |-> closestSource(DOMAIN R.resolved, p)]]
    BY DEF Entries, inspected
<1>7. \A p \in Visited : p \in Hidden <=> Secret(p)
    BY <1>3
<1>. HIDE DEF Hidden, Visited
<1>8. ASSUME NEW p \in Visited
      PROVE  /\ Entries(R)[p].visibility = "redacted" <=> Secret(p)
             /\ Entries(R)[p].type = "object" <=> R.config[p] = "object"
             /\ Entries(R)[p].source = closestSource(DOMAIN R.resolved, p)
    <2>1. Entries(R)[p] = [type |-> configValueType(R.config[p]),
             visibility |-> IF p \in Hidden THEN "redacted"
                            ELSE IF R.config[p] \in {"object", "array"} THEN "container" ELSE "visible",
             source |-> closestSource(DOMAIN R.resolved, p)]
        BY <1>6, <1>8
    <2>2. configValueType(R.config[p]) = "object" <=> R.config[p] = "object"
        BY DEF configValueType
    <2>3. QED
        BY <1>7, <2>1, <2>2
<1>9. DOMAIN Entries(R) = Visited
    BY <1>6
<1>10. QED
    BY <1>5, <1>8, <1>9

(* An inspection of all is good for a good result only, and shows its entries. *)
LEMMA GoodInspection ==
    ASSUME Inputs, NEW R \in Sides, NEW over, comparisonInspection(R, Shared, << >>, over).status # "error"
    PROVE  /\ R.ok /\ ~R.incomplete
           /\ comparisonInspection(R, Shared, << >>, over).entries = Entries(R)
<1>. DEFINE whole == buildDiagnosticReport(R, Shared, "report" \notin over)
            report == selectedReport(whole, << >>)
            result == buildConfigInspection(R, Shared, << >>, over)
<1>1. << >> \in DOMAIN R.config /\ DOMAIN R.resolved \subseteq Path
    BY Declared
<1>2. ~(Len(<< >>) > MaxPathLength)
    BY ComparisonConstants
<1>3. report.status = whole.status
    BY DEF selectedReport
<1>4. whole.status = "error" \/ (R.ok /\ ~R.incomplete /\ whole.resolved = DOMAIN R.resolved)
    BY DEF buildDiagnosticReport, omittedReport
<1>5. report.resolved = {p \in whole.resolved : overlap(<< >>, p)}
    BY DEF selectedReport
<1>6. result.code # "inspection_path_not_found"
    <2>1. inspectionFailure(report, "max_inspection_entries_exceeded").code = "max_inspection_entries_exceeded"
          /\ inspectionFailure(report, "max_report_bytes_exceeded").code = "max_report_bytes_exceeded"
        BY DEF inspectionFailure
    <2>. HIDE DEF whole, report
    <2>2. QED
        BY <1>1, <1>2, <2>1 DEF buildConfigInspection, whole, report
<1>7. comparisonInspection(R, Shared, << >>, over) = result
    BY <1>6 DEF comparisonInspection, withoutFailure
<1>8. result.status # "error"
    BY <1>7
<1>9. R.ok /\ report.status # "error" /\ result.entries = inspected(R, << >>, report.resolved, createPathRedactor(R, Shared))
    <2>1. \A c : inspectionFailure(report, c).status = "error"
        BY DEF inspectionFailure
    <2>2. CASE ~R.ok \/ report.status = "error"
        <3>1. report.status = "error"
            BY <1>3, <1>4, <2>2
        <3>2. result = [status |-> report.status, found |-> TRUE, entries |-> << >>, diagnostics |-> report, code |-> "none"]
            BY <1>1, <1>2, <2>2 DEF buildConfigInspection
        <3>. HIDE DEF result, report
        <3>3. QED
            BY <1>8, <3>1, <3>2
    <2>3. CASE ~(~R.ok \/ report.status = "error")
        <3>1. \/ result = inspectionFailure(report, "max_inspection_entries_exceeded")
              \/ result = inspectionFailure(report, "max_report_bytes_exceeded")
              \/ result = [status |-> "ok", found |-> TRUE,
                           entries |-> inspected(R, << >>, report.resolved, createPathRedactor(R, Shared)),
                           diagnostics |-> report, code |-> "none"]
            BY <1>1, <1>2, <2>3 DEF buildConfigInspection
        <3>. HIDE DEF result, report
        <3>2. QED
            BY <1>8, <2>1, <2>3, <3>1
    <2>4. QED
        BY <2>2, <2>3
<1>10. ~R.incomplete /\ report.resolved = DOMAIN R.resolved
    <2>1. \A p \in DOMAIN R.resolved : overlap(<< >>, p)
        BY <1>1, PrefixReflexive DEF overlap
    <2>2. QED
        BY <1>3, <1>4, <1>5, <1>9, <2>1
<1>11. QED
    BY <1>7, <1>9, <1>10 DEF Entries

(* The kinds of change of the entries. *)
Kinds(p) == changeKinds(before, after, Entries(before), Entries(after), p, comparison, detect)
Keys == DOMAIN Entries(before) \cup DOMAIN Entries(after)

(* A diff that is no failure. *)
GoodDiff(d) ==
    /\ Complete /\ normalizeComparisonOptions(comparison)
    /\ d.status = "ok"
    /\ d.changes = [p \in {q \in Keys : Kinds(q) # {}} |-> Kinds(p)]
    /\ d.uncompared = uncomparedSecretPaths(Entries(before), Entries(after), comparison, detect)

LEMMA DiffIsGood ==
    ASSUME Inputs, NEW over, NEW d, d = buildConfigDiff(before, after, options, << >>, comparison, detect, over),
           d.status # "error"
    PROVE  GoodDiff(d)
<1>. DEFINE left == comparisonInspection(before, Shared, << >>, over.before)
            right == comparisonInspection(after, Shared, << >>, over.after)
            keys == DOMAIN left.entries \cup DOMAIN right.entries
            kinds == [p \in keys |-> changeKinds(before, after, left.entries, right.entries, p, comparison, detect)]
<1>1. diffFailure(left, right).status = "error"
    BY DEF diffFailure
<1>2. /\ normalizeComparisonOptions(comparison)
      /\ "error" \notin {left.status, right.status}
      /\ d = [status |-> "ok", before |-> left, after |-> right,
              changes |-> [p \in {q \in keys : kinds[q] # {}} |-> kinds[p]],
              uncompared |-> uncomparedSecretPaths(left.entries, right.entries, comparison, detect)]
    BY <1>1 DEF buildConfigDiff, Shared
<1>3. /\ Complete
      /\ left.entries = Entries(before) /\ right.entries = Entries(after)
    <2>1. left.status # "error" /\ right.status # "error"
        BY <1>2
    <2>2. before \in Sides /\ after \in Sides
        BY DEF Sides
    <2>3. QED
        BY <2>1, <2>2, GoodInspection DEF Complete, Sides
<1>. HIDE DEF left, right
<1>4. keys = Keys
    BY <1>3 DEF Keys
<1>5. \A p \in keys : kinds[p] = Kinds(p)
    BY <1>3 DEF Kinds
<1>. HIDE DEF kinds, keys
<1>6. [p \in {q \in keys : kinds[q] # {}} |-> kinds[p]] = [p \in {q \in Keys : Kinds(q) # {}} |-> Kinds(p)]
    BY <1>4, <1>5
<1>7. /\ d.status = "ok"
      /\ d.changes = [p \in {q \in keys : kinds[q] # {}} |-> kinds[p]]
      /\ d.uncompared = uncomparedSecretPaths(left.entries, right.entries, comparison, detect)
    BY <1>2
<1>8. QED
    BY <1>2, <1>3, <1>6, <1>7 DEF GoodDiff

-----------------------------------------------------------------------------
(***************************************************************************)
(* What the evaluator asks of the diff is so of the two configurations.    *)
(***************************************************************************)
(* Every secret path has a first secret prefix: the one that is shown redacted. *)
Topmost(h) == Secret(h) /\ \A q \in Path : isPathPrefix(q, h) /\ q # h => ~Secret(q)

LEMMA TopmostSecret ==
    ASSUME NEW p \in Path, Secret(p)
    PROVE  \E h \in Path : isPathPrefix(h, p) /\ Topmost(h)
<1>. DEFINE T == {n \in 0..Len(p) : Secret(SubSeq(p, 1, n))}
<1>1. Len(p) \in Nat /\ Len(p) \in 0..Len(p)
    BY DEF Path
<1>2. p = SubSeq(p, 1, Len(p))
    BY <1>1, Truncated, PrefixReflexive
<1>3. T \in SUBSET Nat /\ T # {}
    <2>1. Secret(SubSeq(p, 1, Len(p)))
        BY ONLY <1>2, Secret(p)
    <2>2. Len(p) \in T
        BY <1>1, <2>1
    <2>3. 0..Len(p) \subseteq Nat
        BY <1>1
    <2>4. QED
        BY <2>2, <2>3
<1>4. PICK n \in T : \A k \in T : n <= k
    BY <1>3, LeastNumber
<1>. DEFINE h == SubSeq(p, 1, n)
<1>5. n \in 0..Len(p) /\ Secret(h)
    BY <1>4
<1>6. h \in Path /\ Len(h) = n /\ isPathPrefix(h, p)
    BY <1>5, Truncated
<1>. HIDE DEF h
<1>7. ASSUME NEW q \in Path, isPathPrefix(q, h), q # h, Secret(q)
      PROVE  FALSE
    <2>1. isPathPrefix(q, p)
        BY <1>6, <1>7, PrefixTransitive
    <2>2. Len(q) \in 0..Len(p)
        BY <1>1, <2>1 DEF isPathPrefix, Path
    <2>3. q = SubSeq(p, 1, Len(q))
        BY <2>1, <2>2, Truncated
    <2>4. Len(q) \in T
        BY <1>7, <2>2, <2>3
    <2>5. Len(h) <= Len(q)
        BY <1>4, <1>6, <2>4
    <2>6. QED
        BY <1>6, <1>7, <2>5, PrefixSame
<1>8. QED
    BY <1>5, <1>6, <1>7 DEF Topmost, h

LEMMA TopmostIsVisible ==
    ASSUME Inputs, NEW R \in Sides, NEW h \in DOMAIN R.config, Topmost(h)
    PROVE  h \in Visible(R)
<1>1. DOMAIN R.config \subseteq Path
    BY Declared
<1>2. QED
    BY <1>1 DEF Visible, Topmost

(* Where secrets are not compared, those at the path are just what is unknown. *)
LEMMA UnknownIsSecret ==
    ASSUME GoodDiff(theDiff), NEW p \in Path
    PROVE  intersects(theDiff.uncompared, p) <=>
                /\ comparison.values /\ ~detect
                /\ \E q \in DOMAIN before.config \cap DOMAIN after.config : overlap(p, q) /\ Secret(q)
<1>. DEFINE Both == DOMAIN before.config \cap DOMAIN after.config
<1>1. Inputs /\ Complete /\ before \in Sides /\ after \in Sides
    BY DEF GoodDiff, Complete, Sides
<1>2. theDiff.uncompared =
        {q \in Visible(before) \cap Visible(after) : comparison.values /\ ~detect /\ Secret(q)}
    <2>1. DOMAIN Entries(before) = Visible(before) /\ DOMAIN Entries(after) = Visible(after)
        BY <1>1, EntriesAreVisible
    <2>2. \A q \in Visible(before) \cap Visible(after) :
            "redacted" \in {Entries(before)[q].visibility, Entries(after)[q].visibility} <=> Secret(q)
        BY <1>1, EntriesAreVisible
    <2>3. QED
        BY <2>1, <2>2 DEF GoodDiff, uncomparedSecretPaths
<1>3. Visible(before) \cap Visible(after) \subseteq Both
    BY DEF Visible
<1>4. ASSUME NEW q \in Both, overlap(p, q), Secret(q)
      PROVE  \E h \in Visible(before) \cap Visible(after) : overlap(h, p) /\ Secret(h)
    <2>1. q \in Path
        BY <1>1, Declared
    <2>2. PICK h \in Path : isPathPrefix(h, q) /\ Topmost(h)
        BY <1>4, <2>1, TopmostSecret
    <2>3. h \in DOMAIN before.config /\ h \in DOMAIN after.config
        BY <1>1, <2>2, Declared
    <2>4. h \in Visible(before) /\ h \in Visible(after)
        BY <1>1, <2>2, <2>3, TopmostIsVisible
    <2>5. overlap(h, p)
        <3>1. overlap(q, p)
            BY <1>4 DEF overlap
        <3>2. QED
            BY <2>1, <2>2, <3>1, PrefixOverlaps
    <2>6. QED
        BY <2>2, <2>4, <2>5 DEF Topmost
<1>5. \A q : overlap(p, q) <=> overlap(q, p)
    BY DEF overlap
<1>. HIDE DEF Both
<1>6. QED
    BY <1>2, <1>3, <1>4, <1>5 DEF intersects, Both

(* Additions and removals are what is visible on one side only. *)
LEMMA AddedOrRemoved ==
    ASSUME GoodDiff(theDiff)
    PROVE  changed({"added", "removed"}) =
                (Visible(before) \ Visible(after)) \cup (Visible(after) \ Visible(before))
<1>1. DOMAIN Entries(before) = Visible(before) /\ DOMAIN Entries(after) = Visible(after)
    BY EntriesAreVisible DEF GoodDiff, Sides
<1>2. \A p \in Keys : Kinds(p) \cap {"added", "removed"} # {} <=>
                        p \notin DOMAIN Entries(before) \/ p \notin DOMAIN Entries(after)
    BY DEF Kinds, changeKinds
<1>3. \A p \in Keys : Kinds(p) \cap {"added", "removed"} # {} => Kinds(p) # {}
    OBVIOUS
<1>4. changed({"added", "removed"}) = {p \in Keys : Kinds(p) \cap {"added", "removed"} # {}}
    <2>. DEFINE C == {q \in Keys : Kinds(q) # {}}
    <2>1. DOMAIN theDiff.changes = C /\ \A p \in C : theDiff.changes[p] = Kinds(p)
        BY DEF GoodDiff
    <2>2. QED
        BY <1>3, <2>1 DEF changed
<1>5. QED
    BY <1>1, <1>2, <1>4 DEF Keys

LEMMA PresenceIsVisibility ==
    ASSUME GoodDiff(theDiff), NEW p
    PROVE  intersects(changed({"added", "removed"}), p) <=>
                {q \in Visible(before) : overlap(p, q)} # {q \in Visible(after) : overlap(p, q)}
<1>1. \A q : overlap(p, q) <=> overlap(q, p)
    BY DEF overlap
<1>2. QED
    BY <1>1, AddedOrRemoved DEF intersects

(* Where the owners of an entry of both sides differ, there is a change of source. *)
LEMMA SourcesDiffer ==
    ASSUME GoodDiff(theDiff), NEW p, NEW q \in Visible(before) \cap Visible(after), overlap(q, p),
           sourceIdentities(before, Entries(before), q, comparison) # sourceIdentities(after, Entries(after), q, comparison)
    PROVE  sourcesChanged(p)
<1>1. q \in DOMAIN Entries(before) /\ q \in DOMAIN Entries(after)
    BY EntriesAreVisible DEF GoodDiff, Sides
<1>2. "source-changed" \in Kinds(q) /\ q \in Keys
    BY <1>1 DEF Kinds, changeKinds, Keys
<1>3. q \in DOMAIN theDiff.changes /\ theDiff.changes[q] = Kinds(q)
    BY <1>2 DEF GoodDiff
<1>4. q \in changed({"source-changed"})
    BY <1>2, <1>3 DEF changed
<1>5. QED
    BY <1>4 DEF sourcesChanged, intersects

-----------------------------------------------------------------------------
(***************************************************************************)
(* Owners that differ at a path show as a change of source of some entry.  *)
(***************************************************************************)
Owned == comparison.sources \/ comparison.locations
Identity(R, q) == sourceIdentity(R, R.resolved[q], comparison)
Identities(R, q) == sourceIdentities(R, Entries(R), q, comparison)
Opaque(R, q) == Secret(q) /\ R.config[q] = "object" /\ closestSource(DOMAIN R.resolved, q) = {}

(* The owners compared at an entry: of its leaf, or of all leaves below a secret. *)
LEMMA EntryIdentities ==
    ASSUME Complete, Owned, NEW R \in Sides, NEW q \in Visible(R)
    PROVE  /\ Opaque(R, q) =>
                Identities(R, q) = {<<relative(q, r), Identity(R, r)>> : r \in below(q, DOMAIN R.resolved)}
           /\ ~Opaque(R, q) =>
                Identities(R, q) = {<< << >>, Identity(R, r)>> : r \in closestSource(DOMAIN R.resolved, q)}
<1>1. /\ Entries(R)[q].visibility = "redacted" <=> Secret(q)
      /\ Entries(R)[q].type = "object" <=> R.config[q] = "object"
      /\ Entries(R)[q].source = closestSource(DOMAIN R.resolved, q)
    BY EntriesAreVisible
<1>2. CASE Opaque(R, q)
    BY <1>1, <1>2 DEF Identities, sourceIdentities, Identity, Owned, Opaque
<1>3. CASE ~Opaque(R, q)
    BY <1>1, <1>3 DEF Identities, sourceIdentities, Identity, Owned, Opaque
<1>4. QED
    BY <1>2, <1>3

(* An entry whose owner is a leaf of its own tells it from all below it. *)
LEMMA LeafIdentity ==
    ASSUME Complete, Owned, NEW R \in Sides, NEW q \in Visible(R), q \in DOMAIN R.resolved
    PROVE  Identities(R, q) = {<< << >>, Identity(R, q)>>}
<1>1. closestSource(DOMAIN R.resolved, q) = {q}
    BY LeafIsClosest DEF Complete
<1>2. ~Opaque(R, q)
    BY <1>1 DEF Opaque
<1>3. QED
    BY <1>1, <1>2, EntryIdentities

(* Where an entry has no leaf at or above it, none of its identities is that of *)
(* the entry itself.                                                            *)
LEMMA NoLeafIdentity ==
    ASSUME Complete, Owned, NEW R \in Sides, NEW q \in Visible(R), closestSource(DOMAIN R.resolved, q) = {}, NEW id
    PROVE  << << >>, id>> \notin Identities(R, q)
<1>1. CASE ~Opaque(R, q)
    BY <1>1, EntryIdentities
<1>2. CASE Opaque(R, q)
    <2>1. Identities(R, q) = {<<relative(q, r), Identity(R, r)>> : r \in below(q, DOMAIN R.resolved)}
        BY <1>2, EntryIdentities
    <2>2. Inputs /\ q \in Path /\ DOMAIN R.resolved \subseteq Path
        BY Declared DEF Complete, Visible
    <2>3. ASSUME NEW r \in below(q, DOMAIN R.resolved), relative(q, r) = << >>
          PROVE  FALSE
        <3>1. q = r
            BY <2>2, <2>3, RelativeEmpty DEF below
        <3>2. QED
            BY <2>2, <3>1, LeafIsClosest DEF below
    <2>4. QED
        BY <2>1, <2>3
<1>3. QED
    BY <1>1, <1>2

LEMMA VisibleOnBoth ==
    ASSUME Inputs, NEW R \in Sides, NEW T \in Sides, NEW h \in Visible(R), h \in DOMAIN T.config
    PROVE  h \in Visible(T)
<1>1. h \in Path /\ DOMAIN T.config \subseteq Path
    BY Declared
<1>2. \A q \in DOMAIN T.config : isPathPrefix(q, h) => q \in DOMAIN R.config
    BY <1>1, Declared DEF Visible
<1>3. QED
    BY <1>2 DEF Visible

(* A leaf of one side whose owner the other side does not have there: an entry on *)
(* the way to it has other owners.                                                *)
LEMMA OwnerDiffers ==
    ASSUME Complete, Owned, NEW R \in Sides, NEW T \in Sides,
           NEW q \in DOMAIN R.resolved, q \in DOMAIN T.resolved => Identity(T, q) # Identity(R, q),
           \A h \in Visible(R) : isPathPrefix(h, q) => h \in DOMAIN T.config
    PROVE  \E h \in Visible(R) \cap Visible(T) : isPathPrefix(h, q) /\ Identities(R, h) # Identities(T, h)
<1>1. Inputs /\ q \in Path /\ q \in DOMAIN R.config /\ isPathPrefix(q, q)
    BY Declared, PrefixReflexive DEF Complete
<1>2. \A h \in Visible(R) : isPathPrefix(h, q) => h \in Visible(T)
    BY <1>1, VisibleOnBoth
<1>3. \A h : h \in Visible(R) \/ h \in Visible(T) => h \in Path
    BY <1>1, Declared DEF Visible
<1>4. CASE q \in Visible(R)
    <2>1. q \in Visible(T) /\ Identities(R, q) = {<< << >>, Identity(R, q)>>}
        BY <1>1, <1>2, <1>4, LeafIdentity
    <2>2. CASE closestSource(DOMAIN T.resolved, q) = {}
        <3>1. << << >>, Identity(R, q)>> \notin Identities(T, q)
            BY <2>1, <2>2, NoLeafIdentity
        <3>2. QED
            BY <1>1, <1>4, <2>1, <3>1
    <2>3. CASE q \in DOMAIN T.resolved
        <3>1. Identities(T, q) = {<< << >>, Identity(T, q)>>}
            BY <2>1, <2>3, LeafIdentity
        <3>2. <<<< >>, Identity(R, q)>> # <<<< >>, Identity(T, q)>>
            BY <2>3
        <3>3. QED
            BY <1>1, <1>4, <2>1, <3>1, <3>2
    <2>4. ASSUME NEW r \in closestSource(DOMAIN T.resolved, q), r # q
          PROVE  \E h \in Visible(R) \cap Visible(T) : isPathPrefix(h, q) /\ Identities(R, h) # Identities(T, h)
        <3>1. r \in DOMAIN T.resolved /\ isPathPrefix(r, q)
            BY DEF closestSource
        <3>2. r \in Path /\ r \in DOMAIN R.config /\ r \in DOMAIN T.config
            BY <1>1, <3>1, Declared DEF Complete
        <3>3. r \in Visible(R) /\ ~Secret(r)
            <4>1. ~Secret(r)
                BY <1>4, <2>4, <3>1, <3>2 DEF Visible
            <4>2. \A s \in DOMAIN R.config : isPathPrefix(s, r) => isPathPrefix(s, q)
                BY <1>1, <3>1, <3>2, PrefixTransitive, Declared
            <4>3. \A s \in DOMAIN R.config : isPathPrefix(s, r) /\ s # r => s # q
                BY <1>1, <3>1, <3>2, PrefixSame DEF isPathPrefix
            <4>4. QED
                BY <1>4, <3>2, <4>1, <4>2, <4>3 DEF Visible
        <3>4. r \in Visible(T)
            BY <1>2, <3>1, <3>3
        <3>5. Identities(T, r) = {<< << >>, Identity(T, r)>>}
            BY <3>1, <3>4, LeafIdentity
        <3>6. closestSource(DOMAIN R.resolved, r) = {}
            BY <1>1, <2>4, <3>1, <3>2, LeafIsClosest
        <3>7. Identities(R, r) = {}
            BY <3>3, <3>6, EntryIdentities DEF Opaque
        <3>8. QED
            BY <3>1, <3>3, <3>4, <3>5, <3>7
    <2>5. QED
        BY <2>2, <2>3, <2>4 DEF closestSource
<1>5. CASE q \notin Visible(R)
    <2>1. PICK s \in DOMAIN R.config : isPathPrefix(s, q) /\ s # q /\ Secret(s)
        BY <1>1, <1>5 DEF Visible
    <2>2. PICK h \in Path : isPathPrefix(h, s) /\ Topmost(h)
        BY <1>1, <2>1, TopmostSecret, Declared
    <2>3. s \in Path /\ isPathPrefix(h, q) /\ h # q
        <3>1. s \in Path
            BY <1>1, <2>1, Declared
        <3>2. h = q => isPathPrefix(q, s) /\ Len(s) <= Len(q)
            BY <2>1, <2>2 DEF isPathPrefix
        <3>3. QED
            BY <1>1, <2>1, <2>2, <3>1, <3>2, PrefixTransitive, PrefixSame
    <2>4. h \in DOMAIN R.config /\ R.config[h] = "object"
        BY <1>1, <2>3, Declared DEF Complete
    <2>5. h \in Visible(R) /\ h \in Visible(T)
        BY <1>1, <1>2, <2>2, <2>3, <2>4, TopmostIsVisible
    <2>6. closestSource(DOMAIN R.resolved, h) = {}
        BY <1>1, <2>3, LeafIsClosest
    <2>7. Opaque(R, h)
        BY <2>2, <2>4, <2>6 DEF Opaque, Topmost
    <2>8. <<relative(h, q), Identity(R, q)>> \in Identities(R, h)
        BY <2>3, <2>5, <2>7, EntryIdentities DEF below
    <2>9. <<relative(h, q), Identity(R, q)>> \notin Identities(T, h)
        <3>1. CASE Opaque(T, h)
            <4>1. SUFFICES ASSUME NEW r \in below(h, DOMAIN T.resolved),
                                  <<relative(h, q), Identity(R, q)>> = <<relative(h, r), Identity(T, r)>>
                           PROVE  FALSE
                BY <2>5, <3>1, EntryIdentities
            <4>2. r \in DOMAIN T.resolved /\ r \in Path /\ isPathPrefix(h, r)
                BY <1>1, Declared DEF below
            <4>3. r = q
                BY <1>1, <2>3, <4>1, <4>2, RelativeKnows
            <4>4. QED
                BY <4>1, <4>2, <4>3
        <3>2. CASE ~Opaque(T, h)
            <4>1. relative(h, q) # << >>
                BY <1>1, <2>3, RelativeEmpty
            <4>2. QED
                BY <2>5, <3>2, <4>1, EntryIdentities
        <3>3. QED
            BY <3>1, <3>2
    <2>10. QED
        BY <2>3, <2>5, <2>8, <2>9
<1>6. QED
    BY <1>4, <1>5

(* Equal values are of the same nodes. *)
LEMMA EqualValues ==
    ASSUME Inputs, NEW p \in Path, NEW R \in Sides, NEW T \in Sides,
           getConfigValueAtPath(R, p) = getConfigValueAtPath(T, p),
           NEW q \in DOMAIN R.config, isPathPrefix(p, q)
    PROVE  q \in DOMAIN T.config
<1>. DEFINE nodes(S) == {relative(p, r) : r \in below(p, DOMAIN S.config)}
<1>1. DOMAIN getConfigValueAtPath(R, p) = nodes(R) /\ DOMAIN getConfigValueAtPath(T, p) = nodes(T)
    BY DEF getConfigValueAtPath
<1>2. relative(p, q) \in nodes(R)
    BY DEF below
<1>. HIDE DEF nodes
<1>3. relative(p, q) \in nodes(T)
    BY <1>1, <1>2
<1>4. PICK r \in below(p, DOMAIN T.config) : relative(p, q) = relative(p, r)
    BY <1>3 DEF nodes
<1>5. r \in DOMAIN T.config /\ isPathPrefix(p, r) /\ r \in Path /\ q \in Path
    BY Declared DEF below
<1>6. QED
    BY <1>4, <1>5, RelativeKnows

(* What the other conjuncts of a rule against changes say: then other owners are *)
(* a change of source.                                                           *)
LEMMA OwnersShow ==
    ASSUME GoodDiff(theDiff), Owned, NEW p \in Path, has(before, p), has(after, p),
           comparison.values => getConfigValueAtPath(before, p) = getConfigValueAtPath(after, p),
           ~comparison.values => {q \in Visible(before) : overlap(p, q)} = {q \in Visible(after) : overlap(p, q)},
           Owners(before, p) # Owners(after, p)
    PROVE  sourcesChanged(p)
<1>1. Complete /\ Inputs /\ before \in Sides /\ after \in Sides /\ \A R \in Sides : p \in DOMAIN R.config
    BY DEF GoodDiff, Complete, Sides, has
<1>2. ASSUME NEW R \in Sides, NEW T \in Sides, NEW q \in DOMAIN R.resolved, overlap(q, p),
             q \in DOMAIN T.resolved => Identity(T, q) # Identity(R, q),
             Sides = {R, T}
      PROVE  sourcesChanged(p)
    <2>1. q \in Path
        BY <1>1, Declared
    <2>2. ASSUME NEW h \in Visible(R), isPathPrefix(h, q)
          PROVE  h \in DOMAIN T.config /\ overlap(h, p)
        <3>1. h \in Path /\ h \in DOMAIN R.config
            BY <1>1, Declared DEF Visible
        <3>2. overlap(h, p)
            BY <1>2, <2>1, <2>2, <3>1, PrefixOverlaps
        <3>3. CASE isPathPrefix(h, p)
            BY <1>1, <3>1, <3>2, <3>3, Declared
        <3>4. CASE isPathPrefix(p, h) /\ comparison.values
            <4>1. getConfigValueAtPath(R, p) = getConfigValueAtPath(T, p)
                BY <1>2, <3>4 DEF Sides
            <4>2. QED
                BY <1>1, <3>1, <3>2, <3>4, <4>1, EqualValues
        <3>5. CASE ~comparison.values
            <4>1. overlap(p, h)
                BY <3>2 DEF overlap
            <4>2. {s \in Visible(R) : overlap(p, s)} = {s \in Visible(T) : overlap(p, s)}
                BY <1>2, <3>5 DEF Sides
            <4>3. QED
                BY <2>2, <3>2, <4>1, <4>2 DEF Visible
        <3>6. QED
            BY <3>2, <3>3, <3>4, <3>5 DEF overlap
    <2>3. PICK h \in Visible(R) \cap Visible(T) : isPathPrefix(h, q) /\ Identities(R, h) # Identities(T, h)
        BY <1>1, <1>2, <2>2, OwnerDiffers
    <2>4. overlap(h, p)
        BY <2>2, <2>3
    <2>5. h \in Visible(before) \cap Visible(after) /\ Identities(before, h) # Identities(after, h)
        BY <1>2, <2>3 DEF Sides
    <2>6. QED
        BY <2>4, <2>5, SourcesDiffer DEF Identities
<1>3. ASSUME NEW R \in Sides, NEW T \in Sides, Sides = {R, T}, NEW e, e \in Owners(R, p), e \notin Owners(T, p)
      PROVE  sourcesChanged(p)
    <2>1. PICK q \in DOMAIN R.resolved : overlap(q, p) /\ e = <<q, Identity(R, q)>>
        BY <1>3 DEF Owners, Identity
    <2>2. q \in DOMAIN T.resolved => Identity(T, q) # Identity(R, q)
        BY <1>3, <2>1 DEF Owners, Identity
    <2>3. QED
        BY <1>2, <1>3, <2>1, <2>2
<1>4. PICK e : (e \in Owners(before, p) /\ e \notin Owners(after, p)) \/ (e \in Owners(after, p) /\ e \notin Owners(before, p))
    OBVIOUS
<1>5. Sides = {before, after} /\ Sides = {after, before}
    BY DEF Sides
<1>6. QED
    BY <1>1, <1>3, <1>4, <1>5

-----------------------------------------------------------------------------
(***************************************************************************)
(* The rules.                                                              *)
(***************************************************************************)
(* What the caches keep is what is asked of the two results. *)
SameValues(p) == getConfigValueAtPath(before, p) = getConfigValueAtPath(after, p)
OwnersOfBoth(p) == <<ownershipAtPath(before, p), ownershipAtPath(after, p)>>

CacheInv ==
    /\ \A p \in DOMAIN equality : equality[p] = (~comparison.values \/ SameValues(p))
    /\ \A p \in DOMAIN ownership : ownership[p] = OwnersOfBoth(p)

LEMMA CachesAnswer ==
    ASSUME CacheInv, NEW p
    PROVE  /\ equalAt(p) = (~comparison.values \/ SameValues(p))
           /\ ownersAt(p) = OwnersOfBoth(p)
           /\ sameOwners(p) <=> Owners(before, p) = Owners(after, p)
<1>1. equalAt(p) = (~comparison.values \/ SameValues(p))
    <2>1. CASE p \in DOMAIN equality
        BY <2>1 DEF CacheInv, equalAt, kept
    <2>2. CASE p \notin DOMAIN equality
        BY <2>2 DEF equalAt, kept, SameValues
    <2>3. QED
        BY <2>1, <2>2
<1>2. ownersAt(p) = OwnersOfBoth(p)
    BY DEF CacheInv, ownersAt, kept, OwnersOfBoth
<1>3. \A R : ownershipAtPath(R, p) = Owners(R, p)
    BY DEF ownershipAtPath, Owners, related
<1>4. ownersAt(p)[1] = Owners(before, p) /\ ownersAt(p)[2] = Owners(after, p)
    BY <1>2, <1>3 DEF OwnersOfBoth
<1>5. QED
    BY <1>1, <1>2, <1>4 DEF sameOwners

(* Without sources and locations no owner is compared. *)
LEMMA NoOwnersNoChange ==
    ASSUME GoodDiff(theDiff), ~Owned, NEW p
    PROVE  ~sourcesChanged(p)
<1>1. ASSUME NEW q \in changed({"source-changed"})
      PROVE  FALSE
    <2>1. q \in DOMAIN theDiff.changes /\ "source-changed" \in theDiff.changes[q]
        BY <1>1 DEF changed
    <2>2. "source-changed" \in Kinds(q)
        BY <2>1 DEF GoodDiff
    <2>3. sourceIdentities(before, Entries(before), q, comparison) # sourceIdentities(after, Entries(after), q, comparison)
        BY <2>2 DEF Kinds, changeKinds
    <2>4. QED
        BY <2>3 DEF sourceIdentities, Owned
<1>2. QED
    BY <1>1 DEF sourcesChanged, intersects

(* A rule against changes is kept just when nothing changed. *)
LEMMA ForbiddenIsChange ==
    ASSUME GoodDiff(theDiff), CacheInv, NEW p \in Path
    PROVE  forbidden(p) = {} <=> Unchanged(p)
<1>1. CASE ~(has(before, p) /\ has(after, p))
    BY <1>1 DEF forbidden, Unchanged
<1>2. CASE has(before, p) /\ has(after, p)
    <2>. DEFINE Presence == {q \in Visible(before) : overlap(p, q)} = {q \in Visible(after) : overlap(p, q)}
                Known == detect \/ \A q \in DOMAIN before.config \cap DOMAIN after.config : overlap(p, q) => ~Secret(q)
                Same == Owners(before, p) = Owners(after, p)
    <2>1. presenceChanged(p) <=> ~comparison.values /\ ~Presence
        BY PresenceIsVisibility DEF presenceChanged
    <2>2. unknownAt(p) <=> comparison.values /\ ~Known
        BY UnknownIsSecret DEF unknownAt
    <2>3. equalAt(p) <=> ~comparison.values \/ SameValues(p)
        BY CachesAnswer
    <2>4. sameOwners(p) <=> Same
        BY CachesAnswer
    <2>5. (comparison.values => SameValues(p)) /\ (~comparison.values => Presence) /\ Owned /\ ~Same => sourcesChanged(p)
        BY <1>2, OwnersShow DEF SameValues
    <2>6. ~Owned => ~sourcesChanged(p)
        BY NoOwnersNoChange
    <2>7. forbidden(p) = {} <=> /\ ~presenceChanged(p) /\ ~unknownAt(p)
                                /\ equalAt(p) /\ ~(sourcesChanged(p) /\ ~sameOwners(p))
        BY <1>2 DEF forbidden
    <2>8. Unchanged(p) <=> /\ comparison.values => SameValues(p) /\ Known
                           /\ ~comparison.values => Presence
                           /\ Owned => Same
        BY <1>2 DEF Unchanged, SameValues, Owned
    <2>. HIDE DEF Presence, Known, Same
    <2>9. QED
        BY <2>1, <2>2, <2>3, <2>4, <2>5, <2>6, <2>7, <2>8
<1>3. QED
    BY <1>1, <1>2

LEMMA RuleIsKept ==
    ASSUME GoodDiff(theDiff), CacheInv, NEW rule \in Rule, properRule(rule)
    PROVE  evaluateRule(rule) = {} <=> Holds(rule)
<1>1. rule.path \in Path /\ rule.mode \in Modes
    BY DEF Rule, Path, properRule
<1>2. CASE rule.mode = "require-path"
    BY <1>2 DEF evaluateRule, Holds
<1>3. CASE rule.mode = "allowed-sources"
    BY <1>3 DEF evaluateRule, Holds, related
<1>4. CASE rule.mode = "forbid-changes"
    <2>1. evaluateRule(rule) = forbidden(rule.path) /\ (Holds(rule) <=> Unchanged(rule.path))
        BY <1>4 DEF evaluateRule, Holds
    <2>2. QED
        BY <1>1, <2>1, ForbiddenIsChange
<1>5. QED
    BY <1>1, <1>2, <1>3, <1>4 DEF Modes

-----------------------------------------------------------------------------
(***************************************************************************)
(* The invariant: while the rules are evaluated the diff is good, the      *)
(* caches keep true answers, and there is a violation just when a rule     *)
(* before the next one does not hold.                                      *)
(***************************************************************************)
RulesInv ==
    /\ parsePolicy /\ \E d : diff = {d} /\ GoodDiff(d)
    /\ CacheInv
    /\ next \in 1..Len(policy) + 1
    /\ violations = {} <=> \A i \in 1..next - 1 : Holds(policy[i])

Verdict ==
    /\ before.ok /\ after.ok /\ theDiff.status = "ok"
    /\ verdict = "passed" <=> \A i \in 1..Len(policy) : Holds(policy[i])

PolicyInv ==
    /\ Inputs /\ policy \in Seq(Rule)
    /\ phase \in {"compare", "rules", "report", "done"}
    /\ ~withoutPolicy =>
        /\ phase = "compare" => next = 1 /\ violations = {} /\ equality = << >> /\ ownership = << >>
        /\ phase = "rules" => RulesInv
        /\ phase \in {"report", "done"} /\ verdict # "error" => Verdict

LEMMA TheOneDiff == ASSUME NEW d, diff = {d} PROVE theDiff = d
BY DEF theDiff

(* What depends on the inputs alone stays. *)
LEMMA InputsStay ==
    ASSUME UNCHANGED inputVars
    PROVE  /\ \A d : GoodDiff(d)' <=> GoodDiff(d)
           /\ \A r : Holds(r)' <=> Holds(r)
           /\ Inputs' <=> Inputs
           /\ parsePolicy' <=> parsePolicy
           /\ policy' = policy /\ (withoutPolicy' <=> withoutPolicy)
<1>1. /\ before' = before /\ after' = after /\ options' = options /\ detect' = detect
      /\ comparison' = comparison /\ policy' = policy /\ query' = query
    BY DEF inputVars
<1>2. Shared' = Shared /\ (Inputs' <=> Inputs) /\ Sides' = Sides
    BY <1>1 DEF Shared, Inputs, Sides
<1>3. (Complete' <=> Complete) /\ Entries(before)' = Entries(before) /\ Entries(after)' = Entries(after)
    BY <1>1, <1>2 DEF Complete, Entries
<1>4. Keys' = Keys /\ \A p : Kinds(p)' = Kinds(p)
    BY <1>1, <1>3 DEF Keys, Kinds
<1>5. \A d : GoodDiff(d)' <=> GoodDiff(d)
    BY <1>1, <1>3, <1>4 DEF GoodDiff
<1>6. \A p : Secret(p)' <=> Secret(p)
    BY <1>1 DEF Secret, SecretSource, Sides
<1>7. \A r : Holds(r)' <=> Holds(r)
    BY <1>1, <1>6 DEF Holds, Unchanged, Owners, Visible, has
<1>8. (parsePolicy' <=> parsePolicy) /\ (withoutPolicy' <=> withoutPolicy)
    BY <1>1 DEF parsePolicy, withoutPolicy
<1>9. QED
    BY <1>1, <1>2, <1>5, <1>7, <1>8

LEMMA PolicyInit == Init => PolicyInv
<1>. SUFFICES ASSUME Init PROVE PolicyInv
    OBVIOUS
<1>1. Inputs /\ phase = "compare" /\ next = 1 /\ violations = {} /\ equality = << >> /\ ownership = << >>
    BY DEF Init, Inputs
<1>2. policy \in Seq(Rule)
    BY InputsAsDeclared DEF Init, InputsAsDeclared
<1>3. QED
    BY <1>1, <1>2 DEF PolicyInv

LEMMA CompareKeepsPolicy == PolicyInv /\ Compare => PolicyInv'
<1>. SUFFICES ASSUME PolicyInv, Compare PROVE PolicyInv'
    OBVIOUS
<1>1. UNCHANGED inputVars /\ UNCHANGED evaluatorVars /\ phase = "compare"
    BY DEF Compare
<1>2. Inputs' /\ (policy \in Seq(Rule))' /\ (withoutPolicy' <=> withoutPolicy)
    BY <1>1, InputsStay DEF PolicyInv
<1>3. CASE withoutPolicy
    <2>1. phase' = "done"
        BY <1>3 DEF Compare
    <2>2. QED
        BY <1>2, <1>3, <2>1 DEF PolicyInv
<1>4. CASE ~withoutPolicy
    <2>1. PICK over \in Overflows :
            LET d == buildConfigDiff(before, after, options, << >>,
                                     IF withoutPolicy \/ parsePolicy THEN comparison ELSE Everything, detect, over)
            IN  /\ diff' = {d}
                /\ IF d.status = "error" \/ ~parsePolicy THEN phase' = "report" /\ verdict' = "error"
                   ELSE phase' = "rules" /\ UNCHANGED verdict
        BY <1>4 DEF Compare
    <2>. DEFINE d == buildConfigDiff(before, after, options, << >>, comparison, detect, over)
    <2>2. CASE phase' = "report" /\ verdict' = "error"
        BY <1>2, <2>2 DEF PolicyInv
    <2>3. CASE phase' = "rules"
        <3>1. parsePolicy /\ diff' = {d} /\ d.status # "error"
            BY <2>1, <2>3
        <3>2. GoodDiff(d)
            <4>1. Inputs
                BY DEF PolicyInv
            <4>2. QED
                BY <3>1, <4>1, DiffIsGood
        <3>. HIDE DEF d
        <3>3. (\E e : diff = {e} /\ GoodDiff(e))' /\ parsePolicy'
            BY <1>1, <3>1, <3>2, InputsStay
        <3>4. next' = 1 /\ violations' = {} /\ equality' = << >> /\ ownership' = << >>
            BY <1>1, <1>4 DEF PolicyInv, evaluatorVars
        <3>5. CacheInv'
            BY <3>4 DEF CacheInv
        <3>6. next' \in 1..Len(policy') + 1
            <4>1. Len(policy') \in Nat
                BY <1>2
            <4>2. QED
                BY <3>4, <4>1
        <3>7. (violations = {} <=> \A i \in 1..next - 1 : Holds(policy[i]))'
            BY <3>4
        <3>8. RulesInv'
            BY <3>3, <3>5, <3>6, <3>7 DEF RulesInv
        <3>9. QED
            BY <1>2, <2>3, <3>8 DEF PolicyInv
    <2>4. QED
        BY <2>1, <2>2, <2>3
<1>5. QED
    BY <1>3, <1>4

LEMMA RuleKeepsPolicy == PolicyInv /\ EvaluateRule => PolicyInv'
<1>. SUFFICES ASSUME PolicyInv, EvaluateRule PROVE PolicyInv'
    OBVIOUS
<1>1. UNCHANGED inputVars /\ UNCHANGED <<phase, diff, verdict>> /\ phase = "rules" /\ next <= Len(policy) /\ next' = next + 1
    BY DEF EvaluateRule
<1>2. Inputs' /\ (policy \in Seq(Rule))' /\ (withoutPolicy' <=> withoutPolicy)
    BY <1>1, InputsStay DEF PolicyInv
<1>3. CASE withoutPolicy
    BY <1>1, <1>2, <1>3 DEF PolicyInv
<1>4. CASE ~withoutPolicy
    <2>. DEFINE rule == policy[next]
                p == rule.path
                found == evaluateRule(rule)
    <2>1. RulesInv /\ policy \in Seq(Rule) /\ next \in 1..Len(policy)
        BY <1>1, <1>4 DEF PolicyInv, RulesInv
    <2>2. rule \in Rule /\ properRule(rule)
        BY <2>1 DEF RulesInv, parsePolicy
    <2>3. GoodDiff(theDiff) /\ CacheInv
        BY <2>1, TheOneDiff DEF RulesInv
    <2>4. found = {} <=> Holds(rule)
        BY <2>2, <2>3, RuleIsKept
    <2>5. /\ violations' = violations \cup {[code |-> c, rule |-> rule.id] : c \in found}
          /\ equality' = IF looksAtValues(rule) THEN keep(equality, p, equalAt(p)) ELSE equality
          /\ ownership' = IF looksAtOwners(rule) THEN keep(ownership, p, ownersAt(p)) ELSE ownership
        BY DEF EvaluateRule
    <2>6. CacheInv'
        <3>1. equalAt(p) = (~comparison.values \/ SameValues(p)) /\ ownersAt(p) = OwnersOfBoth(p)
            BY <2>3, CachesAnswer
        <3>. HIDE DEF p, rule
        <3>2. \A q \in DOMAIN equality' : equality'[q] = (~comparison.values \/ SameValues(q))
            BY <2>3, <2>5, <3>1 DEF keep, CacheInv
        <3>3. \A q \in DOMAIN ownership' : ownership'[q] = OwnersOfBoth(q)
            BY <2>3, <2>5, <3>1 DEF keep, CacheInv
        <3>4. \A q : (SameValues(q)' <=> SameValues(q)) /\ OwnersOfBoth(q)' = OwnersOfBoth(q) /\ comparison' = comparison
            BY <1>1 DEF SameValues, OwnersOfBoth, ownershipAtPath, inputVars
        <3>5. QED
            BY <3>2, <3>3, <3>4 DEF CacheInv
    <2>7. violations' = {} <=> \A i \in 1..next' - 1 : Holds(policy[i])
        <3>1. violations' = {} <=> violations = {} /\ found = {}
            BY <2>5
        <3>2. next \in Nat /\ next' - 1 = next /\ \A i \in 1..next : i \in 1..next - 1 \/ i = next
            BY <1>1, <2>1
        <3>3. 1..next - 1 \subseteq 1..next /\ next \in 1..next
            BY <2>1
        <3>. HIDE DEF found
        <3>4. QED
            BY <2>1, <2>4, <3>1, <3>2, <3>3 DEF RulesInv
    <2>8. RulesInv'
        <3>1. /\ \A e : GoodDiff(e)' <=> GoodDiff(e)
              /\ \A r : Holds(r)' <=> Holds(r)
              /\ parsePolicy' <=> parsePolicy
              /\ policy' = policy
            BY <1>1, InputsStay
        <3>2. parsePolicy' /\ (\E e : diff = {e} /\ GoodDiff(e))'
            BY <1>1, <2>1, <3>1 DEF RulesInv
        <3>3. next' \in 1..Len(policy') + 1
            BY <1>1, <2>1, <3>1
        <3>4. (violations = {} <=> \A i \in 1..next - 1 : Holds(policy[i]))'
            BY <2>7, <3>1
        <3>5. QED
            BY <2>6, <3>2, <3>3, <3>4 DEF RulesInv
    <2>9. QED
        BY <1>1, <1>2, <2>8 DEF PolicyInv
<1>5. QED
    BY <1>3, <1>4

LEMMA EndKeepsPolicy == PolicyInv /\ EndRules => PolicyInv'
<1>. SUFFICES ASSUME PolicyInv, EndRules PROVE PolicyInv'
    OBVIOUS
<1>1. /\ UNCHANGED inputVars /\ UNCHANGED diff /\ phase = "rules" /\ next > Len(policy) /\ phase' = "report"
      /\ verdict' = IF violations = {} THEN "passed" ELSE "failed"
    BY DEF EndRules
<1>2. Inputs' /\ (policy \in Seq(Rule))' /\ (withoutPolicy' <=> withoutPolicy)
    BY <1>1, InputsStay DEF PolicyInv
<1>3. ASSUME ~withoutPolicy PROVE Verdict'
    <2>1. RulesInv /\ policy \in Seq(Rule)
        BY <1>1, <1>3 DEF PolicyInv
    <2>2. next - 1 = Len(policy)
        BY <1>1, <2>1 DEF RulesInv
    <2>3. verdict' = "passed" <=> \A i \in 1..Len(policy) : Holds(policy[i])
        BY <1>1, <2>1, <2>2 DEF RulesInv
    <2>4. GoodDiff(theDiff)
        BY <2>1, TheOneDiff DEF RulesInv
    <2>5. before.ok /\ after.ok /\ theDiff.status = "ok"
        BY <2>4 DEF GoodDiff, Complete, Sides
    <2>6. (before.ok /\ after.ok /\ theDiff.status = "ok")'
        BY <1>1, <2>5 DEF inputVars, theDiff
    <2>7. (verdict = "passed" <=> \A i \in 1..Len(policy) : Holds(policy[i]))'
        BY <1>1, <2>3, InputsStay
    <2>8. QED
        BY <2>6, <2>7 DEF Verdict
<1>4. QED
    BY <1>1, <1>2, <1>3 DEF PolicyInv

LEMMA ReportKeepsPolicy == PolicyInv /\ Report => PolicyInv'
<1>. SUFFICES ASSUME PolicyInv, Report PROVE PolicyInv'
    OBVIOUS
<1>1. UNCHANGED inputVars /\ phase = "report" /\ phase' = "done" /\ (UNCHANGED <<diff, verdict>> \/ verdict' = "error")
    BY DEF Report
<1>2. Inputs' /\ (policy \in Seq(Rule))' /\ (withoutPolicy' <=> withoutPolicy)
    BY <1>1, InputsStay DEF PolicyInv
<1>3. ASSUME ~withoutPolicy, UNCHANGED <<diff, verdict>>, verdict # "error" PROVE Verdict'
    <2>1. Verdict
        BY <1>1, <1>3 DEF PolicyInv
    <2>2. (before.ok /\ after.ok /\ theDiff.status = "ok")'
        BY <1>1, <1>3, <2>1 DEF inputVars, theDiff, Verdict
    <2>3. (verdict = "passed" <=> \A i \in 1..Len(policy) : Holds(policy[i]))'
        BY <1>1, <1>3, <2>1, InputsStay DEF Verdict
    <2>4. QED
        BY <2>2, <2>3 DEF Verdict
<1>4. QED
    BY <1>1, <1>2, <1>3 DEF PolicyInv

LEMMA StutterKeepsPolicy == PolicyInv /\ UNCHANGED vars => PolicyInv'
<1>. SUFFICES ASSUME PolicyInv, UNCHANGED vars PROVE PolicyInv'
    OBVIOUS
<1>1. UNCHANGED inputVars /\ UNCHANGED <<phase, diff, next, violations, equality, ownership, verdict>>
    BY DEF vars, evaluatorVars
<1>2. /\ \A e : GoodDiff(e)' <=> GoodDiff(e)
      /\ \A r : Holds(r)' <=> Holds(r)
      /\ Inputs' <=> Inputs
      /\ parsePolicy' <=> parsePolicy
      /\ policy' = policy /\ (withoutPolicy' <=> withoutPolicy)
    BY <1>1, InputsStay
<1>3. CacheInv' <=> CacheInv
    <2>1. \A q : (SameValues(q)' <=> SameValues(q)) /\ OwnersOfBoth(q)' = OwnersOfBoth(q) /\ comparison' = comparison
        BY <1>1 DEF SameValues, OwnersOfBoth, ownershipAtPath, inputVars
    <2>2. QED
        BY <1>1, <2>1 DEF CacheInv
<1>4. RulesInv' <=> RulesInv
    BY <1>1, <1>2, <1>3 DEF RulesInv
<1>5. Verdict' <=> Verdict
    BY <1>1, <1>2 DEF Verdict, theDiff, inputVars
<1>6. QED
    BY <1>1, <1>2, <1>4, <1>5 DEF PolicyInv

THEOREM PolicyInvHolds == Spec => []PolicyInv
<1>1. PolicyInv /\ [Next]_vars => PolicyInv'
    BY CompareKeepsPolicy, RuleKeepsPolicy, EndKeepsPolicy, ReportKeepsPolicy, StutterKeepsPolicy DEF Next
<1>2. QED
    BY <1>1, PolicyInit, PTL DEF Spec

(* A policy that ran to its end passed exactly when all its rules hold of the    *)
(* two configurations: the diff that it is checked on, which stops at what is    *)
(* secret, hides no change of presence, value or owner, no secret stays          *)
(* uncompared unnoticed, and the answers kept for an earlier rule are true of a  *)
(* later one; and then both results are good and so is the diff.                 *)
THEOREM PassedPoliciesHold == Spec => []PassedRulesHold
<1>1. PolicyInv => PassedRulesHold
    BY DEF PolicyInv, PassedRulesHold, Verdict
<1>2. QED
    BY <1>1, PolicyInvHolds, PTL
=============================================================================
