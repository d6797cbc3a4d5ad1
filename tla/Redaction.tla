------------------------------ MODULE Redaction ------------------------------
(***************************************************************************)
(* What may be shown of a result: redaction.ts and compiled-redaction.ts   *)
(* of packages/core.                                                       *)
(*                                                                         *)
(* A result is a record: ok; incomplete, when its issues say that the      *)
(* owners of some paths were dropped; config, the function from the paths  *)
(* of all nodes to "object", "array" or the scalar there; resolved, from   *)
(* the paths of leaves to their owners; sources, from ids to descriptors;  *)
(* issues and provenance, sets of diagnostics.  What may be undefined is a *)
(* set of at most one element.  Which of several reasons for a redaction   *)
(* is told, and the matching of names by parts, are left out.              *)
(***************************************************************************)
EXTENDS FiniteSets, ConfigPath

CONSTANT DEFAULT_SECRET_NAMES       \* the segments that the default patterns match

(* The options say what else is secret: sources (ids), paths and names. *)
sourceIds(R) == DOMAIN R.sources
secretIds(R, options) == options.ids \cup {id \in sourceIds(R) : R.sources[id].secretSource}

ownedBy(o, ids) == o.winner \in ids \/ \E i \in 1..Len(o.overridden) : o.overridden[i] \in ids

sourcePaths(R) == UNION {R.sources[id].secretPaths : id \in sourceIds(R)}
sourceNames(R) == UNION {R.sources[id].secretNames : id \in sourceIds(R)}

(* compileRedaction; nothing of a result with incomplete ownership is public. *)
createPathRedactor(R, options) ==
    [paths |-> IF R.incomplete THEN {<< >>}
               ELSE options.paths \cup sourcePaths(R)
                        \cup {p \in DOMAIN R.resolved : ownedBy(R.resolved[p], secretIds(R, options))},
     names |-> DEFAULT_SECRET_NAMES \cup options.names \cup sourceNames(R)]

redacts(redactor, p) ==
    \/ \E q \in redactor.paths : isPathPrefix(q, p)
    \/ \E i \in 1..Len(p) : p[i] \in redactor.names

-----------------------------------------------------------------------------
(***************************************************************************)
(* The report.                                                             *)
(***************************************************************************)
(* The source of a validator's diagnostic is where its value came from: its path *)
(* decides.                                                                      *)
shouldSanitizeDiagnostic(d, ids, redactor) ==
    \/ ~d.validator /\ d.source \cap ids # {}
    \/ d.previous \cap ids # {}
    \/ \E p \in d.path : redacts(redactor, p)

sanitized(S, R, options) ==
    {[of |-> d, shown |-> ~shouldSanitizeDiagnostic(d, secretIds(R, options), createPathRedactor(R, options))] :
        d \in S}

omittedReport == [status |-> "error", resolved |-> {}, issues |-> {}, provenance |-> {}]

(* fits: the report is within maxReportBytes. *)
buildDiagnosticReport(R, options, fits) ==
    IF R.incomplete \/ ~fits THEN omittedReport
    ELSE [status |-> IF R.ok THEN "ok" ELSE "error", resolved |-> DOMAIN R.resolved,
          issues |-> sanitized(R.issues, R, options), provenance |-> sanitized(R.provenance, R, options)]
=============================================================================
