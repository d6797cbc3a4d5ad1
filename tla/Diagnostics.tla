---------------------------- MODULE Diagnostics ----------------------------
(***************************************************************************)
(* The bounded lists of issues: diagnostics.ts of packages/core.  An issue *)
(* is its code; every code but "warning" is an error.                      *)
(***************************************************************************)
EXTENDS Integers, Sequences

CONSTANT MaxDiagnostics

ASSUME DiagnosticsConstants == MaxDiagnostics \in Nat \ {0}

contains(s, code) == \E i \in 1..Len(s) : s[i] = code

hasError(s) == \E i \in 1..Len(s) : s[i] # "warning"

Bug_markDiagnosticsOverflow(s) == s     \* what does not fit is dropped
markDiagnosticsOverflow(s) ==
    IF contains(s, "overflow") THEN s
    ELSE IF s = << >> THEN <<"overflow">> ELSE [s EXCEPT ![Len(s)] = "overflow"]

(* Issues are appended in order until the list is full. *)
appendBoundedIssues(s, t) ==
    IF Len(s) + Len(t) <= MaxDiagnostics THEN s \o t
    ELSE markDiagnosticsOverflow(s \o SubSeq(t, 1, MaxDiagnostics - Len(s)))

append(s, code) == appendBoundedIssues(s, <<code>>)

isDiagnosticsLimitReached(s) == Len(s) >= MaxDiagnostics /\ contains(s, "overflow")
=============================================================================
