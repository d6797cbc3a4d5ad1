-------------------------- MODULE DiagnosticsProofs --------------------------
(***************************************************************************)
(* The bounded lists of issues keep their bound and their errors, for      *)
(* every bound.  PipelineProofs and ApplicationProofs rest on it.          *)
(***************************************************************************)
EXTENDS Diagnostics, SequenceTheorems, TLAPS

(* The codes of the pipeline, of a load and of the merge. *)
Codes == {"warning", "error", "aborted", "overflow",
          "rejected", "conflict", "keys", "provenance", "paths", "coercion"}
Issues == {s \in Seq(Codes) : Len(s) <= MaxDiagnostics}

-----------------------------------------------------------------------------
(* A marked list has an error, and is no longer than it was or than one. *)
LEMMA MarkedHasError ==
    ASSUME NEW s \in Seq(Codes)
    PROVE  /\ markDiagnosticsOverflow(s) \in Seq(Codes)
           /\ hasError(markDiagnosticsOverflow(s))
           /\ Len(markDiagnosticsOverflow(s)) = IF s = << >> THEN 1 ELSE Len(s)
<1>1. CASE contains(s, "overflow")
    BY <1>1 DEF markDiagnosticsOverflow, contains, hasError
<1>2. CASE ~contains(s, "overflow") /\ s = << >>
    <2>1. markDiagnosticsOverflow(s) = <<"overflow">>
        BY <1>2 DEF markDiagnosticsOverflow
    <2>2. Len(<<"overflow">>) = 1 /\ <<"overflow">>[1] = "overflow" /\ "overflow" # "warning"
        OBVIOUS
    <2>. <<"overflow">> \in Seq(Codes)
        BY DEF Codes
    <2>3. hasError(<<"overflow">>)
        BY <2>2 DEF hasError
    <2>4. QED
        BY <1>2, <2>1, <2>2, <2>3
<1>3. CASE ~contains(s, "overflow") /\ s # << >>
    <2>1. Len(s) \in 1..Len(s)
        BY <1>3
    <2>. DEFINE u == [s EXCEPT ![Len(s)] = "overflow"]
    <2>2. markDiagnosticsOverflow(s) = u
        BY <1>3 DEF markDiagnosticsOverflow
    <2>3. u \in Seq(Codes) /\ Len(u) = Len(s)
        <3>1. "overflow" \in Codes
            BY DEF Codes
        <3>2. QED
            BY <2>1, <3>1, ExceptSeq
    <2>4. u[Len(s)] # "warning"
        BY <2>1
    <2>5. hasError(u)
        BY <2>1, <2>3, <2>4 DEF hasError
    <2>6. QED
        BY <1>3, <2>2, <2>3, <2>5
<1>4. QED
    BY <1>1, <1>2, <1>3

(* Appending to a bounded list keeps the bound and every error on either side, *)
(* whatever is cut off.                                                        *)
LEMMA AppendKeepsErrors ==
    ASSUME NEW s \in Issues, NEW t \in Seq(Codes)
    PROVE  /\ appendBoundedIssues(s, t) \in Issues
           /\ hasError(s) \/ hasError(t) => hasError(appendBoundedIssues(s, t))
<1>. USE DiagnosticsConstants DEF DiagnosticsConstants
<1>1. CASE Len(s) + Len(t) <= MaxDiagnostics
    <2>1. appendBoundedIssues(s, t) = s \o t /\ s \o t \in Issues
        BY <1>1 DEF appendBoundedIssues, Issues
    <2>2. ASSUME hasError(s) PROVE hasError(s \o t)
        <3>1. PICK i \in 1..Len(s) : s[i] # "warning"
            BY <2>2 DEF hasError
        <3>2. i \in 1..Len(s \o t) /\ (s \o t)[i] = s[i]
            BY <3>1 DEF Issues
        <3>3. QED
            BY <3>1, <3>2 DEF hasError
    <2>3. ASSUME hasError(t) PROVE hasError(s \o t)
        <3>1. PICK i \in 1..Len(t) : t[i] # "warning"
            BY <2>3 DEF hasError
        <3>2. Len(s) + i \in 1..Len(s \o t) /\ (s \o t)[Len(s) + i] = t[i]
            BY <3>1 DEF Issues
        <3>3. QED
            BY <3>1, <3>2 DEF hasError
    <2>4. QED
        BY <2>1, <2>2, <2>3
<1>2. CASE Len(s) + Len(t) > MaxDiagnostics
    <2>. DEFINE u == s \o SubSeq(t, 1, MaxDiagnostics - Len(s))
    <2>1. u \in Seq(Codes) /\ Len(u) = MaxDiagnostics /\ u # << >>
        <3>1. MaxDiagnostics - Len(s) \in 0..Len(t)
            BY <1>2 DEF Issues
        <3>2. SubSeq(t, 1, MaxDiagnostics - Len(s)) \in Seq(Codes)
            BY <3>1
        <3>3. Len(SubSeq(t, 1, MaxDiagnostics - Len(s))) = MaxDiagnostics - Len(s)
            BY <3>1
        <3>4. QED
            BY <3>1, <3>2, <3>3 DEF Issues
    <2>2. appendBoundedIssues(s, t) = markDiagnosticsOverflow(u)
        BY <1>2 DEF appendBoundedIssues, Issues
    <2>. HIDE DEF u
    <2>3. hasError(markDiagnosticsOverflow(u)) /\ markDiagnosticsOverflow(u) \in Issues
        BY <2>1, MarkedHasError DEF Issues
    <2>4. QED
        BY <2>2, <2>3
<1>3. QED
    BY <1>1, <1>2 DEF Issues

(* One more issue of the pipeline's own is an error that stays one. *)
LEMMA AppendedIsError ==
    ASSUME NEW s \in Issues, NEW code \in Codes, code # "warning"
    PROVE  append(s, code) \in Issues /\ hasError(append(s, code))
<1>1. <<code>> \in Seq(Codes) /\ hasError(<<code>>)
    BY DEF hasError
<1>2. QED
    BY <1>1, AppendKeepsErrors DEF append
=============================================================================
