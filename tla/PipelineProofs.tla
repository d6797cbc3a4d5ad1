--------------------------- MODULE PipelineProofs ---------------------------
(***************************************************************************)
(* What the pipeline promises for every number of adapters, every report   *)
(* and every bound.                                                        *)
(***************************************************************************)
EXTENDS Pipeline, DiagnosticsProofs, FiniteSetTheorems

-----------------------------------------------------------------------------
(***************************************************************************)
(* Bounded reports of validators.                                          *)
(***************************************************************************)
(* The cut that a validator's report undergoes keeps its errors. *)
LEMMA CutKeepsErrors ==
    ASSUME NEW t \in Seq(Codes), NEW room \in Nat
    PROVE  /\ normalizeValidatorIssues(t, room) \in Seq(Codes)
           /\ hasError(t) => hasError(normalizeValidatorIssues(t, room))
<1>1. CASE Len(t) <= room
    BY <1>1 DEF normalizeValidatorIssues
<1>2. CASE Len(t) > room
    <2>1. SubSeq(t, 1, room) \in Seq(Codes)
        BY <1>2
    <2>2. QED
        BY <1>2, <2>1, MarkedHasError DEF normalizeValidatorIssues
<1>3. QED
    BY <1>1, <1>2

-----------------------------------------------------------------------------
(***************************************************************************)
(* Adapters.                                                               *)
(***************************************************************************)
Waiting == step = "waiting" /\ live = {adapter}
GivenUp == step = "resumed" /\ outcome = Aborted

(* Who may still be running: the adapter waited for, or one that was given up. *)
AdapterInv ==
    /\ stage \notin Awaiting => step = "none"
    /\ ~signal => Waiting \/ live = {}
    /\ ~fault => Waiting \/ GivenUp \/ live = {}

(* No step leaves an adapter running unseen. *)
LEMMA AdapterInvStep == AdapterInv /\ [Next]_vars => AdapterInv'
<1>. SUFFICES ASSUME AdapterInv, [Next]_vars PROVE AdapterInv'
    OBVIOUS
<1>. USE DEF AdapterInv, Waiting, GivenUp, adapter, resultVars, ownVars, adapterVars, stepVars, vars
<1>1. CASE UNCHANGED vars
    BY <1>1
<1>2. CASE Call
    BY <1>2 DEF Call, mayCall, Awaiting
<1>3. CASE Settle
    BY <1>3 DEF Settle, Awaiting
<1>4. CASE Deliver
    BY <1>4 DEF Deliver, Awaiting
<1>5. CASE Abort
    BY <1>5 DEF Abort, listening, Awaiting
<1>6. CASE SettleLate
    BY <1>6 DEF SettleLate
<1>7. CASE Begin
    BY <1>7 DEF Begin, start, Awaiting
<1>8. CASE LoaderContinues
    <2>1. outcome = Aborted => hasError(sourceIssues(outcome))
        BY DEF Aborted, sourceIssues, hasError
    <2>2. QED
        BY <1>8, <2>1 DEF LoaderContinues, start, Awaiting
<1>9. CASE Resolve
    BY <1>9 DEF Resolve, applyPipelineValidators, start, Awaiting
<1>10. CASE ValidatorContinues
    BY <1>10 DEF ValidatorContinues, start, Awaiting
<1>11. CASE Combine
    BY <1>11 DEF Combine, start, Awaiting
<1>12. CASE ValidateOutput
    BY <1>12 DEF ValidateOutput, applyPipelineValidators, start, Awaiting
<1>13. CASE Finish
    BY <1>13 DEF Finish, start, Awaiting
<1>14. QED
    BY <1>1, <1>2, <1>3, <1>4, <1>5, <1>6, <1>7, <1>8, <1>9, <1>10, <1>11, <1>12, <1>13 DEF Next

(* At every moment at most the adapter waited for runs, unless the signal fired. *)
THEOREM AdapterInvHolds == Spec => []AdapterInv
<1>1. Init => AdapterInv
    BY DEF Init, AdapterInv
<1>2. QED
    BY <1>1, AdapterInvStep, PTL DEF Spec

(* NoCallAfterAbort for all pipelines: an adapter is called only while the *)
(* signal has not fired and no other adapter runs (runAbortable).          *)
THEOREM NoCallAfterAbortHolds == Spec => NoCallAfterAbort
<1>1. AdapterInv /\ [Next]_vars => [called' # called => ~signal /\ live = {}]_called
    <2>. SUFFICES ASSUME AdapterInv, Next, called' # called PROVE ~signal /\ live = {}
        BY DEF vars, adapterVars
    <2>1. Call
        BY DEF Next, Settle, Deliver, Abort, SettleLate, Begin, LoaderContinues, Resolve,
               ValidatorContinues, Combine, ValidateOutput, Finish, adapterVars
    <2>2. QED
        BY <2>1 DEF Call, mayCall, AdapterInv, Waiting, adapterVars
<1>2. QED
    BY <1>1, AdapterInvHolds, PTL DEF Spec, NoCallAfterAbort

-----------------------------------------------------------------------------
(***************************************************************************)
(* Faults.                                                                 *)
(***************************************************************************)
OwnStages == {"validate", "validated", "output", "outputs"}

(* Every fault is an error of the result already, or of the validators that *)
(* have not been combined with it yet.                                      *)
FaultInv ==
    /\ outcome \in Outcomes
    /\ issues \in Issues /\ own \in Issues
    /\ fault => hasError(issues) \/ (stage \in OwnStages /\ hasError(own))
    /\ delivered => ~fault /\ captured /\ reportOk /\ live = {} /\ stage = "done"

(* What adapters report are lists of issues. *)
LEMMA ReportsAreIssues ==
    ASSUME NEW o \in Outcomes
    PROVE  o.issues \in Seq(Codes)
<1>1. Reports \subseteq Seq(Codes)
    <2>1. ASSUME NEW s \in Reports PROVE s \in Seq(Codes)
        <3>1. s \in Seq({"warning", "error"})
            BY PipelineConstants DEF PipelineConstants
        <3>2. \A i \in 1..Len(s) : s[i] \in Codes
            BY <3>1 DEF Codes
        <3>3. QED
            BY <3>1, <3>2
    <2>2. QED
        BY <2>1
<1>2. << >> \in Seq(Codes)
    OBVIOUS
<1>3. o.issues = << >> \/ o.issues \in Reports
    BY DEF Outcomes
<1>4. QED
    BY <1>1, <1>2, <1>3

(* The issues of a source. *)
LEMMA SourceIssuesType ==
    ASSUME NEW o \in Outcomes
    PROVE  sourceIssues(o) \in Seq(Codes) /\ (o = Aborted => hasError(sourceIssues(o)))
<1>1. << >> \in Issues /\ <<"error">> \in Seq(Codes) /\ <<"aborted">> \in Seq(Codes)
    BY DiagnosticsConstants DEF DiagnosticsConstants, Issues, Codes
<1>2. appendBoundedIssues(<< >>, o.issues) \in Seq(Codes)
    BY <1>1, AppendKeepsErrors, ReportsAreIssues DEF Issues
<1>3. QED
    BY <1>1, <1>2 DEF sourceIssues, Aborted, hasError

(* What a faulty validator result leaves behind is an error. *)
LEMMA ValidatorIssuesFault ==
    ASSUME own \in Issues, NEW o \in Outcomes
    PROVE  /\ validatorIssues(o) \in Issues
           /\ hasError(own) => hasError(validatorIssues(o))
           /\ o.kind = "refused" \/ hasError(o.issues) => hasError(validatorIssues(o))
<1>. DEFINE t == normalizeValidatorIssues(o.issues, MaxDiagnostics - Len(own))
            s == appendBoundedIssues(own, t)
<1>1. t \in Seq(Codes) /\ (hasError(o.issues) => hasError(t))
    <2>1. MaxDiagnostics - Len(own) \in Nat
        BY DiagnosticsConstants DEF DiagnosticsConstants, Issues
    <2>2. QED
        BY <2>1, CutKeepsErrors, ReportsAreIssues
<1>. HIDE DEF t
<1>2. s \in Issues /\ (hasError(own) \/ hasError(t) => hasError(s))
    BY <1>1, AppendKeepsErrors
<1>. HIDE DEF s
<1>3. "error" \in Codes /\ "error" # "warning"
    BY DEF Codes
<1>4. append(s, "error") \in Issues /\ hasError(append(s, "error"))
    BY <1>2, <1>3, AppendedIsError
<1>5. validatorIssues(o) = IF o.kind = "refused" /\ ~hasError(t) THEN append(s, "error") ELSE s
    BY DEF validatorIssues, t, s
<1>6. QED
    BY <1>1, <1>2, <1>4, <1>5

(* Nothing has gone wrong yet. *)
LEMMA FaultInvInit == Init => FaultInv
    BY DiagnosticsConstants
    DEF Init, FaultInv, DiagnosticsConstants, Issues, None, Outcomes

(* The signal is looked at again, and a failed result goes no further. *)
LEMMA ApplyKeepsFaults ==
    ASSUME FaultInv, NEW s \in Issues, NEW n, NEW next \in {"validate", "output"},
           NEW skip, fault => hasError(s),
           applyPipelineValidators(s, n, next, skip)
    PROVE  /\ outcome' \in Outcomes /\ issues' \in Issues /\ own' \in Issues
           /\ fault' => hasError(issues') \/ (stage' \in OwnStages /\ hasError(own'))
<1>1. "aborted" \in Codes /\ <<"aborted">> \in Seq(Codes)
    BY DEF Codes
<1>2. /\ appendBoundedIssues(s, <<"aborted">>) \in Issues
      /\ hasError(appendBoundedIssues(s, <<"aborted">>))
    BY <1>1, AppendedIsError DEF append
<1>3. << >> \in Issues /\ <<"error">> \in Issues /\ hasError(<<"error">>)
    BY DiagnosticsConstants DEF DiagnosticsConstants, Issues, Codes, hasError
<1>4. outcome' \in Outcomes
    BY DEF applyPipelineValidators, start, None, Outcomes
<1>5. CASE signal /\ ~reportedAbort(s)
    BY <1>2, <1>4, <1>5 DEF applyPipelineValidators, FaultInv, ownVars
<1>6. CASE ~(signal /\ ~reportedAbort(s))
    <2>1. CASE hasError(s) \/ n = 0
        BY <1>4, <1>6, <2>1 DEF applyPipelineValidators, FaultInv, ownVars
    <2>2. CASE ~(hasError(s) \/ n = 0)
        BY <1>3, <1>4, <1>6, <2>2 DEF applyPipelineValidators, FaultInv, ownVars, start, OwnStages
    <2>3. QED
        BY <2>1, <2>2
<1>7. QED
    BY <1>5, <1>6

(* No step loses an error: one case per action. *)
LEMMA FaultInvStep == AdapterInv /\ FaultInv /\ [Next]_vars => FaultInv'
<1>. SUFFICES ASSUME AdapterInv, FaultInv, [Next]_vars PROVE FaultInv'
    OBVIOUS
<1>. USE DEF resultVars, ownVars, adapterVars, stepVars, vars
<1>0. None \in Outcomes /\ Aborted \in Outcomes
    BY DEF None, Aborted, Outcomes
<1>1. CASE UNCHANGED vars
    BY <1>1 DEF FaultInv
<1>2. CASE Call
    BY <1>0, <1>2 DEF Call, FaultInv, Awaiting
<1>3. CASE Settle
    BY <1>3 DEF Settle, Settled, FaultInv
<1>4. CASE Deliver
    BY <1>4 DEF Deliver, FaultInv
<1>5. CASE Abort
    BY <1>0, <1>5 DEF Abort, FaultInv
<1>6. CASE SettleLate
    BY <1>6 DEF SettleLate, FaultInv
<1>7. CASE Begin
    <2>1. <<"error">> \in Issues /\ hasError(<<"error">>)
        BY DiagnosticsConstants DEF DiagnosticsConstants, Issues, Codes, hasError
    <2>2. <<"aborted">> \in Issues /\ hasError(<<"aborted">>)
        BY DiagnosticsConstants DEF DiagnosticsConstants, Issues, Codes, hasError
    <2>3. outcome' \in Outcomes
        BY <1>0, <1>7 DEF Begin, start
    <2>4. ~delivered /\ stage = "begin"
        BY <1>7 DEF Begin, FaultInv
    <2>5. QED
        BY <1>7, <2>1, <2>2, <2>3, <2>4 DEF Begin, FaultInv, OwnStages
<1>8. CASE LoaderContinues
    <2>1. outcome' \in Outcomes
        BY <1>0, <1>8 DEF LoaderContinues, start
    <2>2. /\ issues' \in Issues
          /\ hasError(issues) \/ hasError(sourceIssues(outcome)) => hasError(issues')
        BY <1>8, SourceIssuesType, AppendKeepsErrors DEF LoaderContinues, FaultInv
    <2>3. ~delivered /\ stage = "load"
        BY <1>8 DEF LoaderContinues, FaultInv
    <2>4. QED
        BY <1>8, <2>1, <2>2, <2>3 DEF LoaderContinues, FaultInv, OwnStages
<1>9. CASE Resolve
    <2>1. PICK more \in IF called = {} THEN {<< >>} ELSE Reports :
            applyPipelineValidators(appendBoundedIssues(issues, more), Validators, "validate", "piped")
        BY <1>9 DEF Resolve
    <2>2. more \in Seq(Codes)
        <3>1. more = << >> \/ more \in Reports
            OBVIOUS
        <3>2. CASE more \in Reports
            <4>1. [kind |-> "ok", issues |-> more] \in Outcomes
                BY <3>2 DEF Outcomes
            <4>2. QED
                BY <4>1, ReportsAreIssues
        <3>3. << >> \in Seq(Codes)
            OBVIOUS
        <3>4. QED
            BY <3>1, <3>2, <3>3
    <2>3. stage = "loaded" /\ ~delivered
        BY <1>9 DEF Resolve, FaultInv
    <2>. DEFINE s == appendBoundedIssues(issues, more)
    <2>4. s \in Issues /\ (fault => hasError(s))
        BY <2>2, <2>3, AppendKeepsErrors DEF FaultInv, OwnStages
    <2>. HIDE DEF s
    <2>5. applyPipelineValidators(s, Validators, "validate", "piped")
        BY <2>1 DEF s
    <2>6. QED
        BY <1>9, <2>3, <2>4, <2>5, ApplyKeepsFaults DEF Resolve, FaultInv
<1>10. CASE ValidatorContinues
    <2>. DEFINE t == CASE outcome.kind = "aborted" -> append(own, "aborted")
                       [] outcome.kind \in {"threw", "nonsense"} -> append(own, "error")
                       [] OTHER -> validatorIssues(outcome)
    <2>1. own \in Issues /\ outcome \in Outcomes
        BY DEF FaultInv
    <2>2. /\ append(own, "aborted") \in Issues /\ hasError(append(own, "aborted"))
          /\ append(own, "error") \in Issues /\ hasError(append(own, "error"))
        BY <2>1, AppendedIsError DEF Codes
    <2>3. t \in Issues /\ (hasError(own) \/ faulty(outcome) \/ outcome = Aborted => hasError(t))
        <3>1. CASE outcome.kind \in {"aborted", "threw", "nonsense"}
            BY <2>2, <3>1
        <3>2. CASE outcome.kind \notin {"aborted", "threw", "nonsense"}
            BY <2>1, <3>2, ValidatorIssuesFault DEF faulty, Aborted
        <3>3. QED
            BY <3>1, <3>2
    <2>. HIDE DEF t
    <2>4. append(t, "error") \in Issues /\ hasError(append(t, "error"))
        BY <2>3, AppendedIsError DEF Codes
    <2>5. /\ own' = t \/ own' = append(t, "error")
          /\ fault' => fault \/ outcome = Aborted \/ faulty(outcome) \/ own' = append(t, "error")
        BY <1>10 DEF ValidatorContinues, t
    <2>6. outcome' \in Outcomes /\ stage \in OwnStages /\ stage' \in OwnStages
        BY <1>0, <1>10 DEF ValidatorContinues, start, OwnStages
    <2>7. UNCHANGED resultVars /\ ~delivered
        BY <1>10, <2>6 DEF ValidatorContinues, FaultInv, OwnStages
    <2>8. fault' => hasError(issues') \/ hasError(own')
        BY <2>3, <2>4, <2>5, <2>7 DEF FaultInv
    <2>9. QED
        BY <2>3, <2>4, <2>5, <2>6, <2>7, <2>8 DEF FaultInv
<1>11. CASE Combine
    <2>1. /\ issues' \in Issues
          /\ hasError(issues) \/ hasError(own) => hasError(issues')
        BY <1>11, AppendKeepsErrors DEF Combine, FaultInv, Issues
    <2>2. outcome' \in Outcomes
        BY <1>0, <1>11 DEF Combine, start
    <2>3. QED
        BY <1>11, <2>1, <2>2 DEF Combine, FaultInv
<1>12. CASE ValidateOutput
    <2>1. stage = "piped" /\ ~delivered /\ issues \in Issues /\ (fault => hasError(issues))
        BY <1>12 DEF ValidateOutput, FaultInv, OwnStages
    <2>2. CASE hasError(issues) \/ ~reportOk'
        BY <1>0, <1>12, <2>1, <2>2 DEF ValidateOutput, FaultInv, start
    <2>3. CASE ~(hasError(issues) \/ ~reportOk')
        <3>1. applyPipelineValidators(issues, 1, "output", "done")
            BY <1>12, <2>3 DEF ValidateOutput
        <3>2. QED
            BY <1>12, <2>1, <3>1, ApplyKeepsFaults DEF ValidateOutput, FaultInv
    <2>4. QED
        BY <2>2, <2>3
<1>13. CASE Finish
    <2>1. stage = "combined" /\ (fault => hasError(issues)) /\ outcome' \in Outcomes
        BY <1>0, <1>13 DEF Finish, FaultInv, OwnStages, start
    <2>2. step = "none" /\ (~fault => live = {})
        BY <2>1 DEF AdapterInv, Awaiting, Waiting, GivenUp
    <2>3. QED
        BY <1>13, <2>1, <2>2 DEF Finish, FaultInv, mayDeliver, start
<1>14. QED
    BY <1>1, <1>2, <1>3, <1>4, <1>5, <1>6, <1>7, <1>8, <1>9, <1>10, <1>11, <1>12, <1>13 DEF Next

(* FaultsFailTheResult for all pipelines: no bound on diagnostics, at any of  *)
(* its three places, lets a failed or abandoned adapter pass as a good result *)
(* (runValidators, applyPipelineValidators, validateConfigOutput).            *)
THEOREM FaultsFailTheResultHolds == Spec => []FaultsFailTheResult
<1>1. FaultInv => FaultsFailTheResult
    BY DEF FaultInv, FaultsFailTheResult, OwnStages
<1>2. QED
    BY <1>1, FaultInvInit, FaultInvStep, AdapterInvHolds, PTL DEF Spec

-----------------------------------------------------------------------------
(***************************************************************************)
(* Aborts.                                                                 *)
(***************************************************************************)
Silent(s) == ~contains(s, "aborted")
AtMostOnce(s) == \A i, j \in 1..Len(s) : s[i] = "aborted" /\ s[j] = "aborted" => i = j

(* An abort is reported once, or lost to an overflow that is reported. *)
ReportsAbort(s) == AtMostOnce(s) /\ (contains(s, "aborted") \/ contains(s, "overflow"))

(* Only a full list has overflowed. *)
FullIfOver(s) == contains(s, "overflow") => Len(s) >= MaxDiagnostics

(* Marking a list replaces at most one issue, by the overflow. *)
LEMMA MarkedIssues ==
    ASSUME NEW s \in Seq(Codes)
    PROVE  /\ contains(markDiagnosticsOverflow(s), "overflow")
           /\ Silent(s) => Silent(markDiagnosticsOverflow(s))
           /\ AtMostOnce(s) => AtMostOnce(markDiagnosticsOverflow(s))
<1>1. CASE contains(s, "overflow")
    BY <1>1 DEF markDiagnosticsOverflow
<1>2. CASE ~contains(s, "overflow") /\ s = << >>
    <2>1. markDiagnosticsOverflow(s) = <<"overflow">>
        BY <1>2 DEF markDiagnosticsOverflow
    <2>2. Len(<<"overflow">>) = 1 /\ <<"overflow">>[1] = "overflow"
        OBVIOUS
    <2>3. QED
        BY <2>1, <2>2 DEF contains, Silent, AtMostOnce
<1>3. CASE ~contains(s, "overflow") /\ s # << >>
    <2>. DEFINE u == [s EXCEPT ![Len(s)] = "overflow"]
    <2>1. markDiagnosticsOverflow(s) = u /\ Len(s) \in 1..Len(s)
        BY <1>3 DEF markDiagnosticsOverflow
    <2>2. Len(u) = Len(s) /\ u[Len(s)] = "overflow" /\ \A i \in 1..Len(s) : i # Len(s) => u[i] = s[i]
        BY <2>1
    <2>. HIDE DEF u
    <2>3. QED
        BY <2>1, <2>2 DEF contains, Silent, AtMostOnce
<1>4. QED
    BY <1>1, <1>2, <1>3

(* What a concatenation says of an abort. *)
LEMMA JoinedIssues ==
    ASSUME NEW s \in Seq(Codes), NEW t \in Seq(Codes)
    PROVE  /\ \A code : contains(s \o t, code) <=> contains(s, code) \/ contains(t, code)
           /\ AtMostOnce(s) /\ AtMostOnce(t) /\ (Silent(s) \/ Silent(t)) => AtMostOnce(s \o t)
<1>1. /\ Len(s \o t) = Len(s) + Len(t) /\ Len(s) \in Nat /\ Len(t) \in Nat
      /\ \A i \in 1..Len(s) : (s \o t)[i] = s[i]
      /\ \A i \in 1..Len(s) + Len(t) : i > Len(s) => (s \o t)[i] = t[i - Len(s)]
    OBVIOUS
<1>. DEFINE u == s \o t
<1>. HIDE DEF u
<1>2. \A i \in 1..Len(u) : \/ i \in 1..Len(s) /\ u[i] = s[i]
                           \/ i - Len(s) \in 1..Len(t) /\ u[i] = t[i - Len(s)]
    <2>1. ASSUME NEW i \in 1..Len(u), i \notin 1..Len(s) PROVE i - Len(s) \in 1..Len(t) /\ u[i] = t[i - Len(s)]
        <3>1. i \in 1..Len(s) + Len(t) /\ i > Len(s)
            BY <1>1, <2>1 DEF u
        <3>2. i - Len(s) \in 1..Len(t)
            BY <1>1, <3>1
        <3>3. QED
            BY <1>1, <3>1, <3>2 DEF u
    <2>2. \A i \in 1..Len(s) : u[i] = s[i]
        BY <1>1 DEF u
    <2>3. QED
        BY <2>1, <2>2
<1>3. ASSUME NEW code PROVE contains(u, code) <=> contains(s, code) \/ contains(t, code)
    <2>1. contains(u, code) => contains(s, code) \/ contains(t, code)
        BY <1>2 DEF contains
    <2>2. ASSUME NEW i \in 1..Len(s), s[i] = code PROVE contains(u, code)
        <3>1. i \in 1..Len(u) /\ u[i] = code
            BY <1>1, <2>2 DEF u
        <3>2. QED
            BY <3>1 DEF contains
    <2>3. ASSUME NEW i \in 1..Len(t), t[i] = code PROVE contains(u, code)
        <3>1. Len(s) + i \in 1..Len(u) /\ u[Len(s) + i] = code
            BY <1>1, <2>3 DEF u
        <3>2. QED
            BY <3>1 DEF contains
    <2>4. QED
        BY <2>1, <2>2, <2>3 DEF contains
<1>4. ASSUME AtMostOnce(s), AtMostOnce(t), Silent(s) \/ Silent(t),
             NEW i \in 1..Len(u), NEW j \in 1..Len(u), u[i] = "aborted", u[j] = "aborted"
      PROVE  i = j
    <2>1. CASE Silent(s)
        <3>1. /\ i - Len(s) \in 1..Len(t) /\ t[i - Len(s)] = "aborted"
              /\ j - Len(s) \in 1..Len(t) /\ t[j - Len(s)] = "aborted"
            BY <1>2, <1>4, <2>1 DEF Silent, contains
        <3>2. i - Len(s) = j - Len(s)
            BY <1>4, <3>1 DEF AtMostOnce
        <3>3. QED
            BY <1>1, <3>2
    <2>2. CASE Silent(t)
        <3>1. i \in 1..Len(s) /\ s[i] = "aborted" /\ j \in 1..Len(s) /\ s[j] = "aborted"
            BY <1>2, <1>4, <2>2 DEF Silent, contains
        <3>2. QED
            BY <1>4, <3>1 DEF AtMostOnce
    <2>3. QED
        BY <1>4, <2>1, <2>2
<1>5. QED
    BY <1>3, <1>4 DEF u, AtMostOnce

(* The beginning of a list says no more of an abort than the list. *)
LEMMA CutIssues ==
    ASSUME NEW t \in Seq(Codes), NEW n \in 0..Len(t)
    PROVE  /\ SubSeq(t, 1, n) \in Seq(Codes) /\ Len(SubSeq(t, 1, n)) = n
           /\ Silent(t) => Silent(SubSeq(t, 1, n))
           /\ AtMostOnce(t) => AtMostOnce(SubSeq(t, 1, n))
<1>1. SubSeq(t, 1, n) \in Seq(Codes) /\ Len(SubSeq(t, 1, n)) = n /\ 1..n \subseteq 1..Len(t)
      /\ \A i \in 1..n : SubSeq(t, 1, n)[i] = t[i]
    OBVIOUS
<1>2. QED
    BY <1>1 DEF Silent, contains, AtMostOnce

(* An appended list keeps an abort reported once, through every bound. *)
LEMMA AppendKeepsAborts ==
    ASSUME NEW s \in Issues, NEW t \in Seq(Codes), FullIfOver(s),
           contains(t, "overflow") => Len(s) + Len(t) >= MaxDiagnostics
    PROVE  /\ FullIfOver(appendBoundedIssues(s, t))
           /\ Silent(s) /\ Silent(t) => Silent(appendBoundedIssues(s, t))
           /\ ReportsAbort(s) /\ Silent(t) => ReportsAbort(appendBoundedIssues(s, t))
           /\ Silent(s) /\ ReportsAbort(t) => ReportsAbort(appendBoundedIssues(s, t))
<1>. USE DiagnosticsConstants DEF DiagnosticsConstants
<1>0. \A x : Silent(x) => AtMostOnce(x)
    BY DEF Silent, AtMostOnce, contains
<1>1. CASE Len(s) + Len(t) <= MaxDiagnostics
    <2>1. appendBoundedIssues(s, t) = s \o t /\ Len(s \o t) = Len(s) + Len(t)
        BY <1>1 DEF appendBoundedIssues, Issues
    <2>2. s \in Seq(Codes) /\ Len(s) \in Nat /\ Len(t) \in Nat
        BY DEF Issues
    <2>3. contains(s \o t, "overflow") => Len(s) + Len(t) >= MaxDiagnostics
        BY <2>2, JoinedIssues DEF FullIfOver
    <2>4. QED
        BY <1>0, <2>1, <2>2, <2>3, JoinedIssues DEF FullIfOver, Silent, ReportsAbort
<1>2. CASE Len(s) + Len(t) > MaxDiagnostics
    <2>. DEFINE n == MaxDiagnostics - Len(s)
                u == s \o SubSeq(t, 1, n)
    <2>1. n \in 0..Len(t) /\ s \in Seq(Codes)
        BY <1>2 DEF Issues
    <2>2. u \in Seq(Codes) /\ Len(u) = MaxDiagnostics
        BY <2>1, CutIssues DEF Issues
    <2>3. /\ Silent(s) /\ Silent(t) => Silent(u)
          /\ AtMostOnce(s) /\ AtMostOnce(t) /\ (Silent(s) \/ Silent(t)) => AtMostOnce(u)
        <3>. DEFINE v == SubSeq(t, 1, n)
        <3>1. v \in Seq(Codes) /\ (Silent(t) => Silent(v)) /\ (AtMostOnce(t) => AtMostOnce(v))
            BY <2>1, CutIssues
        <3>. HIDE DEF v
        <3>2. Silent(s) /\ Silent(v) => Silent(s \o v)
            BY <2>1, <3>1, JoinedIssues DEF Silent
        <3>3. AtMostOnce(s) /\ AtMostOnce(v) /\ (Silent(s) \/ Silent(v)) => AtMostOnce(s \o v)
            BY <2>1, <3>1, JoinedIssues
        <3>4. QED
            BY <3>1, <3>2, <3>3 DEF v
    <2>4. appendBoundedIssues(s, t) = markDiagnosticsOverflow(u)
        BY <1>2 DEF appendBoundedIssues, Issues
    <2>. HIDE DEF u
    <2>5. Len(markDiagnosticsOverflow(u)) = MaxDiagnostics
        BY <2>2, MarkedHasError
    <2>6. QED
        BY <1>0, <2>2, <2>3, <2>4, <2>5, MarkedIssues DEF FullIfOver, ReportsAbort
<1>3. QED
    BY <1>1, <1>2 DEF Issues

(* One abort more, or another error. *)
LEMMA AppendedAbort ==
    ASSUME NEW s \in Issues, FullIfOver(s)
    PROVE  /\ FullIfOver(append(s, "aborted")) /\ FullIfOver(append(s, "error"))
           /\ Silent(s) => ReportsAbort(append(s, "aborted")) /\ Silent(append(s, "error"))
<1>1. /\ Len(<<"aborted">>) = 1 /\ <<"aborted">>[1] = "aborted"
      /\ Len(<<"error">>) = 1 /\ <<"error">>[1] = "error"
    OBVIOUS
<1>2. ~contains(<<"aborted">>, "overflow") /\ ReportsAbort(<<"aborted">>)
    BY <1>1 DEF contains, ReportsAbort, AtMostOnce
<1>3. ~contains(<<"error">>, "overflow") /\ Silent(<<"error">>)
    BY <1>1 DEF contains, Silent
<1>4. <<"aborted">> \in Seq(Codes) /\ <<"error">> \in Seq(Codes)
    BY DEF Codes
<1>5. QED
    BY <1>2, <1>3, <1>4, AppendKeepsAborts DEF append

(* Until the signal ends the operation nobody says so.  Then the result says it, *)
(* or the issues of the validators do, which are still to be combined with it.   *)
AbortInv ==
    /\ FullIfOver(issues) /\ FullIfOver(own)
    /\ ~cut => Silent(issues) /\ (stage \in OwnStages => Silent(own))
    /\ cut => \/ stage \in {"loaded", "piped", "combined", "done"} /\ ReportsAbort(issues)
              \/ stage \in {"validated", "outputs"} /\ Silent(issues) /\ ReportsAbort(own)

(* Adapters cannot pretend that the operation was aborted. *)
LEMMA ReportsAreSilent ==
    ASSUME NEW s \in Seq({"warning", "error"})
    PROVE  s \in Seq(Codes) /\ Silent(s) /\ ~contains(s, "overflow")
<1>1. \A i \in 1..Len(s) : s[i] \in {"warning", "error"}
    OBVIOUS
<1>2. s \in Seq(Codes)
    BY <1>1 DEF Codes
<1>3. QED
    BY <1>1, <1>2 DEF Silent, contains

LEMMA OutcomesAreSilent ==
    ASSUME NEW o \in Outcomes
    PROVE  /\ o.issues \in Seq(Codes) /\ Silent(o.issues) /\ ~contains(o.issues, "overflow")
           /\ o.kind = "aborted" <=> o = Aborted
<1>1. o.issues \in Seq({"warning", "error"})
    <2>1. << >> \in Seq({"warning", "error"})
        OBVIOUS
    <2>2. o.issues = << >> \/ o.issues \in Reports
        BY DEF Outcomes
    <2>3. QED
        BY <2>1, <2>2, PipelineConstants DEF PipelineConstants
<1>2. o.kind = "aborted" <=> o = Aborted
    BY DEF Outcomes, Aborted
<1>3. QED
    BY <1>1, <1>2, ReportsAreSilent

(* A source says that the operation was aborted if its loader was given up. *)
LEMMA SourceIssuesAbort ==
    ASSUME NEW o \in Outcomes
    PROVE  /\ contains(sourceIssues(o), "overflow") => Len(sourceIssues(o)) >= MaxDiagnostics
           /\ o = Aborted => ReportsAbort(sourceIssues(o))
           /\ o # Aborted => Silent(sourceIssues(o))
<1>1. CASE o = Aborted
    <2>1. sourceIssues(o) = <<"aborted">>
        BY <1>1 DEF sourceIssues, Aborted
    <2>2. Len(<<"aborted">>) = 1 /\ <<"aborted">>[1] = "aborted"
        OBVIOUS
    <2>3. QED
        BY <1>1, <2>1, <2>2 DEF contains, ReportsAbort, AtMostOnce
<1>2. CASE o.kind = "ok"
    <2>1. << >> \in Issues /\ Silent(<< >>) /\ FullIfOver(<< >>)
        BY DiagnosticsConstants DEF DiagnosticsConstants, Issues, Silent, FullIfOver, contains
    <2>2. sourceIssues(o) = appendBoundedIssues(<< >>, o.issues) /\ o # Aborted
        BY <1>2 DEF sourceIssues, Aborted
    <2>3. QED
        BY <2>1, <2>2, OutcomesAreSilent, AppendKeepsAborts DEF FullIfOver
<1>3. CASE o # Aborted /\ o.kind # "ok"
    <2>1. sourceIssues(o) = <<"error">>
        BY <1>3, OutcomesAreSilent DEF sourceIssues
    <2>2. Len(<<"error">>) = 1 /\ <<"error">>[1] = "error"
        OBVIOUS
    <2>3. QED
        BY <1>3, <2>1, <2>2 DEF contains, Silent
<1>4. QED
    BY <1>1, <1>2, <1>3

(* The issues of a validator do not speak of an abort. *)
LEMMA ValidatorIssuesSilent ==
    ASSUME own \in Issues, FullIfOver(own), NEW o \in Outcomes
    PROVE  FullIfOver(validatorIssues(o)) /\ (Silent(own) => Silent(validatorIssues(o)))
<1>. DEFINE room == MaxDiagnostics - Len(own)
            t == normalizeValidatorIssues(o.issues, room)
            s == appendBoundedIssues(own, t)
<1>1. room \in Nat /\ Len(own) \in Nat /\ Len(own) + room = MaxDiagnostics
    BY DiagnosticsConstants DEF DiagnosticsConstants, Issues
<1>2. o.issues \in Seq(Codes) /\ Silent(o.issues) /\ ~contains(o.issues, "overflow")
    BY OutcomesAreSilent
<1>. HIDE DEF room
<1>3. t \in Seq(Codes) /\ Silent(t) /\ (contains(t, "overflow") => Len(t) >= room)
    <2>1. CASE Len(o.issues) <= room
        BY <1>2, <2>1 DEF normalizeValidatorIssues
    <2>2. CASE Len(o.issues) > room
        <3>. DEFINE c == SubSeq(o.issues, 1, room)
        <3>1. c \in Seq(Codes) /\ Len(c) = room /\ Silent(c)
            <4>1. room \in 0..Len(o.issues)
                BY <1>1, <1>2, <2>2
            <4>2. QED
                BY <1>2, <4>1, CutIssues
        <3>2. t = markDiagnosticsOverflow(c)
            BY <1>1, <1>2, <2>2 DEF normalizeValidatorIssues
        <3>. HIDE DEF c
        <3>3. Len(t) >= room
            BY <1>1, <3>1, <3>2, MarkedHasError
        <3>4. QED
            BY <3>1, <3>2, <3>3, MarkedHasError, MarkedIssues
    <2>3. QED
        BY <1>1, <1>2, <2>1, <2>2
<1>. HIDE DEF t
<1>4. contains(t, "overflow") => Len(own) + Len(t) >= MaxDiagnostics
    BY <1>1, <1>3
<1>5. s \in Issues /\ FullIfOver(s) /\ (Silent(own) => Silent(s))
    BY <1>3, <1>4, AppendKeepsAborts, AppendKeepsErrors
<1>. HIDE DEF s
<1>6. FullIfOver(append(s, "error")) /\ (Silent(s) => Silent(append(s, "error")))
    BY <1>5, AppendedAbort
<1>7. validatorIssues(o) = s \/ validatorIssues(o) = append(s, "error")
    BY DEF validatorIssues, s, t, room
<1>8. QED
    BY <1>5, <1>6, <1>7

(* The signal is looked at again: an abort that was reported, or lost to an *)
(* overflow, is not reported a second time.                                 *)
LEMMA ApplyKeepsAborts ==
    ASSUME AbortInv, stage \in {"loaded", "piped"}, NEW s \in Issues, FullIfOver(s),
           ~cut => Silent(s), cut => ReportsAbort(s), NEW n, NEW next \in {"validate", "output"},
           NEW skip \in {"piped", "done"}, applyPipelineValidators(s, n, next, skip)
    PROVE  AbortInv'
<1>1. ReportsAbort(s) => hasError(s)
    BY DEF ReportsAbort, contains, hasError
<1>2. CASE signal /\ ~reportedAbort(s)
    <2>1. /\ issues' = append(s, "aborted") /\ cut' = TRUE /\ stage' = skip /\ UNCHANGED own
        BY <1>2 DEF applyPipelineValidators, start, ownVars, append
    <2>2. Silent(s)
        BY <1>2 DEF reportedAbort, Silent
    <2>3. FullIfOver(append(s, "aborted")) /\ ReportsAbort(append(s, "aborted"))
        BY <2>2, AppendedAbort
    <2>4. QED
        BY <2>1, <2>3 DEF AbortInv
<1>3. CASE ~(signal /\ ~reportedAbort(s)) /\ (hasError(s) \/ n = 0)
    <2>1. issues' = s /\ cut' = cut /\ stage' = skip /\ UNCHANGED own
        BY <1>3 DEF applyPipelineValidators, start, ownVars
    <2>2. QED
        BY <2>1 DEF AbortInv, OwnStages
<1>4. CASE ~(signal /\ ~reportedAbort(s)) /\ ~(hasError(s) \/ n = 0)
    <2>1. /\ issues' = s /\ cut' = cut /\ stage' \in OwnStages /\ own' \in {<< >>, <<"error">>}
        BY <1>4 DEF applyPipelineValidators, start, OwnStages
    <2>2. Len(<<"error">>) = 1 /\ <<"error">>[1] = "error" /\ Len(<< >>) = 0
        OBVIOUS
    <2>3. FullIfOver(own') /\ Silent(own')
        BY <2>1, <2>2 DEF FullIfOver, Silent, contains
    <2>4. ~cut
        BY <1>1, <1>4
    <2>5. QED
        BY <2>1, <2>3, <2>4 DEF AbortInv
<1>5. QED
    BY <1>2, <1>3, <1>4

LEMMA AbortInvStep == FaultInv /\ AbortInv /\ [Next]_vars => AbortInv'
<1>. SUFFICES ASSUME FaultInv, AbortInv, [Next]_vars PROVE AbortInv'
    OBVIOUS
<1>. USE DEF resultVars, ownVars, adapterVars, stepVars, vars
<1>1. CASE UNCHANGED vars
    BY <1>1 DEF AbortInv
<1>2. CASE Call
    BY <1>2 DEF Call, AbortInv
<1>3. CASE Settle
    BY <1>3 DEF Settle, AbortInv
<1>4. CASE Deliver
    BY <1>4 DEF Deliver, AbortInv
<1>5. CASE Abort
    BY <1>5 DEF Abort, AbortInv
<1>6. CASE SettleLate
    BY <1>6 DEF SettleLate, AbortInv
<1>7. CASE Begin
    <2>1. Len(<<"error">>) = 1 /\ <<"error">>[1] = "error" /\ Len(<<"aborted">>) = 1 /\ <<"aborted">>[1] = "aborted"
        OBVIOUS
    <2>2. /\ FullIfOver(<<"error">>) /\ Silent(<<"error">>)
          /\ FullIfOver(<<"aborted">>) /\ ReportsAbort(<<"aborted">>)
        BY <2>1 DEF FullIfOver, Silent, contains, ReportsAbort, AtMostOnce
    <2>3. stage = "begin" /\ ~cut /\ UNCHANGED own
        BY <1>7 DEF Begin, AbortInv
    <2>4. CASE issues' = issues /\ cut' = cut /\ stage' \in {"loaded", "load"}
        BY <2>3, <2>4 DEF AbortInv, OwnStages
    <2>5. CASE issues' = <<"error">> /\ cut' = cut /\ stage' \in {"loaded", "done"}
        BY <2>2, <2>3, <2>5 DEF AbortInv, OwnStages
    <2>6. CASE issues' = <<"aborted">> /\ cut' = TRUE /\ stage' = "loaded"
        BY <2>2, <2>3, <2>6 DEF AbortInv
    <2>7. QED
        BY <1>7, <2>4, <2>5, <2>6 DEF Begin, start
<1>8. CASE LoaderContinues
    <2>1. ~cut /\ Silent(issues) /\ FullIfOver(issues) /\ issues \in Issues /\ outcome \in Outcomes
        BY <1>8 DEF LoaderContinues, AbortInv, FaultInv
    <2>. DEFINE t == sourceIssues(outcome)
    <2>2. /\ t \in Seq(Codes) /\ (contains(t, "overflow") => Len(t) >= MaxDiagnostics)
          /\ (outcome = Aborted => ReportsAbort(t)) /\ (outcome # Aborted => Silent(t))
        BY <2>1, SourceIssuesType, SourceIssuesAbort
    <2>3. /\ issues' = appendBoundedIssues(issues, t) /\ (cut' <=> outcome = Aborted) /\ UNCHANGED own
          /\ stage' \in {"load", "loaded"} /\ (cut' => stage' = "loaded")
        BY <1>8 DEF LoaderContinues, start
    <2>. HIDE DEF t
    <2>4. contains(t, "overflow") => Len(issues) + Len(t) >= MaxDiagnostics
        BY <2>1, <2>2, DiagnosticsConstants DEF Issues, DiagnosticsConstants
    <2>5. /\ FullIfOver(issues')
          /\ outcome = Aborted => ReportsAbort(issues')
          /\ outcome # Aborted => Silent(issues')
        BY <2>1, <2>2, <2>3, <2>4, AppendKeepsAborts
    <2>6. QED
        BY <2>3, <2>5 DEF AbortInv, OwnStages
<1>9. CASE Resolve
    <2>1. PICK more \in IF called = {} THEN {<< >>} ELSE Reports :
            applyPipelineValidators(appendBoundedIssues(issues, more), Validators, "validate", "piped")
        BY <1>9 DEF Resolve
    <2>2. more \in Seq({"warning", "error"})
        <3>1. << >> \in Seq({"warning", "error"})
            OBVIOUS
        <3>2. QED
            BY <3>1, PipelineConstants DEF PipelineConstants
    <2>3. stage = "loaded" /\ issues \in Issues /\ FullIfOver(issues)
        BY <1>9 DEF Resolve, FaultInv, AbortInv
    <2>. DEFINE s == appendBoundedIssues(issues, more)
    <2>4. /\ s \in Issues /\ FullIfOver(s)
          /\ ~cut => Silent(s)
          /\ cut => ReportsAbort(s)
        BY <2>2, <2>3, ReportsAreSilent, AppendKeepsErrors, AppendKeepsAborts DEF AbortInv
    <2>. HIDE DEF s
    <2>5. applyPipelineValidators(s, Validators, "validate", "piped")
        BY <2>1 DEF s
    <2>6. QED
        BY <2>3, <2>4, <2>5, ApplyKeepsAborts
<1>10. CASE ValidatorContinues
    <2>. DEFINE t == CASE outcome.kind = "aborted" -> append(own, "aborted")
                       [] outcome.kind \in {"threw", "nonsense"} -> append(own, "error")
                       [] OTHER -> validatorIssues(outcome)
    <2>1. /\ own \in Issues /\ FullIfOver(own) /\ outcome \in Outcomes
          /\ ~cut /\ Silent(own) /\ Silent(issues) /\ FullIfOver(issues)
        BY <1>10 DEF ValidatorContinues, FaultInv, AbortInv, OwnStages
    <2>2. /\ t \in Issues /\ FullIfOver(t)
          /\ outcome = Aborted => ReportsAbort(t)
          /\ outcome # Aborted => Silent(t)
        <3>1. append(own, "aborted") \in Issues /\ append(own, "error") \in Issues
            BY <2>1, AppendedIsError DEF Codes
        <3>2. CASE outcome = Aborted
            BY <2>1, <3>1, <3>2, AppendedAbort DEF Aborted
        <3>3. CASE outcome # Aborted /\ outcome.kind \in {"threw", "nonsense"}
            BY <2>1, <3>1, <3>3, AppendedAbort
        <3>4. CASE outcome # Aborted /\ outcome.kind \notin {"threw", "nonsense"}
            <4>1. t = validatorIssues(outcome)
                BY <2>1, <3>4, OutcomesAreSilent
            <4>2. QED
                BY <2>1, <3>4, <4>1, ValidatorIssuesFault, ValidatorIssuesSilent
        <3>5. QED
            BY <3>2, <3>3, <3>4
    <2>. HIDE DEF t
    <2>3. FullIfOver(append(t, "error")) /\ (Silent(t) => Silent(append(t, "error")))
        BY <2>2, AppendedAbort
    <2>4. UNCHANGED issues /\ stage' \in OwnStages
        BY <1>10 DEF ValidatorContinues, start, OwnStages
    <2>5. CASE outcome = Aborted
        <3>1. cut' = TRUE /\ own' = t /\ stage' \in {"validated", "outputs"}
            BY <1>10, <2>5 DEF ValidatorContinues, start, t
        <3>2. QED
            BY <2>1, <2>2, <2>4, <2>5, <3>1 DEF AbortInv
    <2>6. CASE outcome # Aborted
        <3>1. cut' = cut /\ (own' = t \/ own' = append(t, "error"))
            BY <1>10, <2>6 DEF ValidatorContinues, t
        <3>2. QED
            BY <2>1, <2>2, <2>3, <2>4, <2>6, <3>1 DEF AbortInv
    <2>7. QED
        BY <2>5, <2>6
<1>11. CASE Combine
    <2>1. /\ issues \in Issues /\ own \in Seq(Codes) /\ FullIfOver(issues)
          /\ contains(own, "overflow") => Len(issues) + Len(own) >= MaxDiagnostics
        BY DiagnosticsConstants DEF FaultInv, AbortInv, FullIfOver, Issues, DiagnosticsConstants
    <2>2. Silent(issues) /\ (~cut => Silent(own)) /\ (cut => ReportsAbort(own))
        BY <1>11 DEF Combine, AbortInv, OwnStages
    <2>3. /\ FullIfOver(issues')
          /\ ~cut => Silent(issues')
          /\ cut => ReportsAbort(issues')
        BY <1>11, <2>1, <2>2, AppendKeepsAborts DEF Combine
    <2>4. stage' \in {"piped", "combined"} /\ UNCHANGED <<own, cut>>
        BY <1>11 DEF Combine, start
    <2>5. QED
        BY <2>3, <2>4 DEF AbortInv, OwnStages
<1>12. CASE ValidateOutput
    <2>1. stage = "piped" /\ issues \in Issues /\ FullIfOver(issues)
          /\ (~cut => Silent(issues)) /\ (cut => ReportsAbort(issues))
        BY <1>12 DEF ValidateOutput, FaultInv, AbortInv
    <2>2. CASE hasError(issues) \/ ~reportOk'
        BY <1>12, <2>1, <2>2 DEF ValidateOutput, AbortInv, start, OwnStages
    <2>3. CASE ~(hasError(issues) \/ ~reportOk')
        <3>1. applyPipelineValidators(issues, 1, "output", "done")
            BY <1>12, <2>3 DEF ValidateOutput
        <3>2. QED
            BY <2>1, <3>1, ApplyKeepsAborts
    <2>4. QED
        BY <2>2, <2>3
<1>13. CASE Finish
    BY <1>13 DEF Finish, AbortInv, OwnStages, start
<1>14. QED
    BY <1>1, <1>2, <1>3, <1>4, <1>5, <1>6, <1>7, <1>8, <1>9, <1>10, <1>11, <1>12, <1>13 DEF Next

(* AbortReportedOnce for all pipelines: however many stages look at the signal, *)
(* and wherever the bounds on diagnostics cut, an operation that it ended says  *)
(* so once, or that it could not say all (createAbortDiagnostic,                *)
(* applyPipelineValidators).                                                    *)
THEOREM AbortReportedOnceHolds == Spec => []AbortReportedOnce
<1>1. Init => AbortInv
    BY DEF Init, AbortInv, FullIfOver, Silent, contains
<1>2. AbortInv => AbortReportedOnce
    <2>. SUFFICES ASSUME AbortInv, stage = "done" PROVE AbortReportedOnce
        BY DEF AbortReportedOnce
    <2>. DEFINE I == {i \in 1..Len(issues) : issues[i] = "aborted"}
    <2>1. CASE Silent(issues)
        <3>1. I = {}
            BY <2>1 DEF Silent, contains
        <3>2. Cardinality(I) = 0
            BY <3>1, FS_EmptySet
        <3>3. QED
            BY <2>1, <3>2 DEF AbortInv, AbortReportedOnce, ReportsAbort, Silent
    <2>2. CASE ~Silent(issues)
        <3>1. cut /\ AtMostOnce(issues)
            BY <2>2 DEF AbortInv, ReportsAbort
        <3>2. PICK i \in 1..Len(issues) : issues[i] = "aborted"
            BY <2>2 DEF Silent, contains
        <3>3. I = {i}
            BY <3>1, <3>2 DEF AtMostOnce
        <3>4. Cardinality(I) = 1
            BY <3>3, FS_Singleton
        <3>5. QED
            BY <3>1, <3>4 DEF AbortReportedOnce
    <2>3. QED
        BY <2>1, <2>2
<1>3. QED
    BY <1>1, <1>2, AbortInvStep, FaultInvInit, FaultInvStep, AdapterInvHolds, PTL DEF Spec
=============================================================================
