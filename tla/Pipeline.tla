------------------------------ MODULE Pipeline ------------------------------
(***************************************************************************)
(* runValidatedConfigPipeline of packages/core: loaders one after another, *)
(* resolution, validators one after another, the output validator; with    *)
(* the bounded diagnostics of every stage and an abort signal that may     *)
(* fire at any await (runAbortable).                                       *)
(*                                                                         *)
(* An adapter is <<stage, n>>.  Adapters are the application's: they may   *)
(* throw, return nonsense, or never settle.                                *)
(***************************************************************************)
EXTENDS Diagnostics, FiniteSets

CONSTANTS
    Loaders, Validators,    \* how many
    MaxProvenanceEvents,
    Reports                 \* the lists of issues that adapters may return

ASSUME PipelineConstants ==
    /\ Loaders \in Nat /\ Validators \in Nat /\ MaxProvenanceEvents \in Nat \ {0}
    /\ Reports \subseteq Seq({"warning", "error"})

VARIABLES
    stage,
    index,                  \* of the current adapter in its stage
    step,                   \* of runAbortable: "none", "waiting", "settled", "resumed"
    outcome,                \* what the adapter settled with, or "aborted"
    signal,                 \* signal.aborted
    issues,                 \* of the result
    provenance,             \* how many events of the result
    own, events,            \* the issues and the number of events of runValidators
    reportOk,               \* report.status = "ok"
    captured,               \* the output validator has handed over a value
    delivered,              \* ... and the caller got it
    (* Auxiliary. *)
    called, live,           \* adapters called, and not settled yet
    fault,                  \* some adapter failed or was given up, or something did not fit
    cut                     \* the operation was ended by the signal

adapterVars == <<called, live>>
stepVars == <<step, outcome>>
ownVars == <<own, events>>
resultVars == <<issues, provenance, reportOk, captured, delivered>>
vars == <<stage, index, stepVars, signal, resultVars, ownVars, adapterVars, fault, cut>>

Outcomes == {[kind |-> k, issues |-> << >>] : k \in {"threw", "nonsense", "aborted", "none"}}
                \cup [kind : {"ok", "refused"}, issues : Reports]
Awaiting == {"load", "validate", "output"}      \* stages that call adapters

(* What an adapter may settle with: only a validator's result can be a refusal. *)
Settled(a) == {o \in Outcomes : o.kind \in
                  {"threw", "nonsense", "ok"} \cup IF a[1] = "load" THEN {} ELSE {"refused"}}

TypeOK ==
    /\ stage \in Awaiting \cup {"begin", "loaded", "validated", "piped", "outputs", "combined", "done"}
    /\ index \in 1..Loaders + Validators + 2 /\ step \in {"none", "waiting", "settled", "resumed"}
    /\ outcome \in Outcomes
    /\ issues \in Seq({"warning", "error", "aborted", "overflow"}) /\ Len(issues) <= MaxDiagnostics
    /\ provenance \in 0..MaxProvenanceEvents /\ events \in 0..MaxProvenanceEvents
    /\ {signal, reportOk, captured, delivered, fault, cut} \subseteq BOOLEAN
    /\ live \subseteq called

adapter == <<stage, index>>
None == [kind |-> "none", issues |-> << >>]
Aborted == [kind |-> "aborted", issues |-> << >>]

-----------------------------------------------------------------------------
(***************************************************************************)
(* runAbortable.                                                           *)
(***************************************************************************)
(* An adapter is called unless the signal has fired. *)
Bug_mayCall == TRUE
mayCall == ~signal

Call ==
    /\ stage \in Awaiting /\ step = "none"
    /\ IF mayCall
       THEN /\ step' = "waiting" /\ outcome' = None
            /\ called' = called \cup {adapter} /\ live' = live \cup {adapter}
       ELSE step' = "resumed" /\ outcome' = Aborted /\ UNCHANGED adapterVars
    /\ UNCHANGED <<stage, index, signal, resultVars, ownVars, fault, cut>>

(* The output validator has run: its wrapper keeps the value of a good result. *)
keepsValue(a, o) == a[1] = "output" /\ o.kind = "ok"

(* The adapter settles; it may have fired the signal itself before. *)
Settle ==
    /\ step = "waiting"
    /\ \E o \in Settled(adapter) : outcome' = o /\ captured' = (captured \/ keepsValue(adapter, o))
    /\ step' = "settled" /\ live' = live \ {adapter}
    /\ UNCHANGED <<stage, index, signal, issues, provenance, reportOk, delivered, ownVars,
                   called, fault, cut>>

Deliver ==
    /\ step = "settled" /\ step' = "resumed"
    /\ UNCHANGED <<stage, index, outcome, signal, resultVars, ownVars, adapterVars, fault, cut>>

(* The listener is there until the step is finished, one way or the other. *)
Bug_listening == step = "settled"       \* only checked when the adapter settles
listening == step \in {"waiting", "settled"}

Abort ==
    /\ ~signal /\ signal' = TRUE
    /\ IF listening THEN step' = "resumed" /\ outcome' = Aborted ELSE UNCHANGED stepVars
    /\ UNCHANGED <<stage, index, resultVars, ownVars, adapterVars, fault, cut>>

(* An adapter given up goes on, and may settle whenever it likes. *)
SettleLate ==
    \E a \in live :
        /\ ~(a = adapter /\ step = "waiting")
        /\ live' = live \ {a}
        /\ \E o \in Settled(a) : captured' = (captured \/ keepsValue(a, o))
        /\ UNCHANGED <<stage, index, stepVars, signal, issues, provenance, reportOk, delivered,
                       ownVars, called, fault, cut>>

-----------------------------------------------------------------------------
(***************************************************************************)
(* Loading and resolution.                                                 *)
(***************************************************************************)
start(s) == stage' = s /\ index' = 1 /\ step' = "none" /\ outcome' = None

(* Preflight checks fail: nothing is loaded, and the failure is the result. *)
Begin ==
    /\ stage = "begin"
    /\ \/ /\ ~signal /\ Validators < MaxProvenanceEvents
          /\ IF Loaders = 0 THEN start("loaded") ELSE start("load")
          /\ UNCHANGED <<issues, fault, cut>>
       \/ /\ ~signal /\ Validators < MaxProvenanceEvents     \* priorities, ids, number of sources
          /\ start("loaded")
          /\ issues' = <<"error">> /\ fault' = TRUE /\ UNCHANGED cut
       \/ /\ signal /\ Validators < MaxProvenanceEvents
          /\ start("loaded")
          /\ issues' = <<"aborted">> /\ fault' = TRUE /\ cut' = TRUE
       \/ /\ start("done")                                   \* the output validator does not fit
          /\ issues' = <<"error">> /\ fault' = TRUE /\ UNCHANGED cut
    /\ UNCHANGED <<signal, provenance, reportOk, captured, delivered, ownVars, adapterVars>>

faulty(o) == o.kind \in {"threw", "nonsense", "refused"} \/ hasError(o.issues)

(* The issues of a source: its own, bounded, or the failure of its loader. *)
sourceIssues(o) ==
    IF o.kind = "aborted" THEN <<"aborted">>
    ELSE IF o.kind = "ok" THEN appendBoundedIssues(<< >>, o.issues) ELSE <<"error">>

LoaderContinues ==
    /\ stage = "load" /\ step = "resumed"
    /\ issues' = appendBoundedIssues(issues, sourceIssues(outcome))
    /\ fault' = (fault \/ hasError(sourceIssues(outcome)))
    /\ cut' = (outcome = Aborted)
    /\ IF cut' \/ index = Loaders THEN start("loaded")
       ELSE index' = index + 1 /\ step' = "none" /\ outcome' = None /\ UNCHANGED stage
    /\ UNCHANGED <<signal, provenance, reportOk, captured, delivered, ownVars, adapterVars>>

(* applyPipelineValidators: the signal is looked at again, and a failed result *)
(* is not validated.                                                           *)
Bug_reportedAbort(s) == FALSE           \* reported again by every stage
reportedAbort(s) == contains(s, "aborted")

applyPipelineValidators(s, n, next, skip) ==
    IF signal /\ ~reportedAbort(s)
    THEN /\ issues' = appendBoundedIssues(s, <<"aborted">>) /\ fault' = TRUE /\ cut' = TRUE
         /\ start(skip) /\ UNCHANGED ownVars
    ELSE /\ issues' = s /\ UNCHANGED cut
         /\ IF hasError(s) \/ n = 0
            THEN start(skip) /\ fault' = (fault \/ hasError(s)) /\ UNCHANGED ownVars
            ELSE IF provenance' = MaxProvenanceEvents
            THEN /\ start(IF next = "validate" THEN "validated" ELSE "outputs")
                 /\ own' = <<"error">> /\ events' = 0 /\ fault' = TRUE
            ELSE start(next) /\ own' = << >> /\ events' = 0 /\ UNCHANGED fault

(* resolveConfig adds its own issues and events. *)
Resolve ==
    /\ stage = "loaded"
    /\ \E more \in IF called = {} THEN {<< >>} ELSE Reports, n \in 0..MaxProvenanceEvents :
        /\ provenance' = n
        /\ applyPipelineValidators(appendBoundedIssues(issues, more), Validators, "validate", "piped")
    /\ UNCHANGED <<signal, reportOk, captured, delivered, adapterVars>>

-----------------------------------------------------------------------------
(***************************************************************************)
(* Validation: runValidators.                                              *)
(***************************************************************************)
(* What a validator reported, cut to the room there is. *)
normalizeValidatorIssues(t, room) ==
    IF Len(t) <= room THEN t ELSE markDiagnosticsOverflow(SubSeq(t, 1, room))

Bug_validatorIssues(o) ==               \* believes in the issues only
    appendBoundedIssues(own, normalizeValidatorIssues(o.issues, MaxDiagnostics - Len(own)))
validatorIssues(o) ==
    LET t == normalizeValidatorIssues(o.issues, MaxDiagnostics - Len(own))
        s == appendBoundedIssues(own, t)
    IN  IF o.kind = "refused" /\ ~hasError(t) THEN append(s, "error") ELSE s

ValidatorContinues ==
    /\ stage \in {"validate", "output"} /\ step = "resumed"
    /\ LET n == IF stage = "validate" THEN Validators ELSE 1
           over == IF stage = "validate" THEN "validated" ELSE "outputs"
           s == CASE outcome.kind = "aborted" -> append(own, "aborted")
                  [] outcome.kind \in {"threw", "nonsense"} -> append(own, "error")
                  [] OTHER -> validatorIssues(outcome)
           full == index < n /\ provenance + events + 1 >= MaxProvenanceEvents
       IN  /\ fault' = (fault \/ outcome = Aborted \/ faulty(outcome) \/ full)
           /\ IF outcome = Aborted
              THEN cut' = TRUE /\ own' = s /\ start(over) /\ UNCHANGED events
              ELSE /\ events' = events + 1 /\ UNCHANGED cut
                   /\ own' = IF full THEN append(s, "error") ELSE s
                   /\ IF index = n \/ full \/ isDiagnosticsLimitReached(s) THEN start(over)
                      ELSE index' = index + 1 /\ step' = "none" /\ outcome' = None /\ UNCHANGED stage
    /\ UNCHANGED <<signal, resultVars, adapterVars>>

(* The issues and events of the validators are added to the result. *)
Combine ==
    /\ stage \in {"validated", "outputs"}
    /\ issues' = appendBoundedIssues(issues, own)
    /\ provenance' = IF provenance + events > MaxProvenanceEvents THEN MaxProvenanceEvents
                     ELSE provenance + events
    /\ start(IF stage = "validated" THEN "piped" ELSE "combined")
    /\ UNCHANGED <<signal, reportOk, captured, delivered, ownVars, adapterVars, fault, cut>>

-----------------------------------------------------------------------------
(***************************************************************************)
(* Typed output: validateConfigOutput.                                     *)
(***************************************************************************)
ValidateOutput ==
    /\ stage = "piped"
    /\ reportOk' \in BOOLEAN
    /\ UNCHANGED <<signal, provenance, captured, delivered, adapterVars>>
    /\ IF hasError(issues) \/ ~reportOk'
       THEN start("done") /\ UNCHANGED <<issues, ownVars, fault, cut>>
       ELSE applyPipelineValidators(issues, 1, "output", "done")

(* A good result hands over the value of the output validator. *)
mayDeliver == captured /\ ~hasError(issues)

Finish ==
    /\ stage = "combined"
    /\ reportOk' \in BOOLEAN
    /\ delivered' = (mayDeliver /\ reportOk')
    /\ start("done")
    /\ UNCHANGED <<signal, issues, provenance, captured, ownVars, adapterVars, fault, cut>>

-----------------------------------------------------------------------------
Init ==
    /\ stage = "begin" /\ index = 1 /\ step = "none" /\ outcome = None /\ signal = FALSE
    /\ issues = << >> /\ provenance = 0 /\ own = << >> /\ events = 0
    /\ reportOk = TRUE /\ captured = FALSE /\ delivered = FALSE
    /\ called = {} /\ live = {} /\ fault = FALSE /\ cut = FALSE

Next ==
    \/ Call \/ Settle \/ Deliver \/ Abort \/ SettleLate
    \/ Begin \/ LoaderContinues \/ Resolve
    \/ ValidatorContinues \/ Combine \/ ValidateOutput \/ Finish

Spec == Init /\ [][Next]_vars

(* Continuations run; no adapter need ever settle. *)
Progress == Call \/ Deliver \/ Begin \/ LoaderContinues \/ Resolve
                \/ ValidatorContinues \/ Combine \/ ValidateOutput \/ Finish
FairSpec == Spec /\ WF_vars(Progress)

-----------------------------------------------------------------------------
(* Whatever an adapter did wrong, whatever did not fit and whoever was given up *)
(* makes the result an error, through all the bounds on diagnostics, and a      *)
(* value is delivered only with a good one.                                     *)
FaultsFailTheResult ==
    /\ stage = "done" /\ fault => hasError(issues)
    /\ delivered => ~fault /\ captured /\ reportOk /\ live = {}

(* An operation ended by the signal says so once, or that it could not say all; *)
(* no other operation says it.                                                  *)
AbortReportedOnce ==
    stage = "done" =>
        LET times == Cardinality({i \in 1..Len(issues) : issues[i] = "aborted"})
        IN  IF cut THEN times = 1 \/ (times = 0 /\ contains(issues, "overflow")) ELSE times = 0

(* Adapters run one at a time, and none is called once the signal has fired. *)
NoCallAfterAbort ==
    [][called' # called => ~signal /\ live = {}]_called

(* The signal ends the operation, though adapters ignore it for ever. *)
AbortEndsTheOperation == signal ~> stage = "done"
=============================================================================
