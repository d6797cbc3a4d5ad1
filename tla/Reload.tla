------------------------------- MODULE Reload -------------------------------
(***************************************************************************)
(* The configuration reloader: createReloadState of                        *)
(* packages/node/src/reload.ts, with the operation deadlines of            *)
(* operation-deadline.ts.                                                  *)
(*                                                                         *)
(* The program runs on one JavaScript thread.  A step of this module is a  *)
(* stretch of the reloader's own synchronous code, from the point where it *)
(* gets control (a call, a promise continuation, a timer, an application   *)
(* callback that returns) to the point where it gives control up.  The     *)
(* application runs in between: it calls refresh() and close() at any      *)
(* moment, from inside the callbacks load, onChange and onError too, and   *)
(* settles the promises it returned whenever it likes.                     *)
(***************************************************************************)
EXTENDS Naturals, FiniteSets

CONSTANTS
    Requests,       \* the calls of refresh()
    HasObserver     \* the application passed onChange

ASSUME RequestsFinite == IsFiniteSet(Requests)
ASSUME HasObserverBoolean == HasObserver \in BOOLEAN

VARIABLES
    closed, terminalReason,
    revision,
    snapshot,           \* the load whose frozen result is the snapshot, 0 for undefined
    running,            \* "none": undefined; "pending": its task is unresolved;
                        \* "resolved": resolved, and its continuation is still to run
    performAt,          \* where perform() stands
    loadResult,         \* what the awaited race gave, from "resume" on
    outcome,            \* what perform() is going to return, from "inNotify" on
    observerFailed,
    observerAt,         \* where the notification in progress stands
    observerResult,     \* what the awaited observer gave, while "settled"
    pendingNotification,
    (* The application's side of the calls. *)
    wait, answer,       \* of each request: whose promise it holds, and its outcome
    loads,              \* how many times load was called
    liveLoads,          \* the calls of load that have not settled yet
    liveObservers,      \* how many calls of onChange have not settled yet
    (* Auxiliary: what the properties compare. *)
    askedAt,            \* the value of loads when each request was made
    emitted,            \* the last event accepted by notify
    told                \* the last event onChange was called with

closeVars == <<closed, terminalReason>>
stateVars == <<revision, snapshot>>
performVars == <<performAt, loadResult, outcome>>
loadVars == <<loads, liveLoads>>
observerVars == <<observerAt, observerResult, liveObservers, told>>
eventVars == <<observerVars, pendingNotification, emitted>>
requestVars == <<wait, answer, askedAt>>
refreshVars == <<closeVars, stateVars, running, performVars, loadVars, requestVars>>
vars == <<refreshVars, eventVars, observerFailed>>

(***************************************************************************)
(* Values.                                                                 *)
(***************************************************************************)
Results == {"ok", "invalid", "unfreezable", "rejected"}     \* of the load callback
Rejections == {"load_failed", "load_timeout", "validation_failed", "snapshot_failed"}
StopReasons == {"closed", "load_timeout"}

NoEvent == [status |-> "none", revision |-> 0, reason |-> "none", counted |-> FALSE]
Events == [status : {"none", "updated", "rejected"}, revision : Nat,
           reason : Rejections \cup {"none"}, counted : BOOLEAN]
Outcomes == [ok : BOOLEAN, revision : Nat, reason : Rejections \cup {"none", "closed"}, load : Nat]

(* The field load of an outcome stands for the snapshot it carries. *)
Failed(reason) == [ok |-> FALSE, revision |-> revision, reason |-> reason, load |-> 0]
Bug_Uncounted(e) == e                          \* the count survives coalescing
Uncounted(e) == [e EXCEPT !.counted = FALSE]

Waiting(s) == {r \in Requests : wait[r] = s}
queued == Waiting("queued")

(* Who owns the top of the call stack. The reloader calls perform() below an    *)
(* observer at most once, and an observer below perform() only in "inNotify".   *)
Top == IF performAt \in {"inLoad", "inError"} THEN "perform"
       ELSE IF observerAt \in {"inChange", "inError"} THEN "observer"
       ELSE IF performAt = "inNotify" THEN "resume"
       ELSE "none"

(* Promise continuations run before any timer callback. *)
MicrotaskPending ==
    performAt \in {"resume", "return"} \/ running = "resolved" \/ observerAt = "settled"

TypeOK ==
    /\ closed \in BOOLEAN /\ terminalReason \in StopReasons
    /\ revision \in Nat /\ snapshot \in Nat
    /\ running \in {"none", "pending", "resolved"}
    /\ performAt \in {"idle", "inLoad", "racing", "resume", "inError", "inNotify", "return"}
    /\ loadResult \in Results \cup {"timeout", "aborted"}
    /\ outcome \in Outcomes
    /\ observerFailed \in BOOLEAN
    /\ observerAt \in {"idle", "inChange", "async", "settled", "inError"}
    /\ observerResult \in {"done", "failed", "timeout", "aborted"}
    /\ pendingNotification \in Events /\ emitted \in Events /\ told \in Events
    /\ wait \in [Requests -> {"idle", "active", "queued", "answered"}]
    /\ answer \in [Requests -> Outcomes]
    /\ loads \in Nat /\ liveLoads \in SUBSET Nat /\ liveObservers \in Nat
    /\ askedAt \in [Requests -> Nat]

-----------------------------------------------------------------------------
(***************************************************************************)
(* Notifications.                                                          *)
(***************************************************************************)

(* onChange is called with e; n other observer calls are still unsettled. *)
Deliver(e, n) ==
    /\ observerAt' = "inChange" /\ liveObservers' = n + 1 /\ told' = e
    /\ UNCHANGED observerResult

Bug_muted == observerFailed \/ ~HasObserver     \* notifies after close
muted == closed \/ observerFailed \/ ~HasObserver

notify(e) ==
    IF muted
    THEN UNCHANGED eventVars
    ELSE /\ emitted' = e
         /\ IF observerAt = "idle"
            THEN Deliver(e, liveObservers) /\ UNCHANGED pendingNotification
            ELSE /\ pendingNotification' =
                       IF pendingNotification = NoEvent THEN e ELSE Uncounted(e)
                 /\ UNCHANGED observerVars

Bug_nextNotification == NoEvent                \* read after it was reset
nextNotification == pendingNotification

(* n observer calls are unsettled once this notification is finished. *)
finishNotification(n) ==
    /\ pendingNotification' = NoEvent
    /\ IF nextNotification = NoEvent \/ muted
       THEN observerAt' = "idle" /\ liveObservers' = n /\ UNCHANGED <<told, observerResult>>
       ELSE Deliver(nextNotification, n)
    /\ UNCHANGED emitted

(* A failure is reported through onError, unless closed, before it is finished. *)
observerFailure(n) ==
    IF closed THEN finishNotification(n)
    ELSE /\ observerAt' = "inError" /\ liveObservers' = n
         /\ UNCHANGED <<observerResult, told, pendingNotification, emitted>>

-----------------------------------------------------------------------------
(***************************************************************************)
(* Starting, completing and stopping.                                      *)
(***************************************************************************)
Settle(S, o) ==
    /\ wait' = [r \in Requests |-> IF r \in S THEN "answered" ELSE wait[r]]
    /\ answer' = [r \in Requests |-> IF r \in S THEN o ELSE answer[r]]

(* The running slot is claimed, then load is called; S holds the task's promise. *)
start(S) ==
    /\ running' = "pending"
    /\ performAt' = "inLoad" /\ UNCHANGED <<loadResult, outcome>>
    /\ loads' = loads + 1 /\ liveLoads' = liveLoads \cup {loads + 1}
    /\ wait' = [r \in Requests |-> IF r \in S THEN "active" ELSE wait[r]]
    /\ UNCHANGED answer

Bug_unresolved == Waiting("active")            \* the queued promise is forgotten
unresolved == Waiting("active") \cup queued

(* The effects of stop on everything but perform(): cancelling resolves the    *)
(* active task, the queued promise is resolved, an awaited observer is aborted. *)
stop(reason) ==
    /\ closed' = TRUE /\ terminalReason' = reason
    /\ pendingNotification' = NoEvent
    /\ IF observerAt = "async"
       THEN observerAt' = "settled" /\ observerResult' = "aborted"
       ELSE UNCHANGED <<observerAt, observerResult>>
    /\ running' = IF running = "pending" THEN "resolved" ELSE running
    /\ Settle(unresolved, Failed(reason))
    /\ UNCHANGED <<liveObservers, told, emitted, askedAt>>

-----------------------------------------------------------------------------
(***************************************************************************)
(* The application calls the controller.                                   *)
(***************************************************************************)
Bug_joined == "active"                         \* shares the running task's promise
joined == "queued"

refresh(r) ==
    /\ Top # "resume" /\ wait[r] = "idle"
    /\ askedAt' = [askedAt EXCEPT ![r] = loads]
    /\ \/ /\ closed
          /\ Settle({r}, Failed(terminalReason))
          /\ UNCHANGED <<running, performVars, loadVars>>
       \/ /\ ~closed /\ running = "none"
          /\ start({r})
       \/ /\ ~closed /\ running # "none"
          /\ wait' = [wait EXCEPT ![r] = joined]
          /\ UNCHANGED <<answer, running, performVars, loadVars>>
    /\ UNCHANGED <<closeVars, stateVars, eventVars, observerFailed>>

(* close(), or the abort of the lifetime signal: a race that is still undecided *)
(* is lost to the cancellation.                                                 *)
close ==
    /\ Top # "resume" /\ ~closed
    /\ stop("closed")
    /\ IF performAt = "racing"
       THEN performAt' = "resume" /\ loadResult' = "aborted"
       ELSE UNCHANGED <<performAt, loadResult>>
    /\ UNCHANGED <<outcome, stateVars, loadVars, observerFailed>>

-----------------------------------------------------------------------------
(***************************************************************************)
(* perform(): the callback load, its race with the deadline and what       *)
(* follows.                                                                *)
(***************************************************************************)

(* load returns its promise. The deadline may be cancelled already. *)
LoadReturns ==
    /\ performAt = "inLoad"
    /\ IF closed THEN performAt' = "resume" /\ loadResult' = "aborted"
       ELSE performAt' = "racing" /\ UNCHANGED loadResult
    /\ UNCHANGED <<closeVars, stateVars, running, outcome, loadVars,
                   eventVars, observerFailed, requestVars>>

(* load throws synchronously. *)
LoadThrows ==
    /\ performAt = "inLoad"
    /\ liveLoads' = liveLoads \ {loads}
    /\ IF closed
       THEN performAt' = "return" /\ outcome' = Failed(terminalReason) /\ UNCHANGED loadResult
       ELSE performAt' = "inError" /\ loadResult' = "rejected" /\ UNCHANGED outcome
    /\ UNCHANGED <<closeVars, stateVars, running, loads, eventVars, observerFailed, requestVars>>

(* A promise returned by load settles; only the one perform() awaits matters. *)
LoadSettles(l, result) ==
    /\ Top # "resume" /\ l \in liveLoads
    /\ ~(performAt = "inLoad" /\ l = loads)
    /\ liveLoads' = liveLoads \ {l}
    /\ IF performAt = "racing" /\ l = loads
       THEN performAt' = "resume" /\ loadResult' = result
       ELSE UNCHANGED <<performAt, loadResult>>
    /\ UNCHANGED <<closeVars, stateVars, running, outcome, loads,
                   eventVars, observerFailed, requestVars>>

Bug_LoadTimesOut == FALSE                      \* the timer is lost
LoadTimesOut ==
    /\ Top = "none" /\ ~MicrotaskPending
    /\ performAt = "racing"
    /\ performAt' = "resume" /\ loadResult' = "timeout"
    /\ UNCHANGED <<closeVars, stateVars, running, outcome, loadVars,
                   eventVars, observerFailed, requestVars>>

ReasonOf(result) ==
    CASE result = "timeout" -> "load_timeout"
      [] result = "invalid" -> "validation_failed"
      [] result = "unfreezable" -> "snapshot_failed"
      [] OTHER -> "load_failed"

(* An observer on the stack called refresh(), and so perform(): its notification *)
(* is in progress, and perform() returns to it at once.                          *)
afterNotify == IF observerAt \in {"inChange", "inError"} THEN "return" ELSE "inNotify"

Rejected(reason) ==
    [status |-> "rejected", revision |-> revision, reason |-> reason, counted |-> FALSE]

reject(reason) ==
    /\ notify(Rejected(reason))
    /\ performAt' = afterNotify /\ outcome' = Failed(reason)

Loaded == [ok |-> TRUE, revision |-> revision + 1, reason |-> "none", load |-> loads]

(* The comparison with the previous snapshot may or may not yield a count. *)
Publish(counted) ==
    /\ counted => snapshot # 0
    /\ snapshot' = loads /\ revision' = revision + 1
    /\ notify([status |-> "updated", revision |-> revision + 1,
               reason |-> "none", counted |-> counted])
    /\ performAt' = "inNotify" /\ outcome' = Loaded

(* perform() continues after its await. *)
PerformResumes ==
    /\ Top = "none" /\ performAt = "resume"
    /\ \/ /\ closed
          /\ performAt' = "return" /\ outcome' = Failed(terminalReason)
          /\ UNCHANGED <<stateVars, eventVars>>
       \/ /\ ~closed /\ loadResult \notin {"ok", "invalid"}
          /\ performAt' = "inError"
          /\ UNCHANGED <<outcome, stateVars, eventVars>>
       \/ /\ ~closed /\ loadResult = "invalid"
          /\ reject("validation_failed")
          /\ UNCHANGED stateVars
       \/ /\ ~closed /\ loadResult = "ok"
          /\ \E counted \in BOOLEAN : Publish(counted)
    /\ UNCHANGED <<closeVars, running, loadResult, loadVars, observerFailed, requestVars>>

(* onError returns, or throws, which is the same: the failure is rejected. *)
PerformErrorReturns ==
    /\ performAt = "inError"
    /\ reject(ReasonOf(loadResult))
    /\ UNCHANGED <<closeVars, stateVars, running, loadResult, loadVars, observerFailed, requestVars>>

Bug_stopsAfterTimeout == FALSE                 \* goes on after an abandoned load
stopsAfterTimeout == loadResult = "timeout" /\ ~closed

(* notify has returned to perform(), which stops after a timeout and returns. *)
PerformContinues ==
    /\ Top = "resume"
    /\ IF stopsAfterTimeout
       THEN stop("load_timeout")
       ELSE UNCHANGED <<closeVars, running, eventVars, requestVars>>
    /\ performAt' = "return"
    /\ UNCHANGED <<stateVars, loadResult, outcome, loadVars, observerFailed>>

(* The promise of perform() resolves the task, unless stop has done it. *)
complete ==
    /\ Top = "none" /\ performAt = "return"
    /\ performAt' = "idle" /\ UNCHANGED <<loadResult, outcome>>
    /\ IF running = "pending"
       THEN /\ running' = "resolved"
            /\ Settle(Waiting("active"), outcome)
       ELSE UNCHANGED <<running, wait, answer>>
    /\ UNCHANGED <<closeVars, stateVars, loadVars, eventVars, observerFailed, askedAt>>

(* The task's own continuation frees the slot and starts the queued refresh. *)
TaskContinues ==
    /\ Top = "none" /\ running = "resolved"
    /\ IF queued = {}
       THEN running' = "none" /\ UNCHANGED <<performVars, loadVars, wait, answer>>
       ELSE IF closed
       THEN /\ running' = "none"
            /\ Settle(queued, Failed(terminalReason))
            /\ UNCHANGED <<performVars, loadVars>>
       ELSE start(queued)
    /\ UNCHANGED <<closeVars, stateVars, eventVars, observerFailed, askedAt>>

-----------------------------------------------------------------------------
(***************************************************************************)
(* The observer onChange.                                                  *)
(***************************************************************************)
ObserverReturns ==
    /\ Top = "observer" /\ observerAt = "inChange"
    /\ finishNotification(liveObservers - 1)
    /\ UNCHANGED <<refreshVars, observerFailed>>

ObserverThrows ==
    /\ Top = "observer" /\ observerAt = "inChange"
    /\ observerFailure(liveObservers - 1)
    /\ UNCHANGED <<refreshVars, observerFailed>>

(* onChange returns a promise, and the notification goes on in the background. *)
ObserverReturnsPromise ==
    /\ Top = "observer" /\ observerAt = "inChange"
    /\ IF closed THEN observerAt' = "settled" /\ observerResult' = "aborted"
       ELSE observerAt' = "async" /\ UNCHANGED observerResult
    /\ UNCHANGED <<liveObservers, told, pendingNotification, emitted>>
    /\ UNCHANGED <<refreshVars, observerFailed>>

ObserverErrorReturns ==
    /\ Top = "observer" /\ observerAt = "inError"
    /\ finishNotification(liveObservers)
    /\ UNCHANGED <<refreshVars, observerFailed>>

ObserverSettles(result) ==
    /\ Top # "resume" /\ observerAt = "async"
    /\ observerAt' = "settled" /\ observerResult' = result
    /\ liveObservers' = liveObservers - 1
    /\ UNCHANGED <<told, pendingNotification, emitted>>
    /\ UNCHANGED <<refreshVars, observerFailed>>

(* The promise of an observer nobody waits for any more. *)
LateObserverSettles ==
    /\ Top # "resume"
    /\ liveObservers > (IF observerAt \in {"inChange", "async"} THEN 1 ELSE 0)
    /\ liveObservers' = liveObservers - 1
    /\ UNCHANGED <<observerAt, observerResult, told, pendingNotification, emitted>>
    /\ UNCHANGED <<refreshVars, observerFailed>>

ObserverTimesOut ==
    /\ Top = "none" /\ ~MicrotaskPending
    /\ observerAt = "async"
    /\ observerAt' = "settled" /\ observerResult' = "timeout"
    /\ UNCHANGED <<liveObservers, told, pendingNotification, emitted>>
    /\ UNCHANGED <<refreshVars, observerFailed>>

Bug_timedOut == FALSE                          \* a timeout is a failure like any other
timedOut == observerResult = "timeout"

(* The continuation of waitFor. After a timeout no event is delivered any more. *)
ObserverResumes ==
    /\ Top = "none" /\ observerAt = "settled"
    /\ \/ /\ observerResult = "done"
          /\ finishNotification(liveObservers)
          /\ UNCHANGED observerFailed
       \/ /\ observerResult # "done" /\ ~timedOut
          /\ observerFailure(liveObservers)
          /\ UNCHANGED observerFailed
       \/ /\ timedOut
          /\ observerFailed' = TRUE /\ pendingNotification' = NoEvent
          /\ observerAt' = IF closed THEN "idle" ELSE "inError"
          /\ UNCHANGED <<observerResult, liveObservers, told, emitted>>
    /\ UNCHANGED refreshVars

-----------------------------------------------------------------------------
(* The lifetime signal may be aborted before the reloader is created. *)
Init ==
    /\ closed \in BOOLEAN /\ terminalReason = "closed"
    /\ revision = 0 /\ snapshot = 0
    /\ running = "none"
    /\ performAt = "idle" /\ loadResult = "ok" /\ outcome = Failed("none")
    /\ observerFailed = FALSE
    /\ observerAt = "idle" /\ observerResult = "done"
    /\ pendingNotification = NoEvent
    /\ wait = [r \in Requests |-> "idle"]
    /\ answer = [r \in Requests |-> Failed("none")]
    /\ loads = 0 /\ liveLoads = {} /\ liveObservers = 0
    /\ askedAt = [r \in Requests |-> 0]
    /\ emitted = NoEvent /\ told = NoEvent

(* What the application does. *)
Application ==
    \/ \E r \in Requests : refresh(r)
    \/ close
    \/ \E l \in liveLoads, result \in Results : LoadSettles(l, result)
    \/ \E result \in {"done", "failed"} : ObserverSettles(result)
    \/ LateObserverSettles

(* Synchronous callbacks end. *)
LoadCallEnds == LoadReturns \/ LoadThrows
ObserverCallEnds == ObserverReturns \/ ObserverThrows \/ ObserverReturnsPromise

Next ==
    \/ Application
    \/ LoadCallEnds \/ ObserverCallEnds \/ PerformErrorReturns \/ ObserverErrorReturns
    \/ PerformResumes \/ PerformContinues \/ complete \/ TaskContinues \/ ObserverResumes
    \/ LoadTimesOut \/ ObserverTimesOut

Spec == Init /\ [][Next]_vars

(* Callbacks run to their end, continuations run, timers fire. The application *)
(* need not settle any promise, nor ask for anything.                          *)
Fairness ==
    /\ WF_vars(LoadCallEnds) /\ WF_vars(ObserverCallEnds)
    /\ WF_vars(PerformErrorReturns) /\ WF_vars(ObserverErrorReturns)
    /\ WF_vars(PerformResumes) /\ WF_vars(PerformContinues)
    /\ WF_vars(complete) /\ WF_vars(TaskContinues) /\ WF_vars(ObserverResumes)
    /\ WF_vars(LoadTimesOut) /\ WF_vars(ObserverTimesOut)

FairSpec == Spec /\ Fairness
-----------------------------------------------------------------------------
(***************************************************************************)
(* What the reloader guarantees.                                           *)
(***************************************************************************)

(* The application's load is never called while an earlier call of it is still *)
(* unsettled, abandoned calls after a timeout or a close included.             *)
NoOverlappingLoads == Cardinality(liveLoads) <= 1

(* At most one call of the observer is unsettled, also when the deadline has   *)
(* given up on an observer that ignores its signal.                            *)
NoOverlappingObservers == liveObservers <= 1

(* A successful refresh is answered by the very next load begun after it was   *)
(* asked: never by the load that was running then, never by a later one.       *)
NextLoadAnswers ==
    \A r \in Requests :
        wait[r] = "answered" /\ answer[r].ok => answer[r].load = askedAt[r] + 1

(* Once closed, no refresh promise is left unresolved, whatever load, observer *)
(* or continuation is still under way.                                         *)
CloseAnswersEverything ==
    closed => \A r \in Requests : wait[r] \notin {"active", "queued"}

(* When no notification is in progress the observer has been called with the   *)
(* last event there was, at most its count omitted: coalescing loses no state. *)
ObserverUpToDate ==
    HasObserver /\ ~closed /\ ~observerFailed /\ observerAt = "idle" =>
        /\ told \in {emitted, Uncounted(emitted)}
        /\ told.revision = revision

(* A closed reloader is silent: no call of load or onChange begins, and the    *)
(* snapshot and its revision stay.                                             *)
SilentAfterClose ==
    [][closed => closed' /\ UNCHANGED <<terminalReason, stateVars, loads, told>>]_vars

(* A change count is delivered only to an observer whose previous event told   *)
(* the revision the count is relative to.                                      *)
CountRelativeToLastEvent ==
    [][told'.counted /\ told' # told => told'.revision = told.revision + 1]_told

(* Every refresh is answered, even when load never settles.                    *)
EveryRefreshAnswered ==
    \A r \in Requests : wait[r] \in {"active", "queued"} ~> wait[r] = "answered"

(* An observer that is behind is called again, unless the reloader is closed   *)
(* or the observer timed out.                                                  *)
ObserverCatchesUp ==
    told.revision < emitted.revision ~>
        (told.revision = emitted.revision \/ closed \/ observerFailed)

(* The reloader implements the abstract refresh service.                       *)
Stage(w) == CASE w = "active" -> "served" [] w = "queued" -> "waiting" [] OTHER -> w
Reply(a) == [ok |-> a.ok, version |-> a.revision, reason |-> a.reason, load |-> a.load]

Service == INSTANCE RefreshService WITH
    LoadFailures <- Rejections \ {"load_timeout"}, ShutReasons <- StopReasons,
    open <- ~closed, shutReason <- terminalReason,
    stage <- [r \in Requests |-> Stage(wait[r])],
    reply <- [r \in Requests |-> Reply(answer[r])],
    begun <- loads, published <- snapshot, version <- revision

ImplementsService == Service!Spec
=============================================================================
