---------------------------- MODULE ReloadProofs ----------------------------
(***************************************************************************)
(* Theorems about the reloader, for any number of refresh() calls.         *)
(***************************************************************************)
EXTENDS Reload, FiniteSetTheorems, TLAPS

LEMMA FailedType ==
    ASSUME TypeOK, NEW reason \in Rejections \cup {"none", "closed"}
    PROVE  Failed(reason) \in Outcomes
BY DEF Failed, Outcomes, TypeOK

LEMMA UncountedType ==
    ASSUME NEW e \in Events PROVE Uncounted(e) \in Events
BY DEF Uncounted, Events

LEMMA NoEventType == NoEvent \in Events
BY DEF NoEvent, Events

(* An observer call that may still settle is counted: the count is not below 0. *)
ObserverCounted == observerAt \in {"inChange", "async"} => liveObservers # 0

(* What the operators that actions share do to the types of the variables. *)
LEMMA NotifyType ==
    ASSUME TypeOK, ObserverCounted, NEW e \in Events, notify(e)
    PROVE  /\ observerAt' \in {"idle", "inChange", "async", "settled", "inError"}
           /\ observerResult' \in {"done", "failed", "timeout", "aborted"}
           /\ pendingNotification' \in Events /\ emitted' \in Events /\ told' \in Events
           /\ liveObservers' \in Nat
           /\ observerAt' \in {"inChange", "async"} => liveObservers' # 0
BY UncountedType DEF TypeOK, ObserverCounted, notify, Deliver, eventVars, observerVars

LEMMA FinishType ==
    ASSUME TypeOK, NEW n \in Nat, finishNotification(n)
    PROVE  /\ observerAt' \in {"idle", "inChange", "async", "settled", "inError"}
           /\ observerResult' \in {"done", "failed", "timeout", "aborted"}
           /\ pendingNotification' \in Events /\ emitted' \in Events /\ told' \in Events
           /\ liveObservers' \in Nat
           /\ observerAt' \in {"inChange", "async"} => liveObservers' # 0
BY NoEventType DEF TypeOK, finishNotification, Deliver, nextNotification

LEMMA FailureType ==
    ASSUME TypeOK, NEW n \in Nat, observerFailure(n)
    PROVE  /\ observerAt' \in {"idle", "inChange", "async", "settled", "inError"}
           /\ observerResult' \in {"done", "failed", "timeout", "aborted"}
           /\ pendingNotification' \in Events /\ emitted' \in Events /\ told' \in Events
           /\ liveObservers' \in Nat
           /\ observerAt' \in {"inChange", "async"} => liveObservers' # 0
BY FinishType DEF TypeOK, observerFailure

LEMMA SettleType ==
    ASSUME TypeOK, NEW S, NEW o \in Outcomes, Settle(S, o)
    PROVE  /\ wait' \in [Requests -> {"idle", "active", "queued", "answered"}]
           /\ answer' \in [Requests -> Outcomes]
BY DEF TypeOK, Settle

LEMMA StartType ==
    ASSUME TypeOK, NEW S, start(S)
    PROVE  /\ wait' \in [Requests -> {"idle", "active", "queued", "answered"}]
           /\ loads' \in Nat /\ liveLoads' \in SUBSET Nat
<1>1. wait' \in [Requests -> {"idle", "active", "queued", "answered"}]
  BY DEF TypeOK, start
<1>2. loads' \in Nat /\ liveLoads' \in SUBSET Nat
  BY DEF TypeOK, start
<1> QED BY <1>1, <1>2

(* Each variable keeps its type. *)
THEOREM TypeCorrect == Spec => []TypeOK
<1> DEFINE Inv == TypeOK /\ ObserverCounted
<1>1. Init => Inv
  <2> SUFFICES ASSUME Init PROVE Inv
    OBVIOUS
  <2>1. Failed("none") \in Outcomes
    BY DEF Init, Failed, Outcomes
  <2>2. QED
    BY <2>1, NoEventType DEF Init, TypeOK, ObserverCounted, Results, StopReasons
<1>2. Inv /\ [Next]_vars => Inv'
  <2> SUFFICES ASSUME TypeOK, ObserverCounted, [Next]_vars PROVE TypeOK' /\ ObserverCounted'
    OBVIOUS
  <2> USE DEF refreshVars, closeVars, stateVars, performVars, loadVars, requestVars,
              observerVars, eventVars
  <2>1. ASSUME NEW r \in Requests, refresh(r) PROVE Inv'
    <3>1. CASE closed
      BY <2>1, <3>1, SettleType, FailedType
      DEF refresh, TypeOK, ObserverCounted, StopReasons, Rejections
    <3>2. CASE ~closed /\ running = "none"
      <4>1. start({r}) /\ askedAt' \in [Requests -> Nat]
        BY <2>1, <3>2 DEF refresh, TypeOK
      <4>2. QED
        BY <2>1, <4>1, StartType DEF refresh, start, TypeOK, ObserverCounted
    <3>3. CASE ~closed /\ running # "none"
      BY <2>1, <3>3 DEF refresh, joined, TypeOK, ObserverCounted
    <3>4. QED BY <3>1, <3>2, <3>3
  <2>2. CASE close
    BY <2>2, SettleType, FailedType, NoEventType
    DEF close, stop, TypeOK, ObserverCounted, StopReasons, Rejections
  <2>3. ASSUME NEW l \in liveLoads, NEW result \in Results, LoadSettles(l, result)
        PROVE  Inv'
    BY <2>3 DEF LoadSettles, TypeOK, ObserverCounted
  <2>4. ASSUME NEW result \in {"done", "failed"}, ObserverSettles(result) PROVE Inv'
    BY <2>4 DEF ObserverSettles, TypeOK, ObserverCounted
  <2>5. CASE LateObserverSettles
    BY <2>5 DEF LateObserverSettles, TypeOK, ObserverCounted
  <2>6. CASE LoadCallEnds
    <3>1. CASE LoadReturns
      BY <3>1 DEF LoadReturns, TypeOK, ObserverCounted
    <3>2. CASE LoadThrows
      BY <3>2, FailedType
      DEF LoadThrows, TypeOK, ObserverCounted, Results, StopReasons, Rejections
    <3>3. QED BY <2>6, <3>1, <3>2 DEF LoadCallEnds
  <2>7. CASE ObserverCallEnds
    <3>1. CASE ObserverReturns
      BY <3>1, FinishType DEF ObserverReturns, TypeOK, ObserverCounted
    <3>2. CASE ObserverThrows
      BY <3>2, FailureType DEF ObserverThrows, TypeOK, ObserverCounted
    <3>3. CASE ObserverReturnsPromise
      BY <3>3 DEF ObserverReturnsPromise, TypeOK, ObserverCounted
    <3>4. QED BY <2>7, <3>1, <3>2, <3>3 DEF ObserverCallEnds
  <2>8. CASE PerformErrorReturns
    <3>1. ReasonOf(loadResult) \in Rejections
      BY DEF ReasonOf, Rejections
    <3>2. Rejected(ReasonOf(loadResult)) \in Events
      BY <3>1 DEF Rejected, Events, TypeOK
    <3>3. QED
      BY <2>8, <3>1, <3>2, NotifyType, FailedType
      DEF PerformErrorReturns, reject, afterNotify, TypeOK, ObserverCounted
  <2>9. CASE ObserverErrorReturns
    BY <2>9, FinishType DEF ObserverErrorReturns, TypeOK, ObserverCounted
  <2>10. CASE PerformResumes
    <3>1. "validation_failed" \in Rejections /\ "snapshot_failed" \in Rejections
      BY DEF Rejections
    <3>2. Rejected("validation_failed") \in Events
      BY <3>1 DEF Rejected, Events, TypeOK
    <3>3. ASSUME NEW counted \in BOOLEAN
          PROVE  [status |-> "updated", revision |-> revision + 1,
                  reason |-> "none", counted |-> counted] \in Events
      BY DEF Events, TypeOK
    <3>4. Loaded \in Outcomes
      BY DEF Loaded, Outcomes, TypeOK
    <3>5. CASE closed
      BY <2>10, <3>5, FailedType DEF PerformResumes, TypeOK, ObserverCounted, StopReasons, Rejections
    <3>6. CASE ~closed /\ loadResult \notin {"ok", "invalid"}
      BY <2>10, <3>6 DEF PerformResumes, TypeOK, ObserverCounted
    <3>7. CASE ~closed /\ loadResult = "invalid"
      BY <2>10, <3>7, <3>1, <3>2, NotifyType, FailedType
      DEF PerformResumes, reject, afterNotify, TypeOK, ObserverCounted
    <3>8. CASE ~closed /\ loadResult = "ok"
      <4>1. PICK counted \in BOOLEAN : Publish(counted)
        BY <2>10, <3>8 DEF PerformResumes
      <4>2. QED
        BY <2>10, <3>8, <4>1, <3>3, <3>4, NotifyType DEF PerformResumes, Publish, TypeOK, ObserverCounted
    <3>9. QED BY <3>5, <3>6, <3>7, <3>8
  <2>11. CASE PerformContinues
    <3>1. CASE stopsAfterTimeout
      BY <2>11, <3>1, SettleType, FailedType, NoEventType
      DEF PerformContinues, stop, TypeOK, ObserverCounted, StopReasons, Rejections
    <3>2. CASE ~stopsAfterTimeout
      BY <2>11, <3>2 DEF PerformContinues, TypeOK, ObserverCounted
    <3>3. QED BY <3>1, <3>2
  <2>12. CASE complete
    BY <2>12, SettleType DEF complete, TypeOK, ObserverCounted
  <2>13. CASE TaskContinues
    <3>1. CASE closed \/ queued = {}
      BY <2>13, <3>1, SettleType, FailedType
      DEF TaskContinues, TypeOK, ObserverCounted, StopReasons, Rejections
    <3>2. CASE ~closed /\ queued # {}
      BY <2>13, <3>2, StartType DEF TaskContinues, start, TypeOK, ObserverCounted
    <3>3. QED BY <3>1, <3>2
  <2>14. CASE ObserverResumes
    BY <2>14, FinishType, FailureType, NoEventType DEF ObserverResumes, TypeOK, ObserverCounted
  <2>15. CASE LoadTimesOut
    BY <2>15 DEF LoadTimesOut, TypeOK, ObserverCounted
  <2>16. CASE ObserverTimesOut
    BY <2>16 DEF ObserverTimesOut, TypeOK, ObserverCounted
  <2>17. CASE UNCHANGED vars
    BY <2>17 DEF vars, TypeOK, ObserverCounted
  <2>18. QED
    BY <2>1, <2>2, <2>3, <2>4, <2>5, <2>6, <2>7, <2>8, <2>9, <2>10, <2>11, <2>12,
       <2>13, <2>14, <2>15, <2>16, <2>17 DEF Next, Application
<1>3. QED BY <1>1, <1>2, PTL DEF Spec

(***************************************************************************)
(* Loads never overlap. The slot is free only when perform() has returned, *)
(* and perform() of an open reloader returns only when its load has        *)
(* settled, or after a timeout, which stops the reloader.                  *)
(***************************************************************************)
LoadInv ==
    /\ liveLoads \subseteq {loads}
    /\ ~closed /\ running # "pending" => performAt = "idle"
    /\ \/ closed
       \/ performAt \in {"inLoad", "racing"}
       \/ performAt \in {"resume", "inError", "inNotify"} /\ loadResult = "timeout"
       \/ liveLoads = {}
    /\ performAt = "inError" /\ loadResult = "timeout" =>
           observerAt \notin {"inChange", "inError"}

LEMMA LoadInvCorrect == Spec => []LoadInv
<1>1. Init => LoadInv
  BY DEF Init, LoadInv
<1>2. TypeOK /\ LoadInv /\ [Next]_vars => LoadInv'
  <2> SUFFICES ASSUME TypeOK, LoadInv, [Next]_vars PROVE LoadInv'
    OBVIOUS
  <2> USE DEF refreshVars, closeVars, stateVars, performVars, loadVars, requestVars,
              observerVars, eventVars
  <2>1. ASSUME NEW r \in Requests, refresh(r)
        PROVE  LoadInv'
    BY <2>1 DEF refresh, start, joined, LoadInv
  <2>2. CASE close
    BY <2>2 DEF close, stop, LoadInv
  <2>3. ASSUME NEW l \in liveLoads, NEW result \in Results, LoadSettles(l, result)
        PROVE  LoadInv'
    BY <2>3 DEF LoadSettles, LoadInv
  <2>4. ASSUME NEW result \in {"done", "failed"}, ObserverSettles(result)
        PROVE  LoadInv'
    BY <2>4 DEF ObserverSettles, LoadInv
  <2>5. CASE LateObserverSettles
    BY <2>5 DEF LateObserverSettles, LoadInv
  <2>6. CASE LoadReturns
    BY <2>6 DEF LoadReturns, LoadInv
  <2>7. CASE LoadThrows
    BY <2>7 DEF LoadThrows, LoadInv
  <2>8. CASE ObserverReturns
    BY <2>8 DEF ObserverReturns, finishNotification, Deliver, LoadInv, Top
  <2>9. CASE ObserverThrows
    BY <2>9 DEF ObserverThrows, observerFailure, finishNotification, Deliver, LoadInv, Top
  <2>10. CASE ObserverReturnsPromise
    BY <2>10 DEF ObserverReturnsPromise, LoadInv
  <2>11. CASE PerformErrorReturns
    BY <2>11 DEF PerformErrorReturns, reject, afterNotify, LoadInv
  <2>12. CASE ObserverErrorReturns
    BY <2>12 DEF ObserverErrorReturns, finishNotification, Deliver, LoadInv, Top
  <2>13. CASE PerformResumes
    BY <2>13 DEF PerformResumes, reject, Publish, afterNotify, LoadInv, Top, TypeOK
  <2>14. CASE PerformContinues
    BY <2>14 DEF PerformContinues, stop, stopsAfterTimeout, LoadInv, Top
  <2>15. CASE complete
    BY <2>15 DEF complete, LoadInv
  <2>16. CASE TaskContinues
    BY <2>16 DEF TaskContinues, start, LoadInv
  <2>17. CASE ObserverResumes
    BY <2>17 DEF ObserverResumes, observerFailure, finishNotification, Deliver, LoadInv, Top
  <2>18. CASE LoadTimesOut
    BY <2>18 DEF LoadTimesOut, LoadInv
  <2>19. CASE ObserverTimesOut
    BY <2>19 DEF ObserverTimesOut, LoadInv
  <2>20. CASE UNCHANGED vars
    BY <2>20 DEF vars, LoadInv
  <2> QED
    BY <2>1, <2>2, <2>3, <2>4, <2>5, <2>6, <2>7, <2>8, <2>9, <2>10, <2>11,
       <2>12, <2>13, <2>14, <2>15, <2>16, <2>17, <2>18, <2>19, <2>20
    DEF Next, Application, LoadCallEnds, ObserverCallEnds
<1>3. QED BY <1>1, <1>2, TypeCorrect, PTL DEF Spec

(* The application's load is never called while an earlier call is unsettled,  *)
(* whatever timeouts, closes and abandoned calls there were.                   *)
THEOREM LoadsNeverOverlap == Spec => []NoOverlappingLoads
<1>1. LoadInv => NoOverlappingLoads
  <2> SUFFICES ASSUME LoadInv PROVE Cardinality(liveLoads) <= 1
    BY DEF NoOverlappingLoads
  <2>1. liveLoads = {} \/ liveLoads = {loads}
    BY DEF LoadInv
  <2>2. Cardinality({}) = 0 /\ Cardinality({loads}) = 1
    BY FS_EmptySet, FS_Singleton
  <2>3. QED BY <2>1, <2>2
<1>2. QED BY <1>1, LoadInvCorrect, PTL

(***************************************************************************)
(* Requests. Only the latest load can have an active request, asked before *)
(* it began and after its predecessor did; a queued one was asked while    *)
(* the latest load was the last.                                           *)
(***************************************************************************)
RequestInv ==
    /\ \A r \in Requests :
        /\ wait[r] = "active" =>
               ~closed /\ running = "pending" /\ askedAt[r] + 1 = loads
        /\ wait[r] = "queued" => ~closed /\ running # "none" /\ askedAt[r] = loads
        /\ wait[r] = "answered" /\ answer[r].ok => answer[r].load = askedAt[r] + 1
    /\ performAt \in {"inNotify", "return"} /\ outcome.ok => outcome.load = loads

LEMMA RequestInvCorrect == Spec => []RequestInv
<1>1. Init => RequestInv
  BY DEF Init, RequestInv
<1>2. TypeOK /\ RequestInv /\ [Next]_vars => RequestInv'
  <2> SUFFICES ASSUME TypeOK, RequestInv, [Next]_vars PROVE RequestInv'
    OBVIOUS
  <2> USE DEF refreshVars, closeVars, stateVars, performVars, loadVars, requestVars,
              observerVars, eventVars
  <2>1. ASSUME NEW r \in Requests, refresh(r)
        PROVE  RequestInv'
    BY <2>1 DEF refresh, start, joined, Settle, Failed, RequestInv, TypeOK
  <2>2. CASE close
    BY <2>2 DEF close, stop, unresolved, queued, Waiting, Settle, Failed, RequestInv, TypeOK
  <2>3. ASSUME NEW l \in liveLoads, NEW result \in Results, LoadSettles(l, result)
        PROVE  RequestInv'
    BY <2>3 DEF LoadSettles, RequestInv
  <2>4. ASSUME NEW result \in {"done", "failed"}, ObserverSettles(result)
        PROVE  RequestInv'
    BY <2>4 DEF ObserverSettles, RequestInv
  <2>5. CASE LateObserverSettles
    BY <2>5 DEF LateObserverSettles, RequestInv
  <2>6. CASE LoadReturns
    BY <2>6 DEF LoadReturns, RequestInv
  <2>7. CASE LoadThrows
    BY <2>7 DEF LoadThrows, Failed, RequestInv
  <2>8. CASE ObserverReturns
    BY <2>8 DEF ObserverReturns, RequestInv
  <2>9. CASE ObserverThrows
    BY <2>9 DEF ObserverThrows, RequestInv
  <2>10. CASE ObserverReturnsPromise
    BY <2>10 DEF ObserverReturnsPromise, RequestInv
  <2>11. CASE PerformErrorReturns
    BY <2>11 DEF PerformErrorReturns, reject, afterNotify, Failed, RequestInv
  <2>12. CASE ObserverErrorReturns
    BY <2>12 DEF ObserverErrorReturns, RequestInv
  <2>13. CASE PerformResumes
    <3>1. UNCHANGED <<closed, running, loads, wait, answer, askedAt>>
      BY <2>13 DEF PerformResumes
    <3>2. performAt' \in {"inNotify", "return"} /\ outcome'.ok => outcome'.load = loads
      <4>1. CASE closed \/ loadResult # "ok"
        BY <2>13, <4>1 DEF PerformResumes, reject, Failed
      <4>2. CASE ~closed /\ loadResult = "ok"
        <5>1. PICK counted \in BOOLEAN : Publish(counted)
          BY <2>13, <4>2 DEF PerformResumes
        <5>2. outcome' = Loaded /\ UNCHANGED loads
          BY <2>13, <5>1 DEF PerformResumes, Publish
        <5>3. QED BY <5>2 DEF Loaded
      <4>3. QED BY <4>1, <4>2
    <3>3. QED BY <3>1, <3>2 DEF RequestInv
  <2>14. CASE PerformContinues
    <3>1. CASE stopsAfterTimeout
      BY <2>14, <3>1 DEF PerformContinues, stop, unresolved, queued, Waiting, Settle, Failed,
                        RequestInv, TypeOK, Top
    <3>2. CASE ~stopsAfterTimeout
      BY <2>14, <3>2 DEF PerformContinues, RequestInv, Top
    <3>3. QED BY <3>1, <3>2
  <2>15. CASE complete
    BY <2>15 DEF complete, Waiting, Settle, RequestInv, TypeOK
  <2>16. CASE TaskContinues
    BY <2>16 DEF TaskContinues, start, queued, Waiting, Settle, RequestInv, TypeOK
  <2>17. CASE ObserverResumes
    BY <2>17 DEF ObserverResumes, RequestInv
  <2>18. CASE LoadTimesOut
    BY <2>18 DEF LoadTimesOut, RequestInv
  <2>19. CASE ObserverTimesOut
    BY <2>19 DEF ObserverTimesOut, RequestInv
  <2>20. CASE UNCHANGED vars
    BY <2>20 DEF vars, RequestInv
  <2> QED
    BY <2>1, <2>2, <2>3, <2>4, <2>5, <2>6, <2>7, <2>8, <2>9, <2>10, <2>11,
       <2>12, <2>13, <2>14, <2>15, <2>16, <2>17, <2>18, <2>19, <2>20
    DEF Next, Application, LoadCallEnds, ObserverCallEnds
<1>3. QED BY <1>1, <1>2, TypeCorrect, PTL DEF Spec

(* A successful refresh is answered by the first load begun after it was asked. *)
THEOREM FirstLaterLoadAnswers == Spec => []NextLoadAnswers
<1>1. RequestInv => NextLoadAnswers
  BY DEF RequestInv, NextLoadAnswers
<1>2. QED BY <1>1, RequestInvCorrect, PTL

(* Closing leaves no refresh promise unresolved. *)
THEOREM CloseLeavesNobodyWaiting == Spec => []CloseAnswersEverything
<1>1. RequestInv => CloseAnswersEverything
  BY DEF RequestInv, CloseAnswersEverything
<1>2. QED BY <1>1, RequestInvCorrect, PTL

(***************************************************************************)
(* Observers never overlap. An abandoned call may stay unsettled only once *)
(* the reloader is closed or the observer has been given up, and neither   *)
(* ever calls it again.                                                    *)
(***************************************************************************)
ObserverInv ==
    /\ liveObservers \in 0..1
    /\ observerAt \in {"inChange", "async"} => liveObservers = 1
    /\ observerAt = "settled" /\ observerResult = "aborted" => closed
    /\ \/ closed \/ observerFailed
       \/ observerAt \in {"inChange", "async"}
       \/ observerAt = "settled" /\ observerResult = "timeout"
       \/ liveObservers = 0

LEMMA ObserverInvCorrect == Spec => []ObserverInv
<1>1. Init => ObserverInv
  BY DEF Init, ObserverInv
<1>2. TypeOK /\ ObserverInv /\ [Next]_vars => ObserverInv'
  <2> SUFFICES ASSUME TypeOK, ObserverInv, [Next]_vars PROVE ObserverInv'
    OBVIOUS
  <2> USE DEF refreshVars, closeVars, stateVars, performVars, loadVars, requestVars,
              observerVars, eventVars
  <2>1. ASSUME NEW r \in Requests, refresh(r)
        PROVE  ObserverInv'
    BY <2>1 DEF refresh, start, ObserverInv
  <2>2. CASE close
    BY <2>2 DEF close, stop, ObserverInv
  <2>3. ASSUME NEW l \in liveLoads, NEW result \in Results, LoadSettles(l, result)
        PROVE  ObserverInv'
    BY <2>3 DEF LoadSettles, ObserverInv
  <2>4. ASSUME NEW result \in {"done", "failed"}, ObserverSettles(result)
        PROVE  ObserverInv'
    BY <2>4 DEF ObserverSettles, ObserverInv, TypeOK
  <2>5. CASE LateObserverSettles
    BY <2>5 DEF LateObserverSettles, ObserverInv, TypeOK
  <2>6. CASE LoadReturns
    BY <2>6 DEF LoadReturns, ObserverInv
  <2>7. CASE LoadThrows
    BY <2>7 DEF LoadThrows, ObserverInv
  <2>8. CASE ObserverReturns
    BY <2>8 DEF ObserverReturns, finishNotification, Deliver, nextNotification, muted,
                 ObserverInv, TypeOK
  <2>9. CASE ObserverThrows
    BY <2>9 DEF ObserverThrows, observerFailure, finishNotification, Deliver, nextNotification, muted,
                 ObserverInv, TypeOK
  <2>10. CASE ObserverReturnsPromise
    BY <2>10 DEF ObserverReturnsPromise, ObserverInv, TypeOK
  <2>11. CASE PerformErrorReturns
    BY <2>11 DEF PerformErrorReturns, reject, notify, Deliver, muted, ObserverInv, TypeOK
  <2>12. CASE ObserverErrorReturns
    BY <2>12 DEF ObserverErrorReturns, finishNotification, Deliver, nextNotification, muted,
                 ObserverInv, TypeOK
  <2>13. CASE PerformResumes
    <3>1. UNCHANGED eventVars \/ \E e : notify(e)
      BY <2>13 DEF PerformResumes, reject, Publish
    <3>2. UNCHANGED <<closed, observerFailed>>
      BY <2>13 DEF PerformResumes
    <3>3. QED BY <3>1, <3>2 DEF notify, Deliver, muted, ObserverInv, TypeOK
  <2>14. CASE PerformContinues
    BY <2>14 DEF PerformContinues, stop, stopsAfterTimeout, ObserverInv
  <2>15. CASE complete
    BY <2>15 DEF complete, ObserverInv
  <2>16. CASE TaskContinues
    BY <2>16 DEF TaskContinues, start, ObserverInv
  <2>17. CASE ObserverResumes
    BY <2>17 DEF ObserverResumes, timedOut, observerFailure, finishNotification, Deliver, nextNotification, muted,
                 ObserverInv, TypeOK
  <2>18. CASE LoadTimesOut
    BY <2>18 DEF LoadTimesOut, ObserverInv
  <2>19. CASE ObserverTimesOut
    BY <2>19 DEF ObserverTimesOut, ObserverInv, TypeOK
  <2>20. CASE UNCHANGED vars
    BY <2>20 DEF vars, ObserverInv
  <2> QED
    BY <2>1, <2>2, <2>3, <2>4, <2>5, <2>6, <2>7, <2>8, <2>9, <2>10, <2>11,
       <2>12, <2>13, <2>14, <2>15, <2>16, <2>17, <2>18, <2>19, <2>20
    DEF Next, Application, LoadCallEnds, ObserverCallEnds
<1>3. QED BY <1>1, <1>2, TypeCorrect, PTL DEF Spec

(* At most one call of onChange is unsettled at any time. *)
THEOREM ObserversNeverOverlap == Spec => []NoOverlappingObservers
<1>1. ObserverInv => NoOverlappingObservers
  BY DEF ObserverInv, NoOverlappingObservers
<1>2. QED BY <1>1, ObserverInvCorrect, PTL

(* Closing is final: nothing is loaded, published or told any more. *)
THEOREM ClosingIsFinal == Spec => SilentAfterClose
<1>1. RequestInv /\ [Next]_vars =>
          [closed => closed' /\ UNCHANGED <<terminalReason, stateVars, loads, told>>]_vars
  <2> SUFFICES ASSUME RequestInv, [Next]_vars, closed
               PROVE  closed' /\ UNCHANGED <<terminalReason, revision, snapshot, loads, told>>
    BY DEF stateVars
  <2> USE DEF refreshVars, closeVars, stateVars, performVars, loadVars, requestVars,
              observerVars, eventVars
  <2>1. ASSUME NEW r \in Requests, refresh(r)
        PROVE  closed' /\ UNCHANGED <<terminalReason, revision, snapshot, loads, told>>
    BY <2>1 DEF refresh
  <2>2. CASE close
    BY <2>2 DEF close
  <2>3. ASSUME NEW l \in liveLoads, NEW result \in Results, LoadSettles(l, result)
        PROVE  closed' /\ UNCHANGED <<terminalReason, revision, snapshot, loads, told>>
    BY <2>3 DEF LoadSettles
  <2>4. ASSUME NEW result \in {"done", "failed"}, ObserverSettles(result)
        PROVE  closed' /\ UNCHANGED <<terminalReason, revision, snapshot, loads, told>>
    BY <2>4 DEF ObserverSettles
  <2>5. CASE LateObserverSettles
    BY <2>5 DEF LateObserverSettles
  <2>6. CASE LoadReturns
    BY <2>6 DEF LoadReturns
  <2>7. CASE LoadThrows
    BY <2>7 DEF LoadThrows
  <2>8. CASE ObserverReturns
    BY <2>8 DEF ObserverReturns, finishNotification, muted
  <2>9. CASE ObserverThrows
    BY <2>9 DEF ObserverThrows, observerFailure, finishNotification, muted
  <2>10. CASE ObserverReturnsPromise
    BY <2>10 DEF ObserverReturnsPromise
  <2>11. CASE PerformErrorReturns
    BY <2>11 DEF PerformErrorReturns, reject, notify, muted
  <2>12. CASE ObserverErrorReturns
    BY <2>12 DEF ObserverErrorReturns, finishNotification, muted
  <2>13. CASE PerformResumes
    BY <2>13 DEF PerformResumes
  <2>14. CASE PerformContinues
    BY <2>14 DEF PerformContinues, stopsAfterTimeout
  <2>15. CASE complete
    BY <2>15 DEF complete
  <2>16. CASE TaskContinues
    BY <2>16 DEF TaskContinues, Settle
  <2>17. CASE ObserverResumes
    BY <2>17 DEF ObserverResumes, observerFailure, finishNotification, muted
  <2>18. CASE LoadTimesOut
    BY <2>18 DEF LoadTimesOut
  <2>19. CASE ObserverTimesOut
    BY <2>19 DEF ObserverTimesOut
  <2>20. CASE UNCHANGED vars
    BY <2>20 DEF vars
  <2> QED
    BY <2>1, <2>2, <2>3, <2>4, <2>5, <2>6, <2>7, <2>8, <2>9, <2>10, <2>11,
       <2>12, <2>13, <2>14, <2>15, <2>16, <2>17, <2>18, <2>19, <2>20
    DEF Next, Application, LoadCallEnds, ObserverCallEnds
<1>2. QED BY <1>1, RequestInvCorrect, PTL DEF Spec, SilentAfterClose

(***************************************************************************)
(* What the observer is told. While it listens, the last accepted event is *)
(* told or parked, whole or without its count; a parked count is relative  *)
(* to what the observer was told last.                                     *)
(***************************************************************************)
EventInv ==
    ~muted =>
        /\ emitted.revision = revision
        /\ IF pendingNotification = NoEvent THEN told \in {emitted, Uncounted(emitted)}
           ELSE /\ pendingNotification \in {emitted, Uncounted(emitted)}
                /\ pendingNotification.counted => revision = told.revision + 1
                /\ observerAt # "idle"

Counts == told'.counted /\ told' # told => told'.revision = told.revision + 1

LEMMA UncountedFields ==
    ASSUME NEW e \in Events
    PROVE  /\ Uncounted(e).revision = e.revision /\ Uncounted(e).status = e.status
           /\ ~Uncounted(e).counted
           /\ e.status # "none" => e # NoEvent /\ Uncounted(e) # NoEvent
BY DEF Uncounted, Events, NoEvent

(* Steps that only decide whether the observer still listens. *)
LEMMA EventsKept ==
    ASSUME EventInv, UNCHANGED <<revision, told, emitted>>,
           muted' \/ UNCHANGED pendingNotification,
           muted => muted', ~muted' /\ observerAt' = "idle" => observerAt = "idle"
    PROVE  EventInv' /\ Counts
BY DEF EventInv, Counts

LEMMA NotifyTells ==
    ASSUME TypeOK, EventInv, NEW e \in Events, e.status # "none", e.revision = revision',
           e.counted => revision' = revision + 1, notify(e), UNCHANGED <<closed, observerFailed>>
    PROVE  EventInv' /\ Counts
<1>. UNCHANGED muted
    BY DEF muted
<1>1. CASE muted
    BY <1>1 DEF notify, eventVars, observerVars, EventInv, Counts
<1>2. CASE ~muted
    <2>1. emitted \in Events /\ told \in Events
        BY DEF TypeOK
    <2>2. e # NoEvent /\ Uncounted(e) # NoEvent /\ Uncounted(e).revision = e.revision /\ ~Uncounted(e).counted
        BY UncountedFields
    <2>3. pendingNotification = NoEvent => told.revision = revision
        BY <1>2, <2>1, UncountedFields DEF EventInv
    <2>4. CASE observerAt = "idle"
        BY <1>2, <2>2, <2>3, <2>4 DEF notify, Deliver, EventInv, Counts
    <2>5. CASE observerAt # "idle"
        BY <1>2, <2>2, <2>3, <2>5 DEF notify, observerVars, EventInv, Counts
    <2>6. QED
        BY <2>4, <2>5
<1>3. QED
    BY <1>1, <1>2

LEMMA FinishTells ==
    ASSUME TypeOK, EventInv, NEW n, finishNotification(n), UNCHANGED <<revision, closed, observerFailed>>
    PROVE  EventInv' /\ Counts
<1>. UNCHANGED muted
    BY DEF muted
<1>1. CASE nextNotification = NoEvent \/ muted
    BY <1>1 DEF finishNotification, nextNotification, EventInv, Counts
<1>2. CASE ~(nextNotification = NoEvent \/ muted)
    <2>1. emitted \in Events
        BY DEF TypeOK
    <2>2. pendingNotification.revision = revision
        BY <1>2, <2>1, UncountedFields DEF nextNotification, EventInv
    <2>3. QED
        BY <1>2, <2>2 DEF finishNotification, nextNotification, Deliver, EventInv, Counts
<1>3. QED
    BY <1>1, <1>2

LEMMA FailureTells ==
    ASSUME TypeOK, EventInv, NEW n, observerFailure(n), UNCHANGED <<revision, closed, observerFailed>>
    PROVE  EventInv' /\ Counts
<1>. UNCHANGED muted
    BY DEF muted
<1>1. CASE closed
    BY <1>1, FinishTells DEF observerFailure
<1>2. CASE ~closed
    BY <1>2, EventsKept DEF observerFailure
<1>3. QED
    BY <1>1, <1>2

LEMMA EventStep == TypeOK /\ EventInv /\ [Next]_vars => EventInv' /\ Counts
<1> SUFFICES ASSUME TypeOK, EventInv, [Next]_vars PROVE EventInv' /\ Counts
    OBVIOUS
<1> USE DEF refreshVars, closeVars, stateVars, performVars, loadVars, requestVars,
            observerVars, eventVars
<1>1. ASSUME NEW r \in Requests, refresh(r) PROVE EventInv' /\ Counts
    BY <1>1, EventsKept DEF refresh, muted
<1>2. ASSUME NEW reason, stop(reason), UNCHANGED <<revision, observerFailed>> PROVE EventInv' /\ Counts
    BY <1>2, EventsKept DEF stop, muted
<1>3. CASE close
    BY <1>2, <1>3 DEF close
<1>4. CASE \/ \E l \in liveLoads, result \in Results : LoadSettles(l, result)
           \/ LoadCallEnds \/ complete \/ TaskContinues \/ LoadTimesOut
    <2>1. UNCHANGED <<eventVars, revision, closed, observerFailed>>
        BY <1>4 DEF LoadSettles, LoadCallEnds, LoadReturns, LoadThrows, complete, TaskContinues, LoadTimesOut
    <2>2. QED
        BY <2>1, EventsKept DEF muted
<1>5. CASE \/ \E result \in {"done", "failed"} : ObserverSettles(result)
           \/ LateObserverSettles \/ ObserverReturnsPromise \/ ObserverTimesOut
    <2>1. /\ UNCHANGED <<told, emitted, pendingNotification, revision, closed, observerFailed>>
          /\ observerAt' = "idle" => observerAt = "idle"
        BY <1>5 DEF ObserverSettles, LateObserverSettles, ObserverReturnsPromise, ObserverTimesOut
    <2>2. QED
        BY <2>1, EventsKept DEF muted
<1>6. CASE ObserverReturns \/ ObserverErrorReturns
    BY <1>6, FinishTells DEF ObserverReturns, ObserverErrorReturns
<1>7. CASE ObserverThrows
    BY <1>7, FailureTells DEF ObserverThrows
<1>8. CASE ObserverResumes
    <2>1. CASE UNCHANGED observerFailed
        BY <1>8, <2>1, FinishTells, FailureTells, EventsKept DEF ObserverResumes, muted
    <2>2. CASE observerFailed' = TRUE /\ UNCHANGED told
        BY <2>2 DEF EventInv, Counts, muted
    <2>3. QED
        BY <1>8, <2>1, <2>2 DEF ObserverResumes
<1>9. ASSUME NEW reason \in Rejections, reject(reason), UNCHANGED <<revision, closed, observerFailed>>
      PROVE  EventInv' /\ Counts
    <2>1. /\ Rejected(reason) \in Events /\ Rejected(reason).status # "none"
          /\ Rejected(reason).revision = revision' /\ ~Rejected(reason).counted
        BY <1>9 DEF Rejected, Events, TypeOK
    <2>2. QED
        BY <1>9, <2>1, NotifyTells DEF reject
<1>10. CASE PerformErrorReturns
    <2>1. ReasonOf(loadResult) \in Rejections
        BY DEF ReasonOf, Rejections
    <2>2. QED
        BY <1>9, <1>10, <2>1 DEF PerformErrorReturns
<1>11. CASE PerformResumes
    <2>1. UNCHANGED <<closed, observerFailed>>
        BY <1>11 DEF PerformResumes
    <2>2. CASE UNCHANGED <<stateVars, eventVars>>
        BY <2>1, <2>2, EventsKept DEF muted
    <2>3. CASE reject("validation_failed") /\ UNCHANGED stateVars
        BY <1>9, <2>1, <2>3 DEF Rejections
    <2>4. ASSUME NEW counted \in BOOLEAN, Publish(counted)
          PROVE  EventInv' /\ Counts
        <3>. DEFINE e == [status |-> "updated", revision |-> revision + 1, reason |-> "none", counted |-> counted]
        <3>1. e \in Events /\ e.status # "none" /\ e.revision = revision + 1
            BY DEF Events, TypeOK
        <3>2. notify(e) /\ revision' = revision + 1
            BY <2>4 DEF Publish
        <3>3. QED
            BY <2>1, <3>1, <3>2, NotifyTells
    <2>5. QED
        BY <1>11, <2>2, <2>3, <2>4 DEF PerformResumes
<1>12. CASE PerformContinues
    <2>1. CASE stopsAfterTimeout
        BY <1>2, <1>12, <2>1 DEF PerformContinues
    <2>2. CASE ~stopsAfterTimeout
        BY <1>12, <2>2, EventsKept DEF PerformContinues, muted
    <2>3. QED
        BY <2>1, <2>2
<1>13. CASE UNCHANGED vars
    BY <1>13, EventsKept DEF vars, muted
<1>14. QED
    BY <1>1, <1>3, <1>4, <1>5, <1>6, <1>7, <1>8, <1>10, <1>11, <1>12, <1>13
       DEF Next, Application, ObserverCallEnds

LEMMA EventInvCorrect == Spec => []EventInv
<1>1. Init => EventInv
    <2>1. NoEvent.revision = 0
        BY DEF NoEvent
    <2>2. Init => emitted = NoEvent /\ told = NoEvent /\ pendingNotification = NoEvent /\ revision = 0
        BY DEF Init
    <2>3. QED
        BY <2>1, <2>2 DEF EventInv
<1>2. QED
    BY <1>1, EventStep, TypeCorrect, PTL DEF Spec

(* With no notification in progress the observer has been told the last event,   *)
(* however many were coalesced while it was busy, at most without its count.     *)
THEOREM ObserverIsUpToDate == Spec => []ObserverUpToDate
<1>1. TypeOK /\ EventInv => ObserverUpToDate
    BY UncountedFields DEF EventInv, ObserverUpToDate, muted, TypeOK
<1>2. QED
    BY <1>1, EventInvCorrect, TypeCorrect, PTL

(* No count is told that is not relative to the event told before it. *)
THEOREM CountsAreRelative == Spec => CountRelativeToLastEvent
<1>1. TypeOK /\ EventInv /\ [Next]_vars
        => [told'.counted /\ told' # told => told'.revision = told.revision + 1]_told
    BY EventStep DEF Counts
<1>2. QED
    BY <1>1, EventInvCorrect, TypeCorrect, PTL DEF Spec, CountRelativeToLastEvent

(***************************************************************************)
(* The reloader implements the abstract refresh service. A load begins     *)
(* when start() calls it, is published when perform() stores its snapshot  *)
(* and is answered when its task is resolved; between the two the outcome  *)
(* waits in perform(), and must stay what the abstract answer will be.     *)
(***************************************************************************)
ServiceInv ==
    /\ snapshot <= loads
    /\ performAt \in {"inLoad", "racing", "resume", "inError"} => snapshot # loads
    /\ running = "pending" => ~closed /\ \E r \in Requests : wait[r] = "active"
    /\ ~closed /\ performAt \in {"inNotify", "return"} =>
        \/ /\ outcome = [ok |-> TRUE, revision |-> revision, reason |-> "none", load |-> loads]
           /\ snapshot = loads /\ loadResult # "timeout"
        \/ /\ outcome = Failed("load_timeout")
           /\ performAt = "inNotify" /\ loadResult = "timeout"
        \/ /\ \E reason \in Rejections \ {"load_timeout"} : outcome = Failed(reason)
           /\ snapshot # loads /\ loadResult # "timeout"

LEMMA ServiceInvCorrect == Spec => []ServiceInv
<1>1. Init => ServiceInv
  BY DEF Init, ServiceInv
<1>2. TypeOK /\ LoadInv /\ RequestInv /\ ServiceInv /\ [Next]_vars => ServiceInv'
  <2> SUFFICES ASSUME TypeOK, LoadInv, RequestInv, ServiceInv, [Next]_vars PROVE ServiceInv'
    OBVIOUS
  <2> USE DEF refreshVars, closeVars, stateVars, performVars, loadVars, requestVars,
              observerVars, eventVars
  <2>1. ASSUME NEW r \in Requests, refresh(r)
        PROVE  ServiceInv'
    <3>1. CASE closed
      BY <2>1, <3>1 DEF refresh, Settle, Failed, RequestInv, ServiceInv, TypeOK
    <3>2. CASE ~closed /\ running = "none"
      BY <2>1, <3>2 DEF refresh, start, Failed, ServiceInv, TypeOK
    <3>3. CASE ~closed /\ running # "none"
      BY <2>1, <3>3 DEF refresh, joined, Failed, ServiceInv, TypeOK
    <3>4. QED BY <3>1, <3>2, <3>3
  <2>2. CASE close
    BY <2>2 DEF close, stop, Failed, ServiceInv
  <2>3. ASSUME NEW l \in liveLoads, NEW result \in Results, LoadSettles(l, result)
        PROVE  ServiceInv'
    BY <2>3 DEF LoadSettles, Failed, ServiceInv
  <2>4. ASSUME NEW result \in {"done", "failed"}, ObserverSettles(result)
        PROVE  ServiceInv'
    BY <2>4 DEF ObserverSettles, Failed, ServiceInv
  <2>5. CASE LateObserverSettles
    BY <2>5 DEF LateObserverSettles, Failed, ServiceInv
  <2>6. CASE LoadReturns
    BY <2>6 DEF LoadReturns, Failed, ServiceInv
  <2>7. CASE LoadThrows
    BY <2>7 DEF LoadThrows, Failed, ServiceInv
  <2>8. CASE ObserverReturns
    BY <2>8 DEF ObserverReturns, Failed, ServiceInv
  <2>9. CASE ObserverThrows
    BY <2>9 DEF ObserverThrows, Failed, ServiceInv
  <2>10. CASE ObserverReturnsPromise
    BY <2>10 DEF ObserverReturnsPromise, Failed, ServiceInv
  <2>11. CASE PerformErrorReturns
    BY <2>11 DEF PerformErrorReturns, reject, afterNotify, ReasonOf, Failed, Rejections,
                LoadInv, ServiceInv
  <2>12. CASE ObserverErrorReturns
    BY <2>12 DEF ObserverErrorReturns, Failed, ServiceInv
  <2>13. CASE PerformResumes
    <3>1. CASE closed
      BY <2>13, <3>1 DEF PerformResumes, Failed, ServiceInv
    <3>2. CASE ~closed /\ loadResult \notin {"ok", "invalid"}
      BY <2>13, <3>2 DEF PerformResumes, Failed, ServiceInv
    <3>3. CASE ~closed /\ loadResult = "invalid"
      BY <2>13, <3>3 DEF PerformResumes, reject, afterNotify, Failed, Rejections, ServiceInv
    <3>4. CASE ~closed /\ loadResult = "ok"
      <4>1. PICK counted \in BOOLEAN : Publish(counted)
        BY <2>13, <3>4 DEF PerformResumes
      <4>2. outcome' = Loaded /\ performAt' = "inNotify" /\ snapshot' = loads
            /\ revision' = revision + 1 /\ UNCHANGED <<loads, running, wait, closed, loadResult>>
        BY <2>13, <4>1 DEF PerformResumes, Publish
      <4>3. QED BY <3>4, <4>2 DEF Loaded, ServiceInv, TypeOK
    <3>5. QED BY <3>1, <3>2, <3>3, <3>4
  <2>14. CASE PerformContinues
    <3>1. CASE stopsAfterTimeout
      BY <2>14, <3>1 DEF PerformContinues, stop, ServiceInv
    <3>2. CASE ~stopsAfterTimeout
      <4>1. UNCHANGED <<closed, running, revision, snapshot, loads, wait, loadResult, outcome>>
            /\ performAt = "inNotify" /\ performAt' = "return"
        BY <2>14, <3>2 DEF PerformContinues, Top
      <4>2. CASE closed
        BY <4>1, <4>2 DEF ServiceInv
      <4>3. CASE ~closed
        BY <4>1, <4>3, <3>2 DEF stopsAfterTimeout, Failed, ServiceInv
      <4>4. QED BY <4>2, <4>3
    <3>3. QED BY <3>1, <3>2
  <2>15. CASE complete
    BY <2>15 DEF complete, Settle, Waiting, Failed, ServiceInv, TypeOK
  <2>16. CASE TaskContinues
    <3>1. CASE queued = {} \/ closed
      BY <2>16, <3>1 DEF TaskContinues, Settle, Failed, queued, Waiting, ServiceInv, TypeOK
    <3>2. CASE ~closed /\ queued # {}
      BY <2>16, <3>2 DEF TaskContinues, start, queued, Waiting, Failed, ServiceInv, TypeOK
    <3>3. QED BY <3>1, <3>2
  <2>17. CASE ObserverResumes
    BY <2>17 DEF ObserverResumes, Failed, ServiceInv
  <2>18. CASE LoadTimesOut
    BY <2>18 DEF LoadTimesOut, Failed, ServiceInv
  <2>19. CASE ObserverTimesOut
    BY <2>19 DEF ObserverTimesOut, Failed, ServiceInv
  <2>20. CASE UNCHANGED vars
    BY <2>20 DEF vars, Failed, ServiceInv
  <2> QED
    BY <2>1, <2>2, <2>3, <2>4, <2>5, <2>6, <2>7, <2>8, <2>9, <2>10, <2>11,
       <2>12, <2>13, <2>14, <2>15, <2>16, <2>17, <2>18, <2>19, <2>20
    DEF Next, Application, LoadCallEnds, ObserverCallEnds
<1>3. QED BY <1>1, <1>2, TypeCorrect, LoadInvCorrect, RequestInvCorrect, PTL DEF Spec

(* The stages of the requests, seen through the refinement mapping. *)
LEMMA Stages ==
    ASSUME TypeOK
    PROVE  /\ Service!At("served") = Waiting("active")
           /\ Service!At("waiting") = queued
           /\ \A r \in Requests : wait[r] = "idle" => r \in Service!At("idle")
BY DEF Service!At, Waiting, queued, Stage, TypeOK

LEMMA Moving ==
    ASSUME NEW S, NEW to,
           wait' = [r \in Requests |-> IF r \in S THEN to ELSE wait[r]]
    PROVE  Service!Move(S, Stage(to))
BY DEF Service!Move, Stage

LEMMA Replying ==
    ASSUME NEW S, NEW a,
           answer' = [r \in Requests |-> IF r \in S THEN a ELSE answer[r]]
    PROVE  Service!Reply(S, Reply(a))
BY DEF Service!Reply, Reply

LEMMA Settling ==
    ASSUME NEW S, NEW o, Settle(S, o)
    PROVE  Service!Move(S, "answered") /\ Service!Reply(S, Reply(o))
BY Moving, Replying DEF Settle, Stage

LEMMA Failing ==
    ASSUME NEW reason PROVE Reply(Failed(reason)) = Service!Failure(reason)
BY DEF Reply, Failed, Service!Failure

(* What the service sees of the reloader. *)
seen == <<closed, terminalReason, wait, answer, loads, snapshot, revision>>

LEMMA UnseenSteps == UNCHANGED seen => UNCHANGED Service!vars
BY DEF seen, Service!vars

LEMMA SimStop ==
    ASSUME TypeOK, ~closed, NEW reason \in StopReasons, stop(reason),
           UNCHANGED <<loads, snapshot, revision>>
    PROVE  Service!Next
<1>1. Settle(Waiting("active") \cup queued, Failed(reason))
  BY DEF stop, unresolved
<1>2. Service!Shut(reason)
  BY <1>1, Stages, Settling, Failing DEF Service!Shut, stop
<1>3. QED BY <1>2 DEF Service!Next

LEMMA SimRefresh ==
    ASSUME TypeOK, RequestInv, NEW r \in Requests, refresh(r)
    PROVE  Service!Next
<1>1. wait[r] = "idle" /\ r \in Service!At("idle") /\ Stage(wait[r]) = "idle"
  BY Stages DEF refresh, Stage
<1>2. UNCHANGED <<closed, terminalReason, snapshot, revision>>
  BY DEF refresh, closeVars, stateVars
<1>3. CASE closed
  <2>1. Settle({r}, Failed(terminalReason)) /\ loads' = loads
    BY <1>3 DEF refresh, loadVars
  <2>2. Service!Refuse(r)
    BY <1>1, <1>2, <1>3, <2>1, Settling, Failing DEF Service!Refuse
  <2>3. QED BY <2>2 DEF Service!Next
<1>4. CASE ~closed /\ running = "none"
  <2>1. start({r})
    BY <1>4 DEF refresh
  <2>2. Waiting("active") = {} /\ queued = {}
    BY <1>4 DEF RequestInv, Waiting, queued
  <2>3. Service!Move({r}, "served") /\ loads' = loads + 1 /\ answer' = answer
    BY <2>1, Moving DEF start, Stage
  <2>4. Service!Begin(Service!At("waiting") \cup {r})
    BY <1>1, <1>2, <1>4, <2>2, <2>3, Stages DEF Service!Begin
  <2>5. QED BY <2>4 DEF Service!Next
<1>5. CASE ~closed /\ running # "none"
  <2>1. wait' = [q \in Requests |-> IF q \in {r} THEN "queued" ELSE wait[q]]
    BY <1>5 DEF refresh, joined, TypeOK
  <2>2. UNCHANGED <<answer, loads>>
    BY <1>5 DEF refresh, loadVars
  <2>3. Service!Ask(r)
    BY <1>1, <1>2, <1>5, <2>1, <2>2, Moving DEF Service!Ask, Stage
  <2>4. QED BY <2>3 DEF Service!Next
<1>6. QED BY <1>3, <1>4, <1>5

LEMMA SimPublish ==
    ASSUME TypeOK, LoadInv, ServiceInv, PerformResumes
    PROVE  Service!Next \/ UNCHANGED seen
<1>1. UNCHANGED <<closed, terminalReason, wait, answer, loads>>
  BY DEF PerformResumes, closeVars, requestVars, loadVars
<1>2. CASE closed \/ loadResult # "ok"
  BY <1>1, <1>2 DEF PerformResumes, stateVars, seen
<1>3. CASE ~closed /\ loadResult = "ok"
  <2>1. snapshot' = loads /\ revision' = revision + 1
    BY <1>3 DEF PerformResumes, Publish
  <2>2. snapshot # loads
    BY DEF PerformResumes, ServiceInv
  <2>3. Waiting("active") # {}
    BY <1>3 DEF PerformResumes, LoadInv, ServiceInv, Waiting
  <2>4. Service!Publish
    BY <1>1, <1>3, <2>1, <2>2, <2>3, Stages DEF Service!Publish
  <2>5. QED BY <2>4 DEF Service!Next
<1>4. QED BY <1>2, <1>3

LEMMA SimComplete ==
    ASSUME TypeOK, ServiceInv, complete
    PROVE  Service!Next \/ UNCHANGED seen
<1>1. UNCHANGED <<closed, terminalReason, snapshot, revision, loads>>
  BY DEF complete, closeVars, stateVars, loadVars
<1>2. CASE running # "pending"
  BY <1>1, <1>2 DEF complete, seen
<1>3. CASE running = "pending"
  <2>1. ~closed /\ Waiting("active") # {} /\ performAt = "return"
    BY <1>3 DEF ServiceInv, Waiting, complete
  <2>2. Settle(Waiting("active"), outcome)
    BY <1>3 DEF complete
  <2>3. CASE outcome = [ok |-> TRUE, revision |-> revision, reason |-> "none", load |-> loads]
             /\ snapshot = loads
    <3>1. Reply(outcome) = Service!Success
      BY <2>3 DEF Reply, Service!Success
    <3>2. Service!Answer
      BY <1>1, <2>1, <2>2, <2>3, <3>1, Settling, Stages DEF Service!Answer
    <3>3. QED BY <3>2 DEF Service!Next
  <2>4. CASE /\ \E reason \in Rejections \ {"load_timeout"} : outcome = Failed(reason)
             /\ snapshot # loads
    <3>1. PICK reason \in Rejections \ {"load_timeout"} : Reply(outcome) = Service!Failure(reason)
      BY <2>4, Failing
    <3>2. Service!Answer
      BY <1>1, <2>1, <2>2, <2>4, <3>1, Settling, Stages DEF Service!Answer
    <3>3. QED BY <3>2 DEF Service!Next
  <2>5. QED BY <2>1, <2>3, <2>4 DEF ServiceInv
<1>4. QED BY <1>2, <1>3

LEMMA SimTaskContinues ==
    ASSUME TypeOK, RequestInv, TaskContinues
    PROVE  Service!Next \/ UNCHANGED seen
<1>1. UNCHANGED <<closed, terminalReason, snapshot, revision>>
  BY DEF TaskContinues, closeVars, stateVars
<1>2. CASE queued = {}
  BY <1>1, <1>2 DEF TaskContinues, loadVars, seen
<1>3. CASE queued # {}
  <2>1. ~closed /\ Waiting("active") = {}
    BY <1>3 DEF RequestInv, queued, Waiting, TaskContinues
  <2>2. start(queued)
    BY <1>3, <2>1 DEF TaskContinues
  <2>3. Service!Move(queued, "served") /\ loads' = loads + 1 /\ answer' = answer
    BY <2>2, Moving DEF start, Stage
  <2>4. PICK r \in Requests : r \in queued
    BY <1>3 DEF queued, Waiting
  <2>5. Service!At("waiting") \cup {r} = queued
    BY <2>4, Stages
  <2>6. Service!Begin(Service!At("waiting") \cup {r})
    BY <1>1, <1>3, <2>1, <2>3, <2>5, Stages DEF Service!Begin
  <2>7. QED BY <2>6 DEF Service!Next
<1>4. QED BY <1>2, <1>3

(* The reloader, its event loop and callbacks included, is a refresh service. *)
THEOREM ReloadImplementsService == Spec => ImplementsService
<1>1. Init => Service!Init
  <2> SUFFICES ASSUME Init PROVE Service!Init
    OBVIOUS
  <2>1. [r \in Requests |-> Stage(wait[r])] = [r \in Requests |-> "idle"]
    BY DEF Init, Stage
  <2>2. [r \in Requests |-> Reply(answer[r])] = [r \in Requests |-> Service!Failure("none")]
    BY Failing DEF Init
  <2>3. QED BY <2>1, <2>2 DEF Init, Service!Init
<1>2. TypeOK /\ LoadInv /\ RequestInv /\ ServiceInv /\ [Next]_vars
          => [Service!Next]_(Service!vars)
  <2> SUFFICES ASSUME TypeOK, LoadInv, RequestInv, ServiceInv, [Next]_vars
               PROVE  Service!Next \/ UNCHANGED seen
    BY UnseenSteps
  <2> USE DEF refreshVars, closeVars, stateVars, loadVars, requestVars, seen
  <2>1. ASSUME NEW r \in Requests, refresh(r)
        PROVE  Service!Next \/ UNCHANGED seen
    BY <2>1, SimRefresh
  <2>2. CASE close
    BY <2>2, SimStop DEF close, StopReasons
  <2>3. ASSUME NEW l \in liveLoads, NEW result \in Results, LoadSettles(l, result)
        PROVE  Service!Next \/ UNCHANGED seen
    BY <2>3 DEF LoadSettles
  <2>4. ASSUME NEW result \in {"done", "failed"}, ObserverSettles(result)
        PROVE  Service!Next \/ UNCHANGED seen
    BY <2>4 DEF ObserverSettles
  <2>5. CASE LateObserverSettles
    BY <2>5 DEF LateObserverSettles
  <2>6. CASE LoadReturns
    BY <2>6 DEF LoadReturns
  <2>7. CASE LoadThrows
    BY <2>7 DEF LoadThrows
  <2>8. CASE ObserverReturns
    BY <2>8 DEF ObserverReturns
  <2>9. CASE ObserverThrows
    BY <2>9 DEF ObserverThrows
  <2>10. CASE ObserverReturnsPromise
    BY <2>10 DEF ObserverReturnsPromise
  <2>11. CASE PerformErrorReturns
    BY <2>11 DEF PerformErrorReturns
  <2>12. CASE ObserverErrorReturns
    BY <2>12 DEF ObserverErrorReturns
  <2>13. CASE PerformResumes
    BY <2>13, SimPublish
  <2>14. CASE PerformContinues
    <3>1. CASE stopsAfterTimeout
      BY <2>14, <3>1, SimStop DEF PerformContinues, stopsAfterTimeout, StopReasons
    <3>2. CASE ~stopsAfterTimeout
      BY <2>14, <3>2 DEF PerformContinues
    <3>3. QED BY <3>1, <3>2
  <2>15. CASE complete
    BY <2>15, SimComplete
  <2>16. CASE TaskContinues
    BY <2>16, SimTaskContinues
  <2>17. CASE ObserverResumes
    BY <2>17 DEF ObserverResumes
  <2>18. CASE LoadTimesOut
    BY <2>18 DEF LoadTimesOut
  <2>19. CASE ObserverTimesOut
    BY <2>19 DEF ObserverTimesOut
  <2>20. CASE UNCHANGED vars
    BY <2>20 DEF vars
  <2> QED
    BY <2>1, <2>2, <2>3, <2>4, <2>5, <2>6, <2>7, <2>8, <2>9, <2>10, <2>11,
       <2>12, <2>13, <2>14, <2>15, <2>16, <2>17, <2>18, <2>19, <2>20
    DEF Next, Application, LoadCallEnds, ObserverCallEnds
<1>3. QED
  BY <1>1, <1>2, TypeCorrect, LoadInvCorrect, RequestInvCorrect, ServiceInvCorrect, PTL
  DEF Spec, ImplementsService, Service!Spec
=============================================================================
