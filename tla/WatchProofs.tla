---------------------------- MODULE WatchProofs ----------------------------
(***************************************************************************)
(* What the watcher promises for every set of paths, directories and       *)
(* layouts, and every delay.                                               *)
(***************************************************************************)
EXTENDS Watch, TLAPS

-----------------------------------------------------------------------------
(***************************************************************************)
(* Types.                                                                  *)
(***************************************************************************)
(* What closing and failing do to the types of the variables they may change. *)
LEMMA CloseType ==
    ASSUME TypeOK, NEW w \in [Dirs -> SUBSET Names], closeWith(w)
    PROVE  /\ closed' \in BOOLEAN /\ watch' \in [Dirs -> SUBSET Names] /\ seen' \in Layouts /\ refused' \subseteq Dirs
           /\ timer' \in None..Delay /\ maxWaitTimer' \in None..MaxWait
           /\ pendingCancellations' \subseteq {"timer", "maxWait"}
           /\ reloader' \in {"none", "idle", "running", "closed"} /\ queued' \in BOOLEAN
           /\ initial' \in {"none", "pending", "ended", "load_timeout", "closed"}
           /\ parked' \in {"none", "watch_failed", "other"}
<1>1. release(w)
    BY DEF closeWith
<1>2. timer' \in None..Delay /\ maxWaitTimer' \in None..MaxWait /\ pendingCancellations' \subseteq {"timer", "maxWait"}
    <2>1. timer' = None /\ maxWaitTimer' = None /\ pendingCancellations' \subseteq Jobs
        BY <1>1 DEF release, clearTimers
    <2>2. Jobs \subseteq {"timer", "maxWait"}
        BY DEF Jobs, TypeOK
    <2>3. None \in None..Delay /\ None \in None..MaxWait
        BY WatchConstants DEF None, WatchConstants
    <2>4. QED
        BY <2>1, <2>2, <2>3
<1>3. closed' \in BOOLEAN /\ watch' \in [Dirs -> SUBSET Names] /\ seen' \in Layouts /\ refused' \subseteq Dirs
    BY <1>1 DEF release, TypeOK
<1>4. QED
    BY <1>2, <1>3 DEF closeWith, stopReloader, reloadVars, TypeOK

LEMMA FailType ==
    ASSUME TypeOK, NEW w \in [Dirs -> SUBSET Names], failWatch(w)
    PROVE  /\ watchFailed' \in BOOLEAN /\ observing' \in BOOLEAN /\ heard' \in BOOLEAN /\ closeWith(w)
BY DEF failWatch, Deliver, TypeOK

LEMMA GroupsType ==
    ASSUME NEW S \in SUBSET Paths, NEW l \in Layouts, watch \in [Dirs -> SUBSET Names]
    PROVE  /\ groups(S, l) \in [Dirs -> SUBSET Names]
           /\ halfReconciled(groups(S, l)) \in [Dirs -> SUBSET Names]
BY DEF groups, halfReconciled

LEMMA DeliverType ==
    ASSUME TypeOK, NEW e, Deliver(e)
    PROVE  observing' \in BOOLEAN /\ heard' \in BOOLEAN
BY DEF Deliver, TypeOK

LEMMA BeginType ==
    ASSUME TypeOK, beginLoad
    PROVE  /\ reloader' \in {"none", "idle", "running", "closed"} /\ queued' \in BOOLEAN /\ dirty' \in BOOLEAN
           /\ loadAt' \in Awaiting \cup {"none", "reading", "loaded", "failed"} /\ next' \in SUBSET Paths
BY DEF beginLoad, TypeOK, Awaiting

LEMMA RequestType ==
    ASSUME TypeOK, requestRefresh
    PROVE  /\ reloader' \in {"none", "idle", "running", "closed"} /\ queued' \in BOOLEAN /\ dirty' \in BOOLEAN
           /\ initial' = initial /\ next' \in SUBSET Paths
           /\ loadAt' \in Awaiting \cup {"none", "reading", "loaded", "failed"}
<1>1. CASE beginLoad /\ UNCHANGED initial
    BY <1>1, BeginType
<1>2. CASE queued' = TRUE /\ UNCHANGED <<reloader, initial, loadVars, dirty>>
    BY <1>2 DEF TypeOK, loadVars
<1>3. CASE UNCHANGED <<reloadVars, loadVars, dirty>>
    BY <1>3 DEF TypeOK, loadVars, reloadVars
<1>4. QED
    BY <1>1, <1>2, <1>3 DEF requestRefresh, joins

(* Every variable of the watcher keeps its type: watchConfigPathSet and watchConfig. *)
THEOREM TypeCorrect == Spec => []TypeOK
<1>1. Init => TypeOK
    <2>1. None \in None..Delay /\ None \in None..MaxWait
        BY WatchConstants DEF None, WatchConstants
    <2>2. Init => timer \in None..Delay /\ maxWaitTimer \in None..MaxWait
        BY <2>1 DEF Init
    <2>3. Init => watch \in [Dirs -> SUBSET Names] /\ {paths, good, pending, next} \subseteq SUBSET Paths
        BY WatchConstants DEF Init, WatchConstants
    <2>4. QED
        BY <2>2, <2>3 DEF Init, TypeOK
<1>2. TypeOK /\ [Next]_vars => TypeOK'
    <2>. SUFFICES ASSUME TypeOK, [Next]_vars PROVE TypeOK'
        OBVIOUS
    <2>. USE DEF setupVars, handleVars, timerVars, graphVars, loadVars, reloadVars, observerVars
    <2>1. CASE SetupEnds
        <3>1. CASE /\ started' = "failed"
                   /\ UNCHANGED <<closed, watchFailed, handleVars, timerVars, loadVars, reloadVars, observerVars, dirty,
                                  aborted, graphVars, timedOut>>
            BY <3>1 DEF TypeOK
        <3>2. ASSUME NEW l \in Layouts, started' = "initial", initial' = "pending",
                     watch' = groups(paths, l), seen' = l, beginLoad,
                     UNCHANGED <<closed, watchFailed, refused, timerVars, observerVars, aborted, graphVars, timedOut>>
              PROVE  TypeOK'
            <4>1. watch' \in [Dirs -> SUBSET Names]
                BY <3>2, GroupsType DEF TypeOK
            <4>2. QED
                BY <3>2, <4>1, BeginType DEF TypeOK
        <3>3. ASSUME NEW l \in Layouts, started' = "failed", abandonSetup(groups(paths, l)),
                     UNCHANGED <<watchFailed, loadVars, observing, heard, dirty, aborted, graphVars, timedOut>>
              PROVE  TypeOK'
            <4>1. halfReconciled(groups(paths, l)) \in [Dirs -> SUBSET Names]
                BY GroupsType DEF TypeOK
            <4>2. QED
                BY <3>3, <4>1, CloseType DEF abandonSetup, TypeOK
        <3>4. QED
            BY <2>1, <3>1, <3>2, <3>3 DEF SetupEnds, reconciled
    <2>2. CASE SelectResumes
        <3>1. CASE /\ loadAt' = "failed"
                   /\ UNCHANGED <<closed, watchFailed, handleVars, timerVars, graphVars, reloadVars, observerVars,
                                  setupVars, next, timedOut, dirty>>
            BY <3>1 DEF TypeOK
        <3>2. ASSUME NEW l \in Layouts, watch' = groups(next, l), seen' = l, paths' = next,
                     loadAt' \in {"loaded", "reading"}, good' \in {good, pending}, pending' \in {{ConfigPath}, pending},
                     UNCHANGED <<closed, watchFailed, refused, timerVars, reloadVars, observerVars,
                                 setupVars, next, timedOut, dirty>>
              PROVE  TypeOK'
            <4>1. watch' \in [Dirs -> SUBSET Names]
                BY <3>2, GroupsType DEF TypeOK
            <4>2. QED
                BY <3>2, <4>1, WatchConstants DEF TypeOK, WatchConstants
        <3>3. ASSUME NEW l \in Layouts, failWatch(halfReconciled(groups(next, l))), loadAt' = "failed",
                     UNCHANGED <<graphVars, setupVars, next, timedOut, dirty>>
              PROVE  TypeOK'
            <4>1. halfReconciled(groups(next, l)) \in [Dirs -> SUBSET Names]
                BY GroupsType DEF TypeOK
            <4>2. QED
                BY <3>3, <4>1, CloseType, FailType DEF TypeOK
        <3>4. QED
            BY <2>2, <3>1, <3>2, <3>3 DEF SelectResumes, reconciled
    <2>3. CASE \E S \in SUBSET Paths : Discover(S)
        BY <2>3 DEF Discover, select, wanted, TypeOK, Awaiting
    <2>4. CASE ReadingEnds
        BY <2>4 DEF ReadingEnds, select, TypeOK, Awaiting
    <2>5. CASE LoadEnds
        <3>1. UNCHANGED <<setupVars, closed, watchFailed, handleVars, timerVars, graphVars, timedOut>>
            BY <2>5 DEF LoadEnds
        <3>2. CASE reloader = "closed"
            BY <2>5, <3>1, <3>2 DEF LoadEnds, TypeOK
        <3>3. CASE reloader # "closed"
            <4>1. observing' \in BOOLEAN /\ heard' \in BOOLEAN /\ parked' \in {"none", "watch_failed", "other"}
                BY <2>5, <3>3, DeliverType DEF LoadEnds, notify, TypeOK
            <4>2. initial' \in {"none", "pending", "ended", "load_timeout", "closed"}
                BY <2>5, <3>3 DEF LoadEnds, TypeOK
            <4>3. /\ reloader' \in {"none", "idle", "running", "closed"} /\ queued' \in BOOLEAN /\ dirty' \in BOOLEAN
                  /\ loadAt' \in Awaiting \cup {"none", "reading", "loaded", "failed"} /\ next' \in SUBSET Paths
                <5>1. CASE queued
                    BY <2>5, <3>3, <5>1, BeginType DEF LoadEnds
                <5>2. CASE ~queued
                    BY <2>5, <3>3, <5>2 DEF LoadEnds, TypeOK
                <5>3. QED
                    BY <5>1, <5>2
            <4>4. QED
                BY <3>1, <4>1, <4>2, <4>3 DEF TypeOK
        <3>4. QED
            BY <3>2, <3>3
    <2>6. CASE LoadTimesOut
        BY <2>6 DEF LoadTimesOut, stopReloader, Deliver, TypeOK
    <2>7. CASE RefreshTimedOut
        BY <2>7, CloseType DEF RefreshTimedOut, close, TypeOK
    <2>8. CASE InitialReturns
        <3>1. CASE startFailed
            BY <2>8, <3>1, CloseType DEF InitialReturns, close, TypeOK
        <3>2. CASE ~startFailed
            <4>1. /\ started' = "ok"
                  /\ UNCHANGED <<closed, watchFailed, handleVars, timerVars, reloadVars, observerVars, aborted, graphVars,
                                 loadVars, timedOut, dirty>>
                BY <2>8, <3>2 DEF InitialReturns
            <4>2. QED
                BY <4>1 DEF TypeOK
        <3>3. QED
            BY <3>1, <3>2
    <2>9. CASE \E d \in Dirs : FileEvent(d)
        <3>1. PICK d \in Dirs : FileEvent(d)
            BY <2>9
        <3>2. CASE failWatch(watch)
            BY <3>1, <3>2, CloseType, FailType DEF FileEvent, TypeOK
        <3>3. CASE ~failWatch(watch)
            <4>1. timer' \in None..Delay /\ maxWaitTimer' \in None..MaxWait
                BY <3>1, <3>3, WatchConstants DEF FileEvent, armMaxWait, WatchConstants, TypeOK, None
            <4>2. QED
                BY <3>1, <3>3, <4>1 DEF FileEvent, TypeOK
        <3>4. QED
            BY <3>2, <3>3
    <2>10. CASE \E d \in Dirs : HandleError(d)
        BY <2>10, CloseType, FailType DEF HandleError, TypeOK
    <2>11. CASE Tick
        <3>1. timer' \in None..Delay /\ maxWaitTimer' \in None..MaxWait
            BY <2>11, WatchConstants DEF Tick, Due, WatchConstants, TypeOK, None
        <3>2. QED
            BY <2>11, <3>1 DEF Tick, TypeOK
    <2>12. CASE flush
        <3>1. CASE failWatch(watch) /\ UNCHANGED <<loadVars, dirty>>
            BY <2>12, <3>1, CloseType, FailType DEF flush, TypeOK
        <3>2. CASE /\ clearTimers({}) /\ UNCHANGED <<closed, watchFailed, handleVars, observerVars>>
                   /\ IF closed THEN UNCHANGED <<loadVars, reloadVars, dirty>> ELSE requestRefresh
            <4>1. timer' \in None..Delay /\ maxWaitTimer' \in None..MaxWait /\ pendingCancellations' = {}
                BY <3>2, WatchConstants DEF clearTimers, WatchConstants, None
            <4>2. QED
                BY <2>12, <3>2, <4>1, RequestType DEF flush, TypeOK
        <3>3. QED
            BY <2>12, <3>1, <3>2 DEF flush
    <2>13. CASE ObserverSettles
        <3>1. observing' \in BOOLEAN /\ heard' \in BOOLEAN /\ parked' = "none"
            BY <2>13, DeliverType DEF ObserverSettles, TypeOK
        <3>2. UNCHANGED <<setupVars, closed, watchFailed, handleVars, timerVars, graphVars, loadVars, reloadVars,
                          timedOut, dirty>>
            BY <2>13 DEF ObserverSettles
        <3>3. QED
            BY <3>1, <3>2 DEF TypeOK
    <2>14. CASE Refresh
        BY <2>14, RequestType DEF Refresh, TypeOK
    <2>15. CASE Close
        BY <2>15, CloseType DEF Close, close, TypeOK
    <2>16. CASE Abort
        <3>1. CASE started \in {"initial", "ok"} /\ ~closed
            <4>1. closeWith(watch) /\ aborted' \in BOOLEAN
                BY <2>16, <3>1 DEF Abort, close
            <4>2. QED
                BY <2>16, <3>1, <4>1, CloseType DEF Abort, close, TypeOK
        <3>2. CASE ~(started \in {"initial", "ok"} /\ ~closed)
            <4>1. /\ aborted' = TRUE
                  /\ UNCHANGED <<started, closed, watchFailed, handleVars, timerVars, reloadVars, observerVars, graphVars,
                                 loadVars, timedOut, dirty>>
                BY <2>16, <3>2 DEF Abort
            <4>2. QED
                BY <4>1 DEF TypeOK
        <3>3. QED
            BY <3>1, <3>2
    <2>17. CASE UNCHANGED vars
        BY <2>17 DEF vars, TypeOK
    <2>18. QED
        BY <2>1, <2>2, <2>3, <2>4, <2>5, <2>6, <2>7, <2>8, <2>9, <2>10, <2>11, <2>12, <2>13, <2>14,
           <2>15, <2>16, <2>17 DEF Next, Progress, Environment
<1>3. QED
    BY <1>1, <1>2, PTL DEF Spec

-----------------------------------------------------------------------------
(***************************************************************************)
(* The life of the watcher, and of an event.                               *)
(***************************************************************************)
(* Nothing was acquired: the setup has not ended, or it was refused. *)
Nothing ==
    /\ started \in {"setup", "failed"} /\ initial = "none" /\ ~closed /\ ~watchFailed
    /\ watch = [d \in Dirs |-> {}] /\ loadAt = "none" /\ ~timedOut /\ ~queued /\ ~dirty
    /\ timer = None /\ maxWaitTimer = None /\ pendingCancellations = {}

(* Closing the watcher closes its reloader; a reloader that closes by itself has *)
(* missed a deadline, and the watcher will be told.                              *)
CloseInv ==
    /\ closed => /\ timer = None /\ maxWaitTimer = None /\ reloader = "closed"
                 /\ \A d \in Dirs : watch[d] # {} => d \in refused
    /\ reloader = "closed" => ~queued
    /\ reloader = "none" => Nothing
    /\ started = "setup" => reloader = "none"
    /\ started = "failed" => closed \/ reloader = "none"
    /\ timedOut => reloader = "closed"
    /\ started = "initial" =>
           /\ initial # "none"
           /\ reloader = "closed" => watchFailed \/ aborted \/ initial = "load_timeout"

LifeInv == CloseInv /\ NoEventForgotten

-----------------------------------------------------------------------------
(***************************************************************************)
(* Closing, in any state, whatever refuses to be released.                 *)
(***************************************************************************)
LEMMA Released ==
    ASSUME NEW w, release(w)
    PROVE  /\ closed' /\ timer' = None /\ maxWaitTimer' = None
           /\ \A d \in Dirs : watch'[d] # {} => d \in refused'
BY DEF release, clearTimers

LEMMA Closed ==
    ASSUME CloseInv, NEW w, closeWith(w)
    PROVE  /\ closed' /\ timer' = None /\ maxWaitTimer' = None /\ reloader' = "closed" /\ ~queued'
           /\ \A d \in Dirs : watch'[d] # {} => d \in refused'
BY Released DEF closeWith, stopReloader, reloadVars, CloseInv

LEMMA ClosedForGood ==
    ASSUME CloseInv, NEW w, closeWith(w), started' # "setup", ~timedOut' \/ timedOut' = timedOut,
           started' = "initial" => started = "initial" /\ (watchFailed' \/ aborted')
    PROVE  LifeInv'
<1>. closed' /\ timer' = None /\ maxWaitTimer' = None /\ reloader' = "closed" /\ ~queued'
       /\ \A d \in Dirs : watch'[d] # {} => d \in refused'
    BY Closed
<1>1. started' = "initial" => initial' # "none"
    BY DEF CloseInv, closeWith, stopReloader, reloadVars
<1>2. CloseInv'
    BY <1>1 DEF CloseInv
<1>3. QED
    BY <1>2 DEF LifeInv, NoEventForgotten

(* A watch error closes; the setup hears of it from watchFailed. *)
LEMMA FailedForGood ==
    ASSUME CloseInv, NEW w, failWatch(w), started # "setup", UNCHANGED <<started, timedOut>>
    PROVE  LifeInv'
<1>1. watchFailed' /\ closeWith(w)
    BY DEF failWatch
<1>2. QED
    BY <1>1, ClosedForGood

LEMMA LifeInvStep == TypeOK /\ LifeInv /\ [Next]_vars => LifeInv'
<1>. SUFFICES ASSUME TypeOK, LifeInv, [Next]_vars PROVE LifeInv'
    OBVIOUS
<1>. CloseInv /\ NoEventForgotten
    BY DEF LifeInv
<1>. USE DEF setupVars, handleVars, timerVars, graphVars, loadVars, reloadVars, observerVars
<1>1. CASE SetupEnds
    <2>0. started = "setup" /\ reloader = "none" /\ Nothing
        BY <1>1 DEF SetupEnds, CloseInv
    <2>1. CASE /\ started' = "failed"
               /\ UNCHANGED <<closed, watchFailed, handleVars, timerVars, loadVars, reloadVars,
                              observerVars, dirty, aborted, graphVars, timedOut>>
        BY <2>0, <2>1 DEF LifeInv, CloseInv, NoEventForgotten, Nothing
    <2>2. CASE /\ started' = "initial" /\ initial' = "pending" /\ beginLoad
               /\ UNCHANGED <<closed, watchFailed, timerVars, timedOut>>
        BY <2>0, <2>2 DEF LifeInv, CloseInv, NoEventForgotten, Nothing, beginLoad
    <2>3. CASE /\ started' = "failed" /\ UNCHANGED timedOut
               /\ \E l \in Layouts : abandonSetup(groups(paths, l))
        BY <2>3, ClosedForGood DEF abandonSetup
    <2>4. QED
        BY <1>1, <2>1, <2>2, <2>3 DEF SetupEnds
<1>2. CASE SelectResumes
    <2>1. CASE \E w : failWatch(w) /\ UNCHANGED <<setupVars, timedOut>>
        <3>1. PICK w : failWatch(w) /\ UNCHANGED <<setupVars, timedOut>>
            BY <2>1
        <3>2. started # "setup"
            BY <1>2 DEF SelectResumes, Awaiting, CloseInv, Nothing
        <3>3. QED
            BY <3>1, <3>2, FailedForGood
    <2>2. CASE UNCHANGED <<setupVars, closed, watchFailed, timerVars, reloadVars, timedOut, dirty>>
                   /\ (closed => UNCHANGED handleVars) /\ reloader # "none"
        BY <2>2 DEF LifeInv, CloseInv, NoEventForgotten
    <2>3. reloader # "none"
        BY <1>2 DEF SelectResumes, Awaiting, CloseInv, Nothing
    <2>4. QED
        BY <1>2, <2>1, <2>2, <2>3 DEF SelectResumes, mayInstall
<1>3. CASE \E S \in SUBSET Paths : Discover(S)
    BY <1>3 DEF Discover, LifeInv, CloseInv, NoEventForgotten, Nothing
<1>4. CASE ReadingEnds
    BY <1>4 DEF ReadingEnds, LifeInv, CloseInv, NoEventForgotten, Nothing
<1>5. CASE LoadEnds
    <2>1. reloader # "none"
        BY <1>5 DEF LoadEnds, CloseInv, Nothing
    <2>2. QED
        BY <1>5, <2>1 DEF LoadEnds, beginLoad, LifeInv, CloseInv, NoEventForgotten
<1>6. CASE LoadTimesOut
    BY <1>6 DEF LoadTimesOut, MicrotaskPending, stopReloader, LifeInv, CloseInv, NoEventForgotten
<1>7. CASE RefreshTimedOut
    <2>1. started # "setup" /\ reloader = "closed"
        BY <1>7 DEF RefreshTimedOut, CloseInv
    <2>2. QED
        BY <1>7, <2>1, Closed DEF RefreshTimedOut, close, closeWith, LifeInv, CloseInv, NoEventForgotten
<1>8. CASE InitialReturns
    <2>1. CASE startFailed
        BY <1>8, <2>1, ClosedForGood DEF InitialReturns, close
    <2>2. CASE ~startFailed
        BY <1>8, <2>2 DEF InitialReturns, LifeInv, CloseInv, NoEventForgotten, Nothing
    <2>3. QED
        BY <2>1, <2>2
<1>9. CASE \E d \in Dirs : FileEvent(d)
    <2>. PICK d \in Dirs : FileEvent(d)
        BY <1>9
    <2>0. reloader # "none" /\ started # "setup"
        BY DEF FileEvent, CloseInv, Nothing
    <2>1. CASE failWatch(watch)
        BY <2>0, <2>1, FailedForGood DEF FileEvent
    <2>2. CASE ~failWatch(watch)
        <3>1. timer' = Delay /\ maxWaitTimer' \in 0..MaxWait
            BY <2>2, WatchConstants DEF FileEvent, armMaxWait, TypeOK, WatchConstants, None
        <3>2. QED
            BY <2>0, <2>2, <3>1, WatchConstants
            DEF FileEvent, LifeInv, CloseInv, NoEventForgotten, WatchConstants, None
    <2>3. QED
        BY <2>1, <2>2
<1>10. CASE \E d \in Dirs : HandleError(d)
    <2>. PICK d \in Dirs : HandleError(d)
        BY <1>10
    <2>1. started # "setup"
        BY DEF HandleError, CloseInv, Nothing
    <2>2. QED
        BY <2>1, FailedForGood DEF HandleError
<1>11. CASE Tick
    BY <1>11, WatchConstants DEF Tick, Due, TypeOK, LifeInv, CloseInv, NoEventForgotten,
                                 WatchConstants, None, Nothing
<1>12. CASE flush
    <2>0. started # "setup" /\ reloader # "none"
        BY <1>12 DEF flush, Due, CloseInv, Nothing, None
    <2>1. CASE failWatch(watch)
        BY <1>12, <2>0, <2>1, FailedForGood DEF flush
    <2>2. CASE /\ clearTimers({}) /\ UNCHANGED <<closed, watchFailed, handleVars>>
               /\ IF closed THEN UNCHANGED <<loadVars, reloadVars, dirty>> ELSE requestRefresh
        <3>1. UNCHANGED <<setupVars, timedOut, closed, watchFailed, handleVars>>
            BY <1>12, <2>2 DEF flush
        <3>2. timer' = None /\ maxWaitTimer' = None
            BY <2>2 DEF clearTimers
        <3>3. CASE reloader = "closed"
            <4>1. UNCHANGED <<reloadVars, dirty>>
                BY <2>2, <3>3 DEF requestRefresh
            <4>2. QED
                BY <2>0, <3>1, <3>2, <3>3, <4>1 DEF LifeInv, CloseInv, NoEventForgotten
        <3>4. CASE reloader # "closed"
            <4>1. ~closed
                BY <3>4 DEF CloseInv
            <4>2. CASE beginLoad /\ UNCHANGED initial
                BY <2>0, <3>1, <3>2, <3>4, <4>1, <4>2 DEF beginLoad, LifeInv, CloseInv, NoEventForgotten
            <4>3. CASE queued' = TRUE /\ UNCHANGED <<reloader, initial>>
                BY <2>0, <3>1, <3>2, <3>4, <4>1, <4>3 DEF LifeInv, CloseInv, NoEventForgotten
            <4>4. QED
                BY <2>0, <2>2, <3>4, <4>1, <4>2, <4>3 DEF requestRefresh, joins, TypeOK
        <3>5. QED
            BY <3>3, <3>4
    <2>3. QED
        BY <1>12, <2>1, <2>2 DEF flush
<1>13. CASE ObserverSettles
    BY <1>13 DEF ObserverSettles, LifeInv, CloseInv, NoEventForgotten, Nothing
<1>14. CASE Refresh
    BY <1>14 DEF Refresh, requestRefresh, beginLoad, joins, LifeInv, CloseInv, NoEventForgotten, Nothing
<1>15. CASE Close
    BY <1>15, ClosedForGood DEF Close, close
<1>16. CASE Abort
    <2>1. CASE started \in {"initial", "ok"} /\ ~closed
        <3>1. aborted' /\ closeWith(watch) /\ UNCHANGED <<started, timedOut>>
            BY <1>16, <2>1 DEF Abort, close
        <3>2. QED
            BY <2>1, <3>1, ClosedForGood
    <2>2. CASE ~(started \in {"initial", "ok"} /\ ~closed)
        BY <1>16, <2>2 DEF Abort, LifeInv, CloseInv, NoEventForgotten, Nothing
    <2>3. QED
        BY <2>1, <2>2
<1>17. CASE UNCHANGED vars
    BY <1>17 DEF vars, LifeInv, CloseInv, NoEventForgotten, Nothing
<1>18. QED
    BY <1>1, <1>2, <1>3, <1>4, <1>5, <1>6, <1>7, <1>8, <1>9, <1>10, <1>11, <1>12, <1>13, <1>14,
       <1>15, <1>16, <1>17 DEF Next, Progress, Environment

LEMMA LifeInvCorrect == Spec => []LifeInv
<1>1. Init => LifeInv
    BY WatchConstants DEF Init, LifeInv, CloseInv, NoEventForgotten, Nothing,
                          WatchConstants, None
<1>2. QED
    BY <1>1, TypeCorrect, LifeInvStep, PTL DEF Spec
-----------------------------------------------------------------------------
(***************************************************************************)
(* What is selected and watched.                                           *)
(***************************************************************************)
(* Each selection under way keeps the last good dependencies, or is the set that *)
(* becomes good with it; and handles are always those of the last selection.     *)
GraphInv ==
    /\ ConfigPath \in paths /\ ConfigPath \in pending /\ good \subseteq paths
    /\ loadAt = "rebind" => next = paths
    /\ loadAt = "select" => good \subseteq next /\ pending \subseteq next
    /\ loadAt = "final" => next = pending
    /\ loadAt = "reading" => pending \subseteq paths
    /\ ~closed /\ reloader # "none" => watch = groups(paths, seen)

LEMMA GraphInvStep == TypeOK /\ LifeInv /\ GraphInv /\ [Next]_vars => GraphInv'
<1>. SUFFICES ASSUME TypeOK, CloseInv, GraphInv, [Next]_vars PROVE GraphInv'
    BY DEF LifeInv
<1>. USE DEF setupVars, handleVars, timerVars, graphVars, loadVars, reloadVars, observerVars
<1>0. ASSUME NEW w, closeWith(w), UNCHANGED <<graphVars, loadVars>> PROVE GraphInv'
    BY <1>0, Released DEF closeWith, GraphInv
<1>a. ASSUME UNCHANGED <<closed, watch, seen, graphVars, loadVars>>, reloader' = "none" => reloader = "none",
             reloader = "none" => reloader' = "none"
      PROVE  GraphInv'
    BY <1>a DEF GraphInv, groups
<1>b. ASSUME beginLoad, UNCHANGED <<closed, watch, seen, graphVars>>, reloader # "none" PROVE GraphInv'
    BY <1>b DEF GraphInv, groups, beginLoad
<1>c. ASSUME requestRefresh, UNCHANGED <<closed, watch, seen, graphVars>> PROVE GraphInv'
    BY <1>a, <1>b, <1>c DEF requestRefresh, TypeOK
<1>1. CASE SetupEnds
    <2>1. ASSUME NEW l \in Layouts, watch' = groups(paths, l), seen' = l, beginLoad, UNCHANGED graphVars
          PROVE  GraphInv'
        BY <2>1 DEF GraphInv, groups, beginLoad
    <2>2. ASSUME NEW l \in Layouts, abandonSetup(groups(paths, l)), UNCHANGED <<loadVars, graphVars>>
          PROVE  GraphInv'
        BY <1>0, <2>2 DEF abandonSetup
    <2>3. QED
        BY <1>1, <1>a, <2>1, <2>2 DEF SetupEnds, reconciled
<1>2. CASE SelectResumes
    <2>1. CASE /\ loadAt' = "failed"
               /\ UNCHANGED <<closed, handleVars, graphVars, reloadVars>>
        BY <2>1 DEF GraphInv, groups
    <2>2. ASSUME NEW l \in Layouts, watch' = groups(next, l), seen' = l, paths' = next,
                 loadAt' = (IF loadAt = "final" THEN "loaded" ELSE "reading"),
                 good' = (IF loadAt = "final" THEN pending ELSE good),
                 pending' = (IF loadAt = "rebind" THEN {ConfigPath} ELSE pending)
          PROVE  GraphInv'
        <3>1. watch' = groups(paths', seen')
            BY <2>2
        <3>2. CASE loadAt = "rebind"
            BY <2>2, <3>1, <3>2 DEF GraphInv
        <3>3. CASE loadAt = "select"
            BY <2>2, <3>1, <3>3 DEF GraphInv
        <3>4. CASE loadAt = "final"
            BY <2>2, <3>1, <3>4 DEF GraphInv
        <3>5. QED
            BY <1>2, <3>2, <3>3, <3>4 DEF SelectResumes, Awaiting
    <2>3. ASSUME NEW w, failWatch(w), loadAt' = "failed", UNCHANGED graphVars
          PROVE  GraphInv'
        BY <2>3, Released DEF failWatch, closeWith, GraphInv
    <2>4. QED
        BY <1>2, <2>1, <2>2, <2>3 DEF SelectResumes, reconciled
<1>3. CASE \E S \in SUBSET Paths : Discover(S)
    <2>. PICK S \in SUBSET Paths : Discover(S)
        BY <1>3
    <2>1. UNCHANGED <<closed, watch, seen, paths, good, reloader>> /\ loadAt = "reading"
        BY DEF Discover
    <2>2. CASE loadAt' = "failed" /\ UNCHANGED <<next, pending>>
        BY <2>1, <2>2 DEF GraphInv, groups
    <2>3. CASE pending' = pending \cup S /\ select(wanted(pending \cup S), "reading", "select")
        <3>1. groups(paths, seen)' = groups(paths, seen)
            BY <2>1 DEF groups
        <3>2. QED
            BY <2>1, <2>3, <3>1 DEF GraphInv, select, wanted
    <2>4. QED
        BY <2>2, <2>3 DEF Discover
<1>4. CASE ReadingEnds
    <2>1. groups(paths, seen)' = groups(paths, seen)
        BY <1>4 DEF ReadingEnds, groups
    <2>2. QED
        BY <1>4, <2>1 DEF ReadingEnds, GraphInv, select
<1>5. CASE LoadEnds
    <2>0. reloader # "none"
        BY <1>5 DEF LoadEnds, CloseInv, Nothing
    <2>1. CASE beginLoad
        BY <1>5, <1>b, <2>0, <2>1 DEF LoadEnds
    <2>2. CASE loadAt' = "none" /\ UNCHANGED next /\ reloader' \in {"idle", "closed"}
        BY <1>5, <2>0, <2>2 DEF LoadEnds, GraphInv, groups
    <2>3. QED
        BY <1>5, <2>1, <2>2 DEF LoadEnds
<1>6. CASE LoadTimesOut
    BY <1>6, <1>a DEF LoadTimesOut, stopReloader
<1>7. CASE RefreshTimedOut
    BY <1>7, <1>0 DEF RefreshTimedOut, close
<1>8. CASE InitialReturns
    BY <1>8, <1>0, <1>a DEF InitialReturns, close
<1>9. CASE \E d \in Dirs : FileEvent(d)
    BY <1>9, <1>0, <1>a DEF FileEvent, failWatch
<1>10. CASE \E d \in Dirs : HandleError(d)
    BY <1>10, <1>0 DEF HandleError, failWatch
<1>11. CASE Tick
    BY <1>11, <1>a DEF Tick
<1>12. CASE flush
    BY <1>12, <1>0, <1>a, <1>c DEF flush, failWatch
<1>13. CASE ObserverSettles
    BY <1>13, <1>a DEF ObserverSettles
<1>14. CASE Refresh
    BY <1>14, <1>c DEF Refresh
<1>15. CASE Close
    BY <1>15, <1>0 DEF Close, close
<1>16. CASE Abort
    BY <1>16, <1>0, <1>a DEF Abort, close
<1>17. CASE UNCHANGED vars
    BY <1>17, <1>a DEF vars
<1>18. QED
    BY <1>1, <1>2, <1>3, <1>4, <1>5, <1>6, <1>7, <1>8, <1>9, <1>10, <1>11, <1>12, <1>13, <1>14,
       <1>15, <1>16, <1>17 DEF Next, Progress, Environment

LEMMA GraphInvCorrect == Spec => []GraphInv
<1>1. Init => GraphInv
    BY DEF Init, GraphInv
<1>2. QED
    BY <1>1, TypeCorrect, LifeInvCorrect, GraphInvStep, PTL DEF Spec

-----------------------------------------------------------------------------
(***************************************************************************)
(* Theorems.                                                               *)
(***************************************************************************)
(* A closed watcher, and a setup that failed, hold nothing but what refused to   *)
(* be released: close of watchConfigPathSet.                                     *)
THEOREM ClosingReleases == Spec => []NothingLeaksAfterClose
<1>1. LifeInv => NothingLeaksAfterClose
    BY DEF LifeInv, CloseInv, NothingLeaksAfterClose, Nothing
<1>2. QED
    BY <1>1, LifeInvCorrect, PTL

(* Timers or a queued refresh remember every event that no load has seen: flush  *)
(* and refresh of watchConfigPathSet.                                            *)
THEOREM EventsAreRemembered == Spec => []NoEventForgotten
<1>1. LifeInv => NoEventForgotten
    BY DEF LifeInv
<1>2. QED
    BY <1>1, LifeInvCorrect, PTL

(* What a load is reading is watched: select of watchConfig before each read. *)
THEOREM ReadsAreWatched == Spec => []WatchedBeforeRead
<1>1. LifeInv /\ GraphInv => WatchedBeforeRead
    BY DEF LifeInv, CloseInv, Nothing, GraphInv, WatchedBeforeRead
<1>2. QED
    BY <1>1, LifeInvCorrect, GraphInvCorrect, PTL

(* The dependencies of the last good configuration stay watched between loads,   *)
(* whatever later loads did: watchConfig keeps them in every selection.          *)
THEOREM GoodIsWatched == Spec => []GoodStaysWatched
<1>1. GraphInv => GoodStaysWatched
    BY DEF GraphInv, GoodStaysWatched
<1>2. QED
    BY <1>1, GraphInvCorrect, PTL

(* The setup hands over a live watcher: the end of watchConfigPathSet. *)
THEOREM HandedOverAlive == Spec => ReturnedAlive
<1>1. LifeInv /\ [Next]_vars => [started' = "ok" /\ started # "ok" => ~closed /\ reloader # "closed"]_vars
    <2>. SUFFICES ASSUME CloseInv, Next, started' = "ok", started # "ok"
                  PROVE  ~closed /\ reloader # "closed"
        BY DEF LifeInv
    <2>. USE DEF setupVars
    <2>1. InitialReturns
        BY DEF Next, Progress, Environment, SetupEnds, LoadEnds, LoadTimesOut, RefreshTimedOut, Tick, flush,
               SelectResumes, ReadingEnds, ObserverSettles, Discover, FileEvent, HandleError, Refresh, Close, Abort
    <2>2. started = "initial" /\ ~startFailed
        BY <2>1 DEF InitialReturns
    <2>3. QED
        BY <2>2 DEF startFailed, CloseInv
<1>2. QED
    BY <1>1, LifeInvCorrect, PTL DEF Spec, ReturnedAlive
=============================================================================
