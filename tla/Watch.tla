-------------------------------- MODULE Watch --------------------------------
(***************************************************************************)
(* The file watcher: watchConfigPathSet of packages/node/src/watch.ts with *)
(* its setup (watch-setup.ts), driven by the load of watch-config.ts, and  *)
(* the reloader of reload.ts as far as the watcher sees it: one load at a  *)
(* time, one refresh queued behind it, a deadline, one observer.  Module   *)
(* Reload models that reloader in full.                                    *)
(*                                                                         *)
(* A step is the synchronous code that runs when a timer fires, a handle   *)
(* reports something, a promise settles or the application calls.  Paths   *)
(* are the declarations and sources of a configuration; a layout says in   *)
(* which directory, under which name, each of them is to be watched.       *)
(***************************************************************************)
EXTENDS Integers, FiniteSets

CONSTANTS
    Paths, ConfigPath,      \* what may be loaded; the root declaration
    MaxTracked,             \* MAX_TRACKED_PATHS, the maximum of copyPaths too
    Dirs, Names, Layouts,   \* Layouts: what realpath may tell of the paths
    Delay, MaxWait          \* the debounce delay and maxWaitMs, in ticks

ASSUME WatchConstants ==
    /\ IsFiniteSet(Paths) /\ ConfigPath \in Paths /\ MaxTracked \in Nat \ {0}
    /\ Layouts \subseteq [Paths -> Dirs \X Names]
    /\ Delay \in Nat /\ MaxWait \in Nat /\ Delay <= MaxWait

VARIABLES
    started,                \* the answer of watchConfigPathSet: "setup", "initial", "ok", "failed"
    initial,                \* outcome of the first refresh, which the setup awaits
    aborted,                \* input.signal
    closed, watchFailed,
    watch,                  \* watch[d]: the names the handle of d selects, {} without a handle
    timer, maxWaitTimer,    \* ticks left, None when undefined
    pendingCancellations,   \* the jobs whose cancellation failed: they may still fire
    paths, good, pending,   \* last selection; last good and current dependencies
    loadAt, next,           \* where the load stands; what its select() is about to watch
    reloader,               \* "none", "idle", "running", "closed"
    queued,                 \* a refresh waits behind the running one
    timedOut,               \* refresh() has yet to see its load_timeout
    observing, parked,      \* an asynchronous observer runs; the event parked behind it
    heard,                  \* the observer was called with watch_failed
    (* Auxiliary. *)
    seen,                   \* the layout the handles were installed for
    refused,                \* directories whose handle did not close when last asked to
    dirty                   \* an event arrived after the last load began

setupVars == <<started, aborted>>
handleVars == <<watch, seen, refused>>
timerVars == <<timer, maxWaitTimer, pendingCancellations>>
graphVars == <<paths, good, pending>>
loadVars == <<loadAt, next>>
reloadVars == <<reloader, queued, initial>>
observerVars == <<observing, parked, heard>>
vars == <<setupVars, closed, watchFailed, handleVars, timerVars, graphVars, loadVars,
          reloadVars, timedOut, observerVars, dirty>>

None == -1
Awaiting == {"rebind", "select", "final"}       \* selections that await resolveWatchGroups

(* Promise continuations run before the next timer or file system callback. *)
MicrotaskPending ==
    \/ timedOut \/ loadAt \in {"loaded", "failed"}
    \/ started = "initial" /\ initial \notin {"none", "pending"}

TypeOK ==
    /\ started \in {"setup", "initial", "ok", "failed"}
    /\ initial \in {"none", "pending", "ended", "load_timeout", "closed"}
    /\ aborted \in BOOLEAN /\ closed \in BOOLEAN /\ watchFailed \in BOOLEAN
    /\ watch \in [Dirs -> SUBSET Names] /\ seen \in Layouts /\ refused \subseteq Dirs
    /\ timer \in None..Delay /\ maxWaitTimer \in None..MaxWait
    /\ pendingCancellations \subseteq {"timer", "maxWait"}
    /\ {paths, good, pending, next} \subseteq SUBSET Paths
    /\ loadAt \in Awaiting \cup {"none", "reading", "loaded", "failed"}
    /\ reloader \in {"none", "idle", "running", "closed"} /\ queued \in BOOLEAN
    /\ timedOut \in BOOLEAN /\ observing \in BOOLEAN /\ heard \in BOOLEAN
    /\ parked \in {"none", "watch_failed", "other"} /\ dirty \in BOOLEAN

-----------------------------------------------------------------------------
(***************************************************************************)
(* The reloader, as the watcher sees it.                                   *)
(***************************************************************************)
Deliver(e) ==                           \* onChange is synchronous or not
    /\ observing' \in BOOLEAN
    /\ heard' = (heard \/ e = "watch_failed")

notify(e) ==
    IF observing THEN parked' = e /\ UNCHANGED <<observing, heard>>
    ELSE Deliver(e) /\ UNCHANGED parked

(* A load begins with select(paths, true). *)
beginLoad ==
    /\ reloader' = "running" /\ queued' = FALSE
    /\ loadAt' = "rebind" /\ next' = paths
    /\ dirty' = FALSE

Bug_joins == UNCHANGED queued           \* satisfied by the running load
joins == queued' = TRUE
requestRefresh ==
    \/ reloader = "idle" /\ beginLoad /\ UNCHANGED initial
    \/ reloader = "running" /\ joins /\ UNCHANGED <<reloader, initial, loadVars, dirty>>
    \/ reloader \notin {"idle", "running"} /\ UNCHANGED <<reloadVars, loadVars, dirty>>

stopReloader(reason) ==
    /\ reloader' = "closed" /\ queued' = FALSE
    /\ initial' = IF initial = "pending" THEN reason ELSE initial
    /\ parked' = "none"

-----------------------------------------------------------------------------
(***************************************************************************)
(* Releasing everything.                                                   *)
(***************************************************************************)
Jobs == pendingCancellations \cup (IF timer # None THEN {"timer"} ELSE {})
                             \cup (IF maxWaitTimer # None THEN {"maxWait"} ELSE {})

Bug_clearTimers(stuck) ==               \* forgets the second timer
    /\ stuck \subseteq Jobs
    /\ timer' = None /\ pendingCancellations' = stuck /\ UNCHANGED maxWaitTimer
clearTimers(stuck) ==
    /\ stuck \subseteq Jobs
    /\ timer' = None /\ maxWaitTimer' = None
    /\ pendingCancellations' = stuck

(* Handles and timers are released one by one; those that refuse are kept. w is *)
(* what the handles watch by now.                                               *)
release(w) ==
    /\ closed' = TRUE
    /\ \E stuck \in SUBSET Jobs : clearTimers(stuck)
    /\ \E S \in SUBSET {d \in Dirs : w[d] # {}} :
        /\ refused' = S
        /\ watch' = [d \in Dirs |-> IF d \in S THEN w[d] ELSE {}]
    /\ UNCHANGED seen

closeWith(w) ==
    /\ release(w)
    /\ IF reloader = "closed" THEN UNCHANGED <<reloadVars, parked>> ELSE stopReloader("closed")

close == closeWith(watch) /\ UNCHANGED <<watchFailed, observing, heard>>

(* state.watchFailed(), then close(), which drops what notify parked. *)
failWatch(w) ==
    /\ watchFailed' = TRUE
    /\ IF reloader = "closed" \/ observing
       THEN UNCHANGED <<observing, heard>> ELSE Deliver("watch_failed")
    /\ closeWith(w)

-----------------------------------------------------------------------------
(***************************************************************************)
(* Selecting what to watch.                                                *)
(***************************************************************************)
groups(S, l) == [d \in Dirs |-> {n \in Names : \E p \in S : l[p] = <<d, n>>}]

(* Handles of unselected directories are closed, others installed or refiltered. *)
Bug_reconciled(g) == [d \in Dirs |-> IF watch[d] # {} /\ g[d] # {} THEN watch[d] ELSE g[d]]
reconciled(g) == g

(* If a handle cannot be closed or installed, the old and the new may both be there. *)
halfReconciled(g) == [d \in Dirs |-> IF g[d] # {} THEN g[d] ELSE watch[d]]

(* A handle could not be installed. *)
abandonSetup(g) == closeWith(halfReconciled(g))

(* The setup resolves the root and the first selection, then installs the handles *)
(* and begins the first load.                                                     *)
SetupEnds ==
    /\ started = "setup"
    /\ \/ /\ started' = "failed"        \* refused, timed out or aborted: nothing exists yet
          /\ UNCHANGED <<closed, watchFailed, handleVars, timerVars, loadVars, reloadVars,
                         observerVars, dirty>>
       \/ /\ ~aborted
          /\ \E l \in Layouts :
              \/ /\ started' = "initial" /\ initial' = "pending"
                 /\ watch' = reconciled(groups(paths, l)) /\ seen' = l
                 /\ beginLoad
                 /\ UNCHANGED <<closed, watchFailed, refused, timerVars, observerVars>>
              \/ /\ started' = "failed"
                 /\ abandonSetup(groups(paths, l))
                 /\ UNCHANGED <<watchFailed, loadVars, observing, heard, dirty>>
    /\ UNCHANGED <<aborted, graphVars, timedOut>>

mayInstall == ~closed

(* resolveWatchGroups has settled. The load that was awaiting it fails or goes on; *)
(* a selection that could not be installed stops the watcher.                      *)
SelectResumes ==
    /\ loadAt \in Awaiting
    /\ \/ /\ loadAt' = "failed"
          /\ UNCHANGED <<closed, watchFailed, handleVars, timerVars, graphVars, reloadVars,
                         observerVars>>
       \/ /\ mayInstall
          /\ \E l \in Layouts : watch' = reconciled(groups(next, l)) /\ seen' = l
          /\ paths' = next
          /\ loadAt' = IF loadAt = "final" THEN "loaded" ELSE "reading"
          /\ good' = IF loadAt = "final" THEN pending ELSE good
          /\ pending' = IF loadAt = "rebind" THEN {ConfigPath} ELSE pending
          /\ UNCHANGED <<closed, watchFailed, refused, timerVars, reloadVars, observerVars>>
       \/ /\ mayInstall
          /\ \E l \in Layouts : failWatch(halfReconciled(groups(next, l)))
          /\ loadAt' = "failed"
          /\ UNCHANGED graphVars
    /\ UNCHANGED <<setupVars, next, timedOut, dirty>>

-----------------------------------------------------------------------------
(***************************************************************************)
(* The load of watchConfig.                                                *)
(***************************************************************************)
Bug_wanted(S) == S                      \* forgets the last good dependencies
wanted(S) == good \cup S

(* An unchanged selection, in the same order, returns at once. *)
select(S, onward, through) ==
    \/ S = paths /\ loadAt' = onward /\ UNCHANGED next
    \/ loadAt' = through /\ next' = S

(* onDependencies: the loader is about to read the files of S. *)
Discover(S) ==
    /\ loadAt = "reading"
    /\ IF reloader = "closed" \/ Cardinality(wanted(pending \cup S)) > MaxTracked
       THEN loadAt' = "failed" /\ UNCHANGED <<next, pending>>
       ELSE pending' = pending \cup S /\ select(wanted(pending \cup S), "reading", "select")
    /\ UNCHANGED <<setupVars, closed, watchFailed, handleVars, timerVars, paths, good,
                   reloadVars, timedOut, observerVars, dirty>>

ReadingEnds ==
    /\ loadAt = "reading"
    /\ \/ loadAt' = "failed" /\ UNCHANGED <<next, good>>
       \/ reloader = "closed" /\ loadAt' = "loaded" /\ UNCHANGED <<next, good>>
       \/ /\ reloader # "closed"
          /\ select(pending, "loaded", "final")
          /\ good' = IF loadAt' = "loaded" THEN pending ELSE good
    /\ UNCHANGED <<setupVars, closed, watchFailed, handleVars, timerVars, paths, pending,
                   reloadVars, timedOut, observerVars, dirty>>

(* The promise of load settles; the reloader notifies and runs the queued refresh. *)
LoadEnds ==
    /\ loadAt \in {"loaded", "failed"}
    /\ IF reloader = "closed"
       THEN loadAt' = "none" /\ UNCHANGED <<next, reloadVars, observerVars, dirty>>
       ELSE /\ notify("other")
            /\ initial' = IF initial = "pending" THEN "ended" ELSE initial
            /\ IF queued THEN beginLoad
               ELSE reloader' = "idle" /\ loadAt' = "none" /\ UNCHANGED <<queued, next, dirty>>
    /\ UNCHANGED <<setupVars, closed, watchFailed, handleVars, timerVars, graphVars, timedOut>>

(* The reloader gives up its load, and itself; the watcher learns of it next. *)
LoadTimesOut ==
    /\ reloader = "running" /\ ~MicrotaskPending
    /\ (IF observing THEN UNCHANGED <<observing, heard>> ELSE Deliver("other"))
    /\ stopReloader("load_timeout")
    /\ timedOut' = TRUE
    /\ UNCHANGED <<setupVars, closed, watchFailed, handleVars, timerVars, graphVars, loadVars, dirty>>

RefreshTimedOut ==
    /\ timedOut /\ timedOut' = FALSE
    /\ close
    /\ UNCHANGED <<setupVars, graphVars, loadVars, dirty>>

Bug_startFailed == aborted \/ initial = "load_timeout"
startFailed == watchFailed \/ aborted \/ initial = "load_timeout"

InitialReturns ==
    /\ started = "initial" /\ initial \notin {"none", "pending"} /\ ~timedOut
    /\ IF startFailed
       THEN started' = "failed" /\ close
       ELSE started' = "ok" /\ UNCHANGED <<closed, watchFailed, handleVars, timerVars,
                                           reloadVars, observerVars>>
    /\ UNCHANGED <<aborted, graphVars, loadVars, timedOut, dirty>>

-----------------------------------------------------------------------------
(***************************************************************************)
(* Events of the file system, timers.                                      *)
(***************************************************************************)
Bug_armMaxWait == MaxWait               \* extended by every event
armMaxWait == IF maxWaitTimer = None THEN MaxWait ELSE maxWaitTimer

(* A selected name changed, or a name the system did not tell. Timers may throw. *)
FileEvent(d) ==
    /\ watch[d] # {} /\ ~closed /\ ~MicrotaskPending
    /\ dirty' = TRUE
    /\ \/ /\ timer' = Delay /\ maxWaitTimer' = armMaxWait
          /\ UNCHANGED <<closed, watchFailed, handleVars, pendingCancellations, reloadVars, observerVars>>
       \/ failWatch(watch)
    /\ UNCHANGED <<setupVars, graphVars, loadVars, timedOut>>

HandleError(d) ==
    /\ watch[d] # {} /\ ~MicrotaskPending
    /\ failWatch(watch)
    /\ UNCHANGED <<setupVars, graphVars, loadVars, timedOut, dirty>>

Due == timer = 0 \/ maxWaitTimer = 0

Tick ==
    /\ ~Due /\ ~MicrotaskPending /\ (timer # None \/ maxWaitTimer # None)
    /\ timer' = IF timer = None THEN None ELSE timer - 1
    /\ maxWaitTimer' = IF maxWaitTimer = None THEN None ELSE maxWaitTimer - 1
    /\ UNCHANGED <<setupVars, closed, watchFailed, handleVars, pendingCancellations, graphVars,
                   loadVars, reloadVars, timedOut, observerVars, dirty>>

(* A timer that is due, or one that could not be cancelled, fires. *)
flush ==
    /\ ~MicrotaskPending /\ (Due \/ pendingCancellations # {})
    /\ \/ failWatch(watch) /\ UNCHANGED <<loadVars, dirty>>     \* a cancellation failed
       \/ /\ clearTimers({})
          /\ IF closed THEN UNCHANGED <<loadVars, reloadVars, dirty>> ELSE requestRefresh
          /\ UNCHANGED <<closed, watchFailed, handleVars, observerVars>>
    /\ UNCHANGED <<setupVars, graphVars, timedOut>>

-----------------------------------------------------------------------------
(***************************************************************************)
(* The application.                                                        *)
(***************************************************************************)
ObserverSettles ==
    /\ observing
    /\ IF parked = "none" THEN observing' = FALSE /\ UNCHANGED heard ELSE Deliver(parked)
    /\ parked' = "none"
    /\ UNCHANGED <<setupVars, closed, watchFailed, handleVars, timerVars, graphVars, loadVars,
                   reloadVars, timedOut, dirty>>

Refresh ==
    /\ started = "ok" /\ requestRefresh
    /\ UNCHANGED <<setupVars, closed, watchFailed, handleVars, timerVars, graphVars, timedOut,
                   observerVars>>

Close ==
    /\ started = "ok" /\ close
    /\ UNCHANGED <<setupVars, graphVars, loadVars, timedOut, dirty>>

(* The listener of the signal is there from the end of the setup to the first close. *)
Abort ==
    /\ ~aborted /\ aborted' = TRUE
    /\ IF started \in {"initial", "ok"} /\ ~closed THEN close
       ELSE UNCHANGED <<closed, watchFailed, handleVars, timerVars, reloadVars, observerVars>>
    /\ UNCHANGED <<started, graphVars, loadVars, timedOut, dirty>>

Init ==
    /\ started = "setup" /\ initial = "none"
    /\ aborted = FALSE /\ closed = FALSE /\ watchFailed = FALSE
    /\ watch = [d \in Dirs |-> {}] /\ seen \in Layouts /\ refused = {}
    /\ timer = None /\ maxWaitTimer = None /\ pendingCancellations = {}
    /\ paths = {ConfigPath} /\ good = {ConfigPath} /\ pending = {ConfigPath}
    /\ loadAt = "none" /\ next = {}
    /\ reloader = "none" /\ queued = FALSE /\ timedOut = FALSE
    /\ observing = FALSE /\ parked = "none" /\ heard = FALSE
    /\ dirty = FALSE

(* What the program, its timers and its deadline do by themselves. *)
Progress == SetupEnds \/ LoadEnds \/ LoadTimesOut \/ RefreshTimedOut \/ InitialReturns

Environment ==
    \/ SelectResumes \/ ReadingEnds \/ ObserverSettles
    \/ \E S \in SUBSET Paths : Discover(S)
    \/ \E d \in Dirs : FileEvent(d) \/ HandleError(d)
    \/ Refresh \/ Close \/ Abort

Next == Progress \/ Tick \/ flush \/ Environment

Spec == Init /\ [][Next]_vars

(* Deadlines and timers fire; no I/O, event, observer or call need ever happen. *)
FairSpec ==
    /\ Spec
    /\ WF_vars(LoadEnds) /\ WF_vars(LoadTimesOut)
    /\ WF_vars(RefreshTimedOut) /\ WF_vars(InitialReturns)
    /\ WF_vars(Tick) /\ WF_vars(flush)

-----------------------------------------------------------------------------
(* A closed watcher holds only what refused to be released when last asked to: *)
(* whatever was in flight when it closed neither kept nor acquired anything.   *)
(* A setup that fails has released what it had acquired, or is closed.         *)
NothingLeaksAfterClose ==
    /\ closed => /\ timer = None /\ maxWaitTimer = None
                 /\ \A d \in Dirs : watch[d] # {} => d \in refused
    /\ started = "failed" =>
           /\ timer = None /\ maxWaitTimer = None /\ ~queued
           /\ closed \/ \A d \in Dirs : watch[d] = {}

(* A watcher is returned alive: neither a watch error, nor an abort, nor a load  *)
(* that missed its deadline stopped it behind the back of the setup.             *)
ReturnedAlive ==
    [][started' = "ok" /\ started # "ok" => ~closed /\ reloader # "closed"]_vars

(* Until a load begins after an event, both timers or a queued refresh remember it. *)
NoEventForgotten ==
    dirty /\ reloader # "closed" => queued \/ (timer # None /\ maxWaitTimer # None)

(* While the loader reads, every file it was told of is watched, where the last *)
(* selection found it, so that no change is lost between reading and watching.  *)
WatchedBeforeRead ==
    loadAt = "reading" /\ ~closed => pending \subseteq paths /\ watch = groups(paths, seen)

(* Between loads the dependencies of the last good configuration are watched,   *)
(* also when later attempts failed: an edit of one of them can repair it.       *)
GoodStaysWatched ==
    reloader = "idle" /\ ~closed => good \subseteq paths /\ watch = groups(paths, seen)

(* Every event leads to a load that begins after it, unless the watcher closes. *)
EventsAreLoaded == dirty ~> ~dirty \/ closed

(* reload.md:165: "A watch error emits rejected/watch_failed and closes the      *)
(* watcher": onChange is called with it, or will be.                            *)
WatchErrorIsEmitted ==
    [][(\E d \in Dirs : HandleError(d)) /\ reloader # "closed"
           => heard' \/ parked' = "watch_failed"]_vars
=============================================================================
