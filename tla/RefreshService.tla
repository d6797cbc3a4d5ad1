--------------------------- MODULE RefreshService ---------------------------
(***************************************************************************)
(* What a configuration reloader promises its callers, with no event loop, *)
(* callback, promise or timer in sight.                                    *)
(*                                                                         *)
(* Callers ask for refreshes.  Loads are begun one at a time; a load that  *)
(* begins serves every request that is waiting at that moment and none     *)
(* that is asked later.  A load may publish its result, once, and all the  *)
(* requests it serves then get one and the same answer.  The service may   *)
(* be shut at any moment: every request outstanding is answered at once    *)
(* with the reason of the shutdown, and nothing is published any more.     *)
(***************************************************************************)
EXTENDS Naturals

CONSTANTS
    Requests,       \* the calls of refresh()
    LoadFailures,   \* why a load may be answered without being published
    ShutReasons     \* why the service may be shut

VARIABLES
    open,           \* the service accepts requests
    shutReason,     \* why it was shut
    stage,          \* stage[r]: "idle", "waiting", "served" or "answered"
    reply,          \* reply[r]: the answer of an answered request
    begun,          \* how many loads were begun
    published,      \* the load whose result is published, 0 for none
    version         \* how many results were published

vars == <<open, shutReason, stage, reply, begun, published, version>>

Success == [ok |-> TRUE, version |-> version, reason |-> "none", load |-> published]
Failure(why) == [ok |-> FALSE, version |-> version, reason |-> why, load |-> 0]

At(s) == {r \in Requests : stage[r] = s}
Move(S, to) == stage' = [r \in Requests |-> IF r \in S THEN to ELSE stage[r]]
Reply(S, a) == reply' = [r \in Requests |-> IF r \in S THEN a ELSE reply[r]]

Init ==
    /\ open \in BOOLEAN
    /\ shutReason = "closed"
    /\ stage = [r \in Requests |-> "idle"]
    /\ reply = [r \in Requests |-> Failure("none")]
    /\ begun = 0 /\ published = 0 /\ version = 0

(* A request joins those that wait for the next load. *)
Ask(r) ==
    /\ open /\ stage[r] = "idle"
    /\ Move({r}, "waiting")
    /\ UNCHANGED <<open, shutReason, reply, begun, published, version>>

(* The next load begins; S may hold one request asked at this very moment. *)
Begin(S) ==
    /\ open /\ At("served") = {}
    /\ S # {} /\ At("waiting") \subseteq S /\ S \subseteq At("waiting") \cup At("idle")
    /\ Move(S, "served")
    /\ begun' = begun + 1
    /\ UNCHANGED <<open, shutReason, reply, published, version>>

(* The running load publishes its result, at most once. *)
Publish ==
    /\ open /\ At("served") # {} /\ published # begun
    /\ published' = begun /\ version' = version + 1
    /\ UNCHANGED <<open, shutReason, stage, reply, begun>>

(* The running load ends: one answer for all the requests it serves. *)
Answer ==
    /\ open /\ At("served") # {}
    /\ Move(At("served"), "answered")
    /\ \/ published = begun /\ Reply(At("served"), Success)
       \/ published # begun /\ \E why \in LoadFailures : Reply(At("served"), Failure(why))
    /\ UNCHANGED <<open, shutReason, begun, published, version>>

(* Shutting answers every outstanding request. *)
Shut(why) ==
    /\ open
    /\ open' = FALSE /\ shutReason' = why
    /\ Move(At("waiting") \cup At("served"), "answered")
    /\ Reply(At("waiting") \cup At("served"), Failure(why))
    /\ UNCHANGED <<begun, published, version>>

(* A request that comes too late. *)
Refuse(r) ==
    /\ ~open /\ stage[r] = "idle"
    /\ Move({r}, "answered") /\ Reply({r}, Failure(shutReason))
    /\ UNCHANGED <<open, shutReason, begun, published, version>>

Next ==
    \/ \E r \in Requests : Ask(r) \/ Refuse(r) \/ Begin(At("waiting") \cup {r})
    \/ Publish \/ Answer
    \/ \E why \in ShutReasons : Shut(why)

Spec == Init /\ [][Next]_vars
=============================================================================
