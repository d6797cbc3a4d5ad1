---------------------------- MODULE Application ----------------------------
(***************************************************************************)
(* explain and validate of the command line, and of an application that    *)
(* does the same: a declaration is discovered, or named, and then loaded.  *)
(***************************************************************************)
EXTENDS Discovery, LoadConfig

vars == <<discoveryVars, loadVars>>

(* A declaration is named; or it is searched for, and loaded when it was found. *)
Named ==
    /\ entry = [c \in Candidates |-> "absent"] /\ entryChanges = 0 /\ lasting = {}
    /\ search = "done" /\ start = 1 /\ directory = 1 /\ name = 1

(* discoverPipelineDeclaration has returned; its findings are not looked at again. *)
HandOver ==
    /\ search = "found" /\ search' = "done"
    /\ entry' = [c \in Candidates |-> "absent"] /\ entryChanges' = 0 /\ lasting' = {}
    /\ start' = 1 /\ directory' = 1 /\ name' = 1
    /\ UNCHANGED loadVars

Init == (DiscoveryInit \/ Named) /\ LoadInit

Next ==
    \/ DiscoveryNext /\ UNCHANGED loadVars
    \/ HandOver
    \/ search = "done" /\ LoadNext /\ UNCHANGED discoveryVars

Spec == Init /\ [][Next]_vars
=============================================================================
