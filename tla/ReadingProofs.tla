---------------------------- MODULE ReadingProofs ----------------------------
(***************************************************************************)
(* What reading files promises for every number of reads, every capacity   *)
(* of the limiter, every size, and whatever other programs do; what        *)
(* reading a declaration with all it extends promises for every disk,      *)
(* every set of declarations, every budget and any number of edits; and    *)
(* what validation, selection, normalisation, the environment and the      *)
(* arguments make of one declaration.                                      *)
(***************************************************************************)
EXTENDS FileRead, Inheritance, DeclaredInput, DiagnosticsProofs, FiniteSetTheorems, WellFoundedInduction

(* All of TypeOK but the bounds of the count, which follow from the leases. *)
Types ==
    /\ active \in Int
    /\ lease \in [Reads -> {"none", "held", "released"}]
    /\ at \in [Reads -> AwaitedIO \cup {"idle", "parse", "done"}]
    /\ aborted \in [Reads -> BOOLEAN]
    /\ handle \in [Reads -> {"none", "open", "closed", "unconfirmed"}]
    /\ opened \in [Reads -> Files \cup {NoFile}]
    /\ statSize \in [Reads -> Nat] /\ total \in [Reads -> Nat]
    /\ canonical \in [Reads -> Places]
    /\ verdict \in [Reads -> Verdicts]
    /\ target \in Places /\ content \in [Places -> Files \cup {NoFile}]
    /\ size \in [Files -> 0..MaxSize] /\ changes \in 0..MaxChanges
    /\ foundAt \in [Reads -> SUBSET Places]

Verifying == {"stat", "realpath", "identity", "root", "read"}

(* Where the code of a read stands decides what it holds. *)
Holding(r) ==
    /\ at[r] = "idle" => lease[r] = "none" /\ handle[r] = "none" /\ verdict[r] = "none"
    /\ at[r] = "open" => lease[r] = "held" /\ handle[r] = "none" /\ verdict[r] = "none"
    /\ at[r] \in Verifying => verdict[r] = "none"
    /\ at[r] = "close" => verdict[r] # "none"
    /\ at[r] \in Verifying \cup {"close"} => lease[r] = "held" /\ handle[r] = "open" /\ opened[r] \in Files
    /\ at[r] = "parse" => lease[r] = "released" /\ handle[r] = "closed" /\ verdict[r] = "ok"
    /\ at[r] = "done" => /\ handle[r] # "open" /\ verdict[r] # "none"
                         /\ lease[r] = "held" <=> handle[r] = "unconfirmed"

HoldInv == Types /\ \A r \in Reads : Holding(r)

-----------------------------------------------------------------------------
(***************************************************************************)
(* Types and what is held.                                                 *)
(***************************************************************************)
LEMMA HoldStep == HoldInv /\ [Next]_vars => HoldInv'
<1>. SUFFICES ASSUME HoldInv, [Next]_vars PROVE HoldInv'
    OBVIOUS
<1>. Types /\ \A r \in Reads : Holding(r)
    BY DEF HoldInv
<1>. USE DEF readVars, diskVars, Keep
<1>1. ASSUME NEW r \in Reads, Start(r) PROVE HoldInv'
    <2>1. Types'
        BY <1>1 DEF Start, Types, Acquire, await, decide, AwaitedIO, Verdicts
    <2>2. ASSUME NEW q \in Reads PROVE Holding(q)'
        BY <1>1 DEF Start, Types, Holding, Acquire, await, decide, Verifying
    <2>3. QED
        BY <2>1, <2>2 DEF HoldInv
<1>2. ASSUME NEW r \in Reads, OpenFails(r) PROVE HoldInv'
    <2>1. Types'
        BY <1>2 DEF OpenFails, Types, Release, await, decide, failure, AwaitedIO, Verdicts
    <2>2. ASSUME NEW q \in Reads PROVE Holding(q)'
        BY <1>2 DEF OpenFails, Types, Holding, Release, await, decide, failure, Verifying
    <2>3. QED
        BY <2>1, <2>2 DEF HoldInv
<1>3. ASSUME NEW r \in Reads, OpenReturns(r) PROVE HoldInv'
    <2>1. Types'
        BY <1>3 DEF OpenReturns, Types, proceed, closing, await, decide, AwaitedIO, Verdicts
    <2>2. ASSUME NEW q \in Reads PROVE Holding(q)'
        BY <1>3 DEF OpenReturns, Types, Holding, proceed, closing, await, decide, Verifying
    <2>3. QED
        BY <2>1, <2>2 DEF HoldInv
<1>4. ASSUME NEW r \in Reads, StatReturns(r) PROVE HoldInv'
    <2>1. size[opened[r]] \in Nat
        BY <1>4, FileConstants DEF StatReturns, Types, Holding, Verifying, FileConstants
    <2>2. Types'
        BY <1>4, <2>1 DEF StatReturns, Types, proceed, closing, await, decide, AwaitedIO, Verdicts
    <2>3. ASSUME NEW q \in Reads PROVE Holding(q)'
        BY <1>4 DEF StatReturns, Types, Holding, proceed, closing, await, decide, Verifying
    <2>4. QED
        BY <2>2, <2>3 DEF HoldInv
<1>5. ASSUME NEW r \in Reads, CallFails(r) \/ BoundaryCallFails(r) PROVE HoldInv'
    <2>1. Types'
        BY <1>5 DEF CallFails, BoundaryCallFails, Types, refuse, failure, closing, await, decide, AwaitedIO, Verdicts
    <2>2. ASSUME NEW q \in Reads PROVE Holding(q)'
        BY <1>5 DEF CallFails, BoundaryCallFails, Types, Holding, refuse, failure, closing, await, decide, Verifying
    <2>3. QED
        BY <2>1, <2>2 DEF HoldInv
<1>6. ASSUME NEW r \in Reads, RealpathReturns(r) PROVE HoldInv'
    <2>1. Types'
        BY <1>6 DEF RealpathReturns, Types, await, AwaitedIO
    <2>2. ASSUME NEW q \in Reads PROVE Holding(q)'
        BY <1>6 DEF RealpathReturns, Types, Holding, await, Verifying
    <2>3. QED
        BY <2>1, <2>2 DEF HoldInv
<1>7. ASSUME NEW r \in Reads, IdentityReturns(r) PROVE HoldInv'
    <2>1. Types'
        BY <1>7 DEF IdentityReturns, Types, refuse, closing, await, decide, AwaitedIO, Verdicts
    <2>2. ASSUME NEW q \in Reads PROVE Holding(q)'
        BY <1>7 DEF IdentityReturns, Types, Holding, refuse, closing, await, decide, Verifying
    <2>3. QED
        BY <2>1, <2>2 DEF HoldInv
<1>8. ASSUME NEW r \in Reads, RootReturns(r) PROVE HoldInv'
    <2>1. Types'
        BY <1>8 DEF RootReturns, Types, proceed, refuse, closing, await, decide, AwaitedIO, Verdicts
    <2>2. ASSUME NEW q \in Reads PROVE Holding(q)'
        BY <1>8 DEF RootReturns, Types, Holding, proceed, refuse, closing, await, decide, Verifying
    <2>3. QED
        BY <2>1, <2>2 DEF HoldInv
<1>9. ASSUME NEW r \in Reads, ReadReturns(r) PROVE HoldInv'
    <2>. PICK n \in 0..Chunk :
            /\ total' = [total EXCEPT ![r] = @ + n]
            /\ \/ \E v \in Verdicts \ {"none"} : closing(r, v)
               \/ UNCHANGED <<at, verdict>>
        BY <1>9 DEF ReadReturns, Verdicts
    <2>1. Types'
        BY <1>9, FileConstants DEF ReadReturns, Types, closing, await, decide, AwaitedIO, FileConstants
    <2>2. ASSUME NEW q \in Reads PROVE Holding(q)'
        BY <1>9 DEF ReadReturns, Types, Holding, closing, await, decide, Verifying
    <2>3. QED
        BY <2>1, <2>2 DEF HoldInv
<1>10. ASSUME NEW r \in Reads, CloseReturns(r) PROVE HoldInv'
    <2>1. Types'
        BY <1>10 DEF CloseReturns, Types, Release, answered, await, decide, AwaitedIO, Verdicts
    <2>2. ASSUME NEW q \in Reads PROVE Holding(q)'
        BY <1>10 DEF CloseReturns, Types, Holding, Release, answered, await, decide, Verifying
    <2>3. QED
        BY <2>1, <2>2 DEF HoldInv
<1>11. ASSUME NEW r \in Reads, CloseFails(r) PROVE HoldInv'
    <2>1. Types'
        BY <1>11 DEF CloseFails, cleanupFailed, Types, afterFailedClose, failure, answered, await, decide, AwaitedIO,
                     Verdicts
    <2>2. ASSUME NEW q \in Reads PROVE Holding(q)'
        BY <1>11 DEF CloseFails, cleanupFailed, Types, Holding, afterFailedClose, failure, answered, await, decide,
                     Verifying
    <2>3. QED
        BY <2>1, <2>2 DEF HoldInv
<1>12. ASSUME NEW r \in Reads, ParseEnds(r) PROVE HoldInv'
    <2>1. Types'
        BY <1>12 DEF ParseEnds, Types, await, decide, AwaitedIO, Verdicts
    <2>2. ASSUME NEW q \in Reads PROVE Holding(q)'
        BY <1>12 DEF ParseEnds, Types, Holding, await, decide, Verifying
    <2>3. QED
        BY <2>1, <2>2 DEF HoldInv
<1>13. ASSUME NEW r \in Reads, Abort(r) PROVE HoldInv'
    BY <1>13 DEF Abort, HoldInv, Types, Holding
<1>14. CASE OtherPrograms
    <2>1. Types'
        <3>1. changes' \in 0..MaxChanges
            BY <1>14, FileConstants DEF OtherPrograms, Retarget, Replace, Resize, DiskChange, Types, FileConstants
        <3>2. CASE \E p \in Places : Retarget(p)
            BY <3>1, <3>2 DEF Retarget, DiskChange, Types
        <3>3. CASE \E p \in Places, f \in Files \cup {NoFile} : Replace(p, f)
            BY <3>1, <3>3 DEF Replace, DiskChange, Types
        <3>4. CASE \E f \in Files, n \in 0..MaxSize : Resize(f, n)
            BY <3>1, <3>4 DEF Resize, DiskChange, Types
        <3>5. QED
            BY <1>14, <3>2, <3>3, <3>4 DEF OtherPrograms
    <2>2. ASSUME NEW q \in Reads PROVE Holding(q)'
        BY <1>14 DEF OtherPrograms, Retarget, Replace, Resize, DiskChange, Holding
    <2>3. QED
        BY <2>1, <2>2 DEF HoldInv
<1>15. CASE UNCHANGED vars
    BY <1>15 DEF vars, HoldInv, Types, Holding
<1>16. QED
    BY <1>1, <1>2, <1>3, <1>4, <1>5, <1>6, <1>7, <1>8, <1>9, <1>10, <1>11, <1>12, <1>13, <1>14, <1>15
    DEF Next, IOReturns

LEMMA HoldInvCorrect == Spec => []HoldInv
<1>1. Init => HoldInv
    BY FileConstants DEF Init, HoldInv, Types, Holding, FileConstants, Verdicts, Verifying
<1>2. QED
    BY <1>1, HoldStep, PTL DEF Spec

-----------------------------------------------------------------------------
(***************************************************************************)
(* Leases.                                                                 *)
(***************************************************************************)
Held == {r \in Reads : lease[r] = "held"}
LeaseInv == active = Cardinality(Held) /\ active <= MaxConcurrent

LEMMA HeldIsFinite == IsFiniteSet(Held) /\ Cardinality(Held) \in Nat
BY ReadsFinite, FS_Subset, FS_CardinalityType DEF Held

LEMMA Acquired ==
    ASSUME HoldInv, LeaseInv, NEW r \in Reads, Acquire(r), ~full, lease[r] # "held"
    PROVE  LeaseInv'
<1>1. Held' = Held \cup {r} /\ r \notin Held
    BY DEF Held, Acquire, HoldInv, Types
<1>2. Cardinality(Held') = Cardinality(Held) + 1
    BY <1>1, HeldIsFinite, FS_AddElement
<1>3. QED
    BY <1>2, HeldIsFinite, CapacityPositive DEF LeaseInv, Acquire, full, Held

LEMMA Returned ==
    ASSUME HoldInv, LeaseInv, NEW r \in Reads, Release(r), lease[r] = "held"
    PROVE  LeaseInv'
<1>1. Held' = Held \ {r} /\ r \in Held
    BY DEF Held, Release, HoldInv, Types
<1>2. Cardinality(Held') = Cardinality(Held) - 1
    BY <1>1, HeldIsFinite, FS_RemoveElement
<1>3. QED
    BY <1>2, HeldIsFinite, CapacityPositive DEF LeaseInv, Release, Held

LEMMA LeaseStep == HoldInv /\ LeaseInv /\ [Next]_vars => LeaseInv'
<1>. SUFFICES ASSUME HoldInv, LeaseInv, [Next]_vars PROVE LeaseInv'
    OBVIOUS
<1>. \A r \in Reads : Holding(r)
    BY DEF HoldInv
<1>. USE DEF readVars, diskVars
<1>1. CASE Keep
    BY <1>1 DEF Keep, LeaseInv, Held
<1>2. ASSUME NEW r \in Reads, Start(r), ~Keep PROVE LeaseInv'
    BY <1>2, Acquired DEF Start, Holding
<1>3. ASSUME NEW r \in Reads, OpenFails(r) PROVE LeaseInv'
    BY <1>3, Returned DEF OpenFails, Holding
<1>4. ASSUME NEW r \in Reads, CloseReturns(r) PROVE LeaseInv'
    BY <1>4, Returned DEF CloseReturns, Holding
<1>5. QED
    BY <1>1, <1>2, <1>3, <1>4
    DEF Next, IOReturns, OpenReturns, StatReturns, CallFails, BoundaryCallFails, RealpathReturns, IdentityReturns,
        RootReturns, ReadReturns, CloseFails, cleanupFailed, ParseEnds, Abort, OtherPrograms, Retarget, Replace,
        Resize, DiskChange, vars, Keep

LEMMA LeaseInvCorrect == Spec => []LeaseInv
<1>1. Init => LeaseInv
    <2>. SUFFICES ASSUME Init PROVE LeaseInv
        OBVIOUS
    <2>1. Held = {}
        BY DEF Init, Held
    <2>2. Cardinality(Held) = 0
        BY <2>1, FS_EmptySet
    <2>3. active = 0
        BY DEF Init
    <2>4. QED
        BY <2>2, <2>3, CapacityPositive DEF LeaseInv
<1>2. QED
    BY <1>1, HoldInvCorrect, LeaseStep, PTL DEF Spec

(* Every variable keeps its type, the limiter's count its bounds: file.ts and    *)
(* file-read-limiter.ts.                                                         *)
THEOREM TypeCorrect == Spec => []TypeOK
<1>1. HoldInv /\ LeaseInv => TypeOK
    <2>. SUFFICES ASSUME HoldInv, LeaseInv PROVE TypeOK
        OBVIOUS
    <2>1. active \in 0..MaxConcurrent
        BY HeldIsFinite, CapacityPositive DEF LeaseInv
    <2>2. Types
        BY DEF HoldInv
    <2>3. QED
        BY <2>1, <2>2 DEF Types, TypeOK
<1>2. QED
    BY <1>1, HoldInvCorrect, LeaseInvCorrect, PTL

(* The count is the number of leases out, and a lease is out exactly while its   *)
(* file is being opened, open, or not known to be closed: tryAcquire, and every  *)
(* release in readTextFileWithinLimit.                                           *)
THEOREM LeasesAlwaysMatch == Spec => []LeasesMatchFiles
<1>1. HoldInv /\ LeaseInv => LeasesMatchFiles
    <2>. SUFFICES ASSUME HoldInv, LeaseInv PROVE LeasesMatchFiles
        OBVIOUS
    <2>1. ASSUME NEW r \in Reads PROVE lease[r] = "held" <=> r \in Occupied
        <3>1. Holding(r) /\ at[r] \in Verifying \cup {"idle", "open", "close", "parse", "done"}
            BY DEF HoldInv, Types, AwaitedIO, Verifying
        <3>2. QED
            BY <3>1 DEF Holding, Occupied, Verifying
    <2>2. QED
        BY <2>1 DEF LeaseInv, Held, LeasesMatchFiles
<1>2. QED
    BY <1>1, HoldInvCorrect, LeaseInvCorrect, PTL

(* After an abort nothing is opened, asked for or parsed, and no next chunk is   *)
(* asked for: assertFileActive after each await and between two chunks, and the  *)
(* checks of loadTextFileSource.                                                 *)
THEOREM AbortStopsReading == Spec => NoReadAfterAbort
<1>1. HoldInv /\ [Next]_vars =>
        [\A r \in Reads : aborted[r] /\ (at'[r] # at[r] \/ total'[r] # total[r])
                              => at'[r] \notin {"open", "read", "parse"}]_vars
    <2>. SUFFICES ASSUME HoldInv, Next, NEW q \in Reads, aborted[q], at'[q] # at[q] \/ total'[q] # total[q]
                  PROVE  at'[q] \notin {"open", "read", "parse"}
        OBVIOUS
    <2>. /\ at \in [Reads -> AwaitedIO \cup {"idle", "parse", "done"}]
         /\ total \in [Reads -> Nat]
        BY DEF HoldInv, Types
    <2>. USE DEF readVars, diskVars
    <2>1. PICK r \in Reads : Start(r) \/ IOReturns(r)
        BY DEF Next, OtherPrograms, Retarget, Replace, Resize, DiskChange, Abort
    <2>2. \A call : await(r, call) /\ q = r => at'[q] = call
        BY DEF await
    <2>3. q = r
        BY <2>1 DEF Start, IOReturns, OpenFails, OpenReturns, StatReturns, CallFails, BoundaryCallFails, RealpathReturns,
                    IdentityReturns, RootReturns, ReadReturns, CloseReturns, CloseFails, ParseEnds, answered, proceed,
                    closing, refuse, await
    <2>4. \A call : proceed(r, call) => at'[q] = "close"
        BY <2>2, <2>3 DEF proceed, closing
    <2>5. CASE Start(r) \/ OpenFails(r)
        BY <2>2, <2>3, <2>5 DEF Start, OpenFails
    <2>6. CASE OpenReturns(r) \/ StatReturns(r)
        BY <2>4, <2>6 DEF OpenReturns, StatReturns
    <2>7. CASE CallFails(r) \/ BoundaryCallFails(r) \/ RealpathReturns(r) \/ IdentityReturns(r)
        BY <2>2, <2>3, <2>7 DEF CallFails, BoundaryCallFails, RealpathReturns, IdentityReturns, refuse, closing
    <2>8. CASE RootReturns(r)
        BY <2>2, <2>3, <2>4, <2>8 DEF RootReturns, refuse, closing
    <2>9. CASE ReadReturns(r)
        BY <2>2, <2>3, <2>9 DEF ReadReturns, cancelledBetweenChunks, closing
    <2>10. CASE CloseReturns(r) \/ CloseFails(r)
        BY <2>2, <2>3, <2>10 DEF CloseReturns, CloseFails, answered
    <2>11. CASE ParseEnds(r)
        BY <2>2, <2>3, <2>11 DEF ParseEnds
    <2>12. QED
        BY <2>1, <2>5, <2>6, <2>7, <2>8, <2>9, <2>10, <2>11 DEF IOReturns
<1>2. QED
    BY <1>1, HoldInvCorrect, PTL DEF Spec, NoReadAfterAbort

-----------------------------------------------------------------------------
(***************************************************************************)
(* Contents.                                                               *)
(***************************************************************************)
(* Where the file of an open handle is, it has been seen; what verification has  *)
(* found out so far; how much has been read.                                     *)
Sound(r) ==
    /\ handle[r] = "open" => \A p \in Places : content[p] = opened[r] => p \in foundAt[r]
    /\ at[r] = "root" => canonical[r] \in foundAt[r]
    /\ at[r] = "read" \/ verdict[r] \in {"ok", "loaded"} => foundAt[r] \cap Inside # {}
    /\ verdict[r] \in {"none", "ok", "loaded"} => total[r] <= MaxBytes
    /\ verdict[r] = "loaded" => at[r] = "done" /\ ~aborted[r] /\ handle[r] = "closed"

ContentInv == \A r \in Reads : Sound(r)

(* Equal identities are the same file when no device is unknown. *)
LEMMA IdentityIsFile ==
    ASSUME \A f \in Files : f[1] # 0, NEW f \in Files, NEW g \in Files, sameFileIdentity(f, g)
    PROVE  f = g
BY FileConstants DEF FileConstants, sameFileIdentity

LEMMA ContentStep ==
    ASSUME \A f \in Files : f[1] # 0, HoldInv, ContentInv, [Next]_vars
    PROVE  ContentInv'
<1>. Types /\ (\A r \in Reads : Holding(r)) /\ \A r \in Reads : Sound(r)
    BY DEF HoldInv, ContentInv
<1>. USE DEF readVars, diskVars, Keep
<1>1. ASSUME NEW r \in Reads, Start(r), NEW q \in Reads PROVE Sound(q)'
    BY <1>1 DEF Start, Types, Holding, Sound, await, decide
<1>2. ASSUME NEW r \in Reads, OpenFails(r), NEW q \in Reads PROVE Sound(q)'
    BY <1>2 DEF OpenFails, Types, Holding, Sound, await, decide, failure
<1>3. ASSUME NEW r \in Reads, OpenReturns(r), NEW q \in Reads PROVE Sound(q)'
    BY <1>3 DEF OpenReturns, Types, Holding, Sound, proceed, closing, await, decide
<1>4. ASSUME NEW r \in Reads, StatReturns(r), NEW q \in Reads PROVE Sound(q)'
    BY <1>4 DEF StatReturns, Types, Holding, Sound, proceed, closing, await, decide, Verifying
<1>5. ASSUME NEW r \in Reads, CallFails(r) \/ BoundaryCallFails(r), NEW q \in Reads PROVE Sound(q)'
    BY <1>5 DEF CallFails, BoundaryCallFails, Types, Holding, Sound, refuse, failure, closing, await, decide, Verifying
<1>6. ASSUME NEW r \in Reads, RealpathReturns(r), NEW q \in Reads PROVE Sound(q)'
    BY <1>6 DEF RealpathReturns, Types, Holding, Sound, await, Verifying
<1>7. ASSUME NEW r \in Reads, IdentityReturns(r), NEW q \in Reads PROVE Sound(q)'
    <2>1. content[canonical[r]] \in Files /\ opened[r] \in Files /\ handle[r] = "open" /\ canonical[r] \in Places
        BY <1>7 DEF IdentityReturns, Types, Holding, Verifying
    <2>2. sameFileIdentity(opened[r], content[canonical[r]]) => canonical[r] \in foundAt[r]
        BY <2>1, IdentityIsFile DEF Sound
    <2>3. QED
        BY <1>7, <2>2 DEF IdentityReturns, Types, Holding, Sound, refuse, closing, await, decide, Verifying
<1>8. ASSUME NEW r \in Reads, RootReturns(r), NEW q \in Reads PROVE Sound(q)'
    <2>1. canonical[r] \in Inside => foundAt[r] \cap Inside # {}
        BY <1>8 DEF RootReturns, Sound
    <2>2. QED
        BY <1>8, <2>1 DEF RootReturns, Types, Holding, Sound, proceed, refuse, closing, await, decide, Verifying
<1>9. ASSUME NEW r \in Reads, ReadReturns(r), NEW q \in Reads PROVE Sound(q)'
    <2>0. at[r] = "read" /\ verdict[r] = "none"
        BY <1>9 DEF ReadReturns, Holding, Verifying
    <2>1. UNCHANGED <<aborted, handle, opened, canonical, content, foundAt>>
        BY <1>9 DEF ReadReturns
    <2>2. \A p \in Reads \ {r} : UNCHANGED <<at[p], verdict[p], total[p]>>
        BY <1>9 DEF ReadReturns, Types, closing, await, decide
    <2>3. CASE q # r
        BY <2>1, <2>2, <2>3 DEF Sound
    <2>4. CASE q = r
        <3>1. PICK n \in 0..Chunk :
                /\ total'[r] = total[r] + n
                /\ IF aborted[r] THEN closing(r, "operation_aborted")
                   ELSE IF n = 0 THEN \E v \in {"ok", "read_failed"} : closing(r, v)
                   ELSE IF tooLarge(total[r] + n) THEN closing(r, "max_file_bytes_exceeded")
                   ELSE UNCHANGED <<at, verdict>>
            BY <1>9 DEF ReadReturns, cancelledBetweenChunks, Types
        <3>2. \A v : closing(r, v) => at'[r] = "close" /\ verdict'[r] = v
            BY DEF closing, await, decide, Types
        <3>3. total[r] \in Nat /\ total[r] <= MaxBytes /\ foundAt[r] \cap Inside # {}
            BY <2>0 DEF Types, Sound
        <3>4. verdict'[r] \in {"none", "ok", "loaded"} => total'[r] <= MaxBytes
            BY <2>0, <3>1, <3>2, <3>3, FileConstants DEF tooLarge, FileConstants
        <3>5. verdict'[r] # "loaded" /\ at'[r] # "root"
            BY <2>0, <3>1, <3>2
        <3>6. QED
            BY <2>1, <2>4, <3>3, <3>4, <3>5 DEF Sound
    <2>5. QED
        BY <2>3, <2>4
<1>10. ASSUME NEW r \in Reads, CloseReturns(r), NEW q \in Reads PROVE Sound(q)'
    BY <1>10 DEF CloseReturns, Types, Holding, Sound, Release, answered, await, decide
<1>11. ASSUME NEW r \in Reads, CloseFails(r), NEW q \in Reads PROVE Sound(q)'
    BY <1>11 DEF CloseFails, cleanupFailed, Types, Holding, Sound, afterFailedClose, failure, answered, await, decide
<1>12. ASSUME NEW r \in Reads, ParseEnds(r), NEW q \in Reads PROVE Sound(q)'
    BY <1>12 DEF ParseEnds, cancelledAfterParse, Types, Holding, Sound, await, decide
<1>13. ASSUME NEW r \in Reads, Abort(r), NEW q \in Reads PROVE Sound(q)'
    BY <1>13 DEF Abort, Types, Sound
<1>14. ASSUME OtherPrograms, NEW q \in Reads PROVE Sound(q)'
    <2>1. CASE \E p \in Places, f \in Files \cup {NoFile} : Replace(p, f)
        <3>1. PICK p \in Places, f \in Files \cup {NoFile} : Replace(p, f)
            BY <2>1
        <3>2. /\ foundAt[q] \subseteq foundAt'[q]
              /\ handle[q] = "open" /\ opened[q] = f => p \in foundAt'[q]
            BY <3>1 DEF Replace, Types
        <3>3. \A x \in Places : content'[x] = content[x] \/ (x = p /\ content'[x] = f)
            BY <3>1 DEF Replace, Types
        <3>4. QED
            BY <3>1, <3>2, <3>3 DEF Replace, DiskChange, Sound
    <2>2. CASE (\E p \in Places : Retarget(p)) \/ \E f \in Files, n \in 0..MaxSize : Resize(f, n)
        BY <2>2 DEF Retarget, Resize, DiskChange, Sound
    <2>3. QED
        BY <1>14, <2>1, <2>2 DEF OtherPrograms
<1>15. ASSUME UNCHANGED vars, NEW q \in Reads PROVE Sound(q)'
    BY <1>15 DEF vars, Sound
<1>16. QED
    BY <1>1, <1>2, <1>3, <1>4, <1>5, <1>6, <1>7, <1>8, <1>9, <1>10, <1>11, <1>12, <1>13, <1>14, <1>15
    DEF Next, IOReturns, ContentInv

(* Where the system tells the device of every file, contents come from a file    *)
(* that was inside the root while it was open, are within the limit, and are     *)
(* handed over by no aborted read and behind a closed file: openFile, stat,      *)
(* realpath and the identity check of readTextFileWithinLimit.                   *)
THEOREM ContentsAreAsPromised ==
    ASSUME \A f \in Files : f[1] # 0
    PROVE  Spec => []ContentsAsPromised
<1>1. Init => ContentInv
    BY FileConstants DEF Init, ContentInv, Sound, FileConstants
<1>2. HoldInv /\ ContentInv /\ [Next]_vars => ContentInv'
    BY ContentStep
<1>3. ContentInv => ContentsAsPromised
    BY DEF ContentInv, Sound, ContentsAsPromised
<1>4. QED
    BY <1>1, <1>2, <1>3, HoldInvCorrect, PTL DEF Spec

-----------------------------------------------------------------------------
(***************************************************************************)
(* Declarations and what they extend.                                      *)
(***************************************************************************)
Frame == [file : Paths, document : Document, next : Nat \ {0}]
Declaration == [file : Paths, document : Document]
Visiting == {"notify", "parents", "read"}

VisitTypes ==
    /\ link \in Layouts /\ disk \in [Paths -> Documents]
    /\ stack \in Seq(Frame) /\ ordered \in Seq(Declaration)
    /\ seen \subseteq Workspace /\ IsFiniteSet(seen) /\ Cardinality(seen) <= MaxDeclarations
    /\ bytes \in 0..MaxDeclarationBytes

PhaseInv ==
    /\ phase \in {"start", "entry"} =>
          stack = << >> /\ ordered = << >> /\ complete = {} /\ edges = {} /\ bytes = 0
    /\ phase \in Visiting => stack # << >> /\ seen \subseteq activePaths \cup complete \cup {path}
    /\ phase \in {"notify", "parents"} => seen \subseteq activePaths \cup complete
    /\ phase = "read" => /\ path \in seen /\ path \notin activePaths /\ path \notin complete
                         /\ <<top.file, path>> \in edges /\ top.next <= Len(top.document.extends)
                         /\ Len(stack) + Len(ordered) < Cardinality(seen)
    /\ phase \in {"compile", "done"} => stack = << >> /\ ordered # << >>
    /\ phase # "failed" => failureCode = "none"

(* Every declaration is on the stack once, or complete once, and was seen. *)
VisitInv ==
    /\ complete = {ordered[i].file : i \in places}
    /\ \A i, j \in places : ordered[i].file = ordered[j].file => i = j
    /\ \A i, j \in 1..Len(stack) : stack[i].file = stack[j].file => i = j
    /\ activePaths \cap complete = {} /\ activePaths \cup complete \subseteq seen
    /\ Len(stack) + Len(ordered) <= Cardinality(seen)

(* A parent is complete before its child, or it is what the child waits for. *)
Before(e) == \E i, j \in places : i < j /\ ordered[i].file = e[2] /\ ordered[j].file = e[1]
Underway(e) ==
    \/ e[1] \in activePaths /\ e[2] \in complete
    \/ \E i \in 1..Len(stack) - 1 : e = <<stack[i].file, stack[i + 1].file>>
    \/ phase = "read" /\ e = <<top.file, path>>

EdgeInv ==
    /\ phase # "failed" => \A e \in edges : Before(e) \/ Underway(e)
    /\ \A i \in 1..Len(stack) - 1 : <<stack[i].file, stack[i + 1].file>> \in edges
    /\ \A i \in places : \/ stack = << >> /\ i = Len(ordered)
                         \/ \E e \in edges : e[2] = ordered[i].file

VisitedInv == VisitTypes /\ PhaseInv /\ VisitInv /\ EdgeInv

CycleInv == failureCode = "cycle" => phase = "failed" /\ Reaches(path, path)

(* The files of the innermost declaration are announced before its parents. *)
AnnounceInv ==
    /\ phase \in {"start", "entry"} => reads = {}
    /\ phase = "entry" => Entry \in announced
    /\ \A r \in reads : r[1] \in announced
    /\ \A f \in activePaths \cup complete : \E r \in reads : r[2] = f
    /\ phase \in Visiting => \A i \in 1..Len(stack) :
          \/ phase = "notify" /\ i = Len(stack)
          \/ \A k \in 1..Len(stack[i].document.extends) : stack[i].document.extends[k] \in announced

LEMMA LeastNumber ==
    ASSUME NEW T \in SUBSET Nat, T # {}
    PROVE  \E m \in T : \A n \in T : m <= n
<1>1. IsWellFoundedOn(OpToRel(<, Nat), Nat)
    BY NatLessThanWellFounded
<1>2. PICK m \in T : \A n \in T : ~(<<n, m>> \in OpToRel(<, Nat))
    BY <1>1, WFMin
<1>3. \A n \in T : ~(n < m)
    BY <1>2 DEF OpToRel
<1>4. QED
    BY <1>3

(* Going on to the next parent leaves the files on the stack as they are. *)
LEMMA NextParent ==
    ASSUME stack \in Seq(Frame), stack # << >>
    PROVE  LET b == [stack EXCEPT ![Len(stack)].next = @ + 1]
           IN  /\ b \in Seq(Frame) /\ Len(b) = Len(stack)
               /\ \A i \in 1..Len(stack) : b[i].file = stack[i].file /\ b[i].document = stack[i].document
<1>1. Len(stack) \in 1..Len(stack) /\ stack[Len(stack)] \in Frame
    OBVIOUS
<1>. DEFINE f == [stack[Len(stack)] EXCEPT !.next = @ + 1]
            b == [stack EXCEPT ![Len(stack)] = f]
<1>2. f \in Frame /\ f.file = stack[Len(stack)].file /\ f.document = stack[Len(stack)].document
    BY <1>1 DEF Frame
<1>. HIDE DEF f
<1>3. /\ b \in Seq(Frame) /\ Len(b) = Len(stack)
      /\ \A i \in 1..Len(stack) : b[i] = IF i = Len(stack) THEN f ELSE stack[i]
    BY <1>1, <1>2
<1>. HIDE DEF b
<1>4. \A i \in 1..Len(stack) : b[i].file = stack[i].file /\ b[i].document = stack[i].document
    BY <1>2, <1>3
<1>5. QED
    BY <1>3, <1>4 DEF b, f

(* Whatever fails leaves the declarations visited so far. *)
LEMMA FailureKeepsVisits ==
    ASSUME VisitedInv, phase' = "failed", UNCHANGED <<link, disk, stack, ordered, seen, complete, bytes>>,
           edges \subseteq edges'
    PROVE  VisitedInv'
BY DEF VisitedInv, VisitTypes, PhaseInv, VisitInv, EdgeInv, Visiting, activePaths, places

LEMMA EditKeepsVisits == VisitedInv /\ Edit => VisitedInv'
<1>. SUFFICES ASSUME VisitedInv, Edit PROVE VisitedInv'
    OBVIOUS
<1>1. link' \in Layouts /\ disk' \in [Paths -> Documents]
    BY DEF Edit, VisitedInv, VisitTypes
<1>2. UNCHANGED <<phase, failureCode, stack, path, seen, complete, ordered, bytes, edges>>
    BY DEF Edit, visitVars, logVars
<1>3. VisitTypes'
    BY <1>1, <1>2 DEF VisitedInv, VisitTypes
<1>4. PhaseInv' /\ VisitInv' /\ EdgeInv'
    BY <1>2 DEF VisitedInv, PhaseInv, VisitInv, EdgeInv, activePaths, places, top, Before, Underway
<1>5. QED
    BY <1>3, <1>4 DEF VisitedInv

LEMMA BeginKeepsVisits == VisitedInv /\ Begin => VisitedInv'
<1>. SUFFICES ASSUME VisitedInv, Begin PROVE VisitedInv'
    OBVIOUS
<1>1. /\ phase = "start" /\ UNCHANGED <<link, disk, stack, path, seen, complete, ordered, bytes, edges>>
      /\ phase' = "failed" \/ (phase' = "entry" /\ UNCHANGED failureCode)
    BY DEF Begin, fileVars, visitVars, fail
<1>2. CASE phase' = "failed"
    BY <1>1, <1>2, FailureKeepsVisits
<1>3. CASE phase' = "entry" /\ UNCHANGED failureCode
    BY <1>1, <1>3 DEF VisitedInv, VisitTypes, PhaseInv, VisitInv, EdgeInv, Visiting, activePaths, places, top
<1>4. QED
    BY <1>1, <1>2, <1>3

LEMMA NotifyKeepsVisits == VisitedInv /\ Notify => VisitedInv'
<1>. SUFFICES ASSUME VisitedInv, Notify PROVE VisitedInv'
    OBVIOUS
<1>1. /\ phase = "notify" /\ UNCHANGED <<link, disk, stack, path, seen, complete, ordered, bytes, edges>>
      /\ phase' = "failed" \/ (phase' = "parents" /\ UNCHANGED failureCode)
    BY DEF Notify, fileVars, visitVars, fail
<1>2. CASE phase' = "failed"
    BY <1>1, <1>2, FailureKeepsVisits
<1>3. CASE phase' = "parents" /\ UNCHANGED failureCode
    BY <1>1, <1>3 DEF VisitedInv, VisitTypes, PhaseInv, VisitInv, EdgeInv, Visiting, activePaths, places, top, Before, Underway
<1>4. QED
    BY <1>1, <1>2, <1>3

LEMMA CompileKeepsVisits == VisitedInv /\ Compile => VisitedInv'
<1>. SUFFICES ASSUME VisitedInv, Compile PROVE VisitedInv'
    OBVIOUS
<1>1. /\ phase = "compile" /\ UNCHANGED <<link, disk, stack, path, seen, complete, ordered, bytes, edges>>
      /\ phase' = "failed" \/ (phase' = "done" /\ UNCHANGED failureCode)
    BY DEF Compile, fileVars, visitVars, logVars, fail
<1>2. CASE phase' = "failed"
    BY <1>1, <1>2, FailureKeepsVisits
<1>3. CASE phase' = "done" /\ UNCHANGED failureCode
    BY <1>1, <1>3 DEF VisitedInv, VisitTypes, PhaseInv, VisitInv, EdgeInv, Visiting, activePaths, places, top, Before, Underway
<1>4. QED
    BY <1>1, <1>2, <1>3

(* The entry is the first declaration on the stack. *)
LEMMA EntryKeepsVisits == VisitedInv /\ ReadEntry => VisitedInv'
<1>. SUFFICES ASSUME VisitedInv, ReadEntry PROVE VisitedInv'
    OBVIOUS
<1>1. /\ phase = "entry" /\ UNCHANGED <<link, disk, path, complete, ordered, edges>>
      /\ stack = << >> /\ ordered = << >> /\ complete = {} /\ edges = {} /\ bytes = 0 /\ failureCode = "none"
    BY DEF ReadEntry, fileVars, VisitedInv, PhaseInv
<1>2. CASE phase' = "failed" /\ UNCHANGED <<stack, seen, bytes>>
    BY <1>1, <1>2, FailureKeepsVisits
<1>3. ASSUME NEW f, f = link[Entry], readable(Entry, EntryRoot, MaxFileBytes), f \in Workspace,
             enter(<< >>, f, disk[f]), seen' = {f}, bytes' = disk[f].size, UNCHANGED failureCode
      PROVE  VisitedInv'
    <2>. DEFINE frame == [file |-> f, document |-> disk[f], next |-> 1]
    <2>1. f \in Paths /\ disk[f] \in Document /\ disk[f].size \in 0..MaxDeclarationBytes
        BY <1>3, InheritanceConstants DEF InheritanceConstants, VisitedInv, VisitTypes, readable, Document
    <2>2. stack' = <<frame>> /\ frame \in Frame /\ frame.file = f
        BY <1>3, <2>1 DEF enter, Frame
    <2>. HIDE DEF frame
    <2>3. stack' \in Seq(Frame) /\ Len(stack') = 1 /\ stack'[1].file = f
        BY <2>2
    <2>4. IsFiniteSet(seen') /\ Cardinality(seen') = 1
        BY <1>3, FS_Singleton
    <2>5. phase' \in {"notify", "parents"} /\ activePaths' = {f}
        BY <1>3, <2>3 DEF enter, activePaths
    <2>6. VisitTypes'
        BY <1>1, <1>3, <2>1, <2>3, <2>4, InheritanceConstants DEF InheritanceConstants, VisitedInv, VisitTypes
    <2>7. PhaseInv'
        BY <1>1, <1>3, <2>3, <2>5 DEF PhaseInv, Visiting
    <2>8. VisitInv'
        BY <1>1, <1>3, <2>3, <2>4, <2>5 DEF VisitedInv, VisitInv, places
    <2>9. EdgeInv'
        BY <1>1, <2>3 DEF EdgeInv, places
    <2>10. QED
        BY <2>6, <2>7, <2>8, <2>9 DEF VisitedInv
<1>4. QED
    BY <1>2, <1>3 DEF ReadEntry, fail

(* A parent that is looked up is refused, known, or seen for the first time. *)
LEMMA LookUpKeepsVisits == VisitedInv /\ LookUpParent => VisitedInv'
<1>. SUFFICES ASSUME VisitedInv, LookUpParent PROVE VisitedInv'
    OBVIOUS
<1>1. /\ phase = "parents" /\ top.next <= Len(top.document.extends) /\ stack # << >>
      /\ edges' = edges \cup {<<top.file, path'>>} /\ failureCode = "none"
      /\ UNCHANGED <<link, disk, complete, ordered, bytes>>
    BY DEF LookUpParent, fileVars, VisitedInv, PhaseInv, Visiting
<1>2. stack \in Seq(Frame) /\ Len(stack) \in 1..Len(stack) /\ top.file \in activePaths
    BY <1>1 DEF VisitedInv, VisitTypes, top, activePaths
<1>3. CASE phase' = "failed" /\ UNCHANGED <<stack, seen>>
    BY <1>1, <1>3, FailureKeepsVisits
<1>4. CASE /\ path' \in complete /\ stack' = [stack EXCEPT ![Len(stack)].next = @ + 1]
           /\ UNCHANGED <<phase, failureCode, seen>>
    <2>1. /\ stack' \in Seq(Frame) /\ Len(stack') = Len(stack)
          /\ \A i \in 1..Len(stack) : stack'[i].file = stack[i].file
        BY <1>2, <1>4, NextParent, <1>1
    <2>2. activePaths' = activePaths
        BY <2>1 DEF activePaths
    <2>3. VisitTypes'
        BY <1>1, <1>4, <2>1 DEF VisitedInv, VisitTypes
    <2>4. PhaseInv'
        BY <1>1, <1>2, <1>4, <2>1, <2>2 DEF VisitedInv, PhaseInv, Visiting
    <2>5. VisitInv'
        BY <1>1, <1>4, <2>1, <2>2 DEF VisitedInv, VisitInv, places
    <2>6. EdgeInv'
        <3>1. ASSUME NEW e \in edges' PROVE Before(e)' \/ Underway(e)'
            <4>1. CASE e = <<top.file, path'>>
                BY <1>1, <1>2, <1>4, <2>2, <4>1 DEF Underway
            <4>2. CASE e \in edges
                <5>1. Before(e) \/ Underway(e)
                    BY <1>1, <4>2 DEF VisitedInv, EdgeInv
                <5>2. Before(e) => Before(e)'
                    BY <1>1 DEF Before, places
                <5>3. Underway(e) => Underway(e)'
                    BY <1>1, <2>1, <2>2 DEF Underway
                <5>4. QED
                    BY <5>1, <5>2, <5>3
            <4>3. QED
                BY <1>1, <4>1, <4>2
        <3>2. \A i \in 1..Len(stack') - 1 : <<stack'[i].file, stack'[i + 1].file>> \in edges'
            <4>1. \A i \in 1..Len(stack) - 1 : stack'[i].file = stack[i].file /\ stack'[i + 1].file = stack[i + 1].file
                BY <1>2, <2>1
            <4>2. QED
                BY <1>1, <2>1, <4>1 DEF VisitedInv, EdgeInv
        <3>3. \A i \in places : stack # << >> /\ stack' # << >> /\ \E e \in edges' : e[2] = ordered[i].file
            BY <1>1, <1>2, <2>1 DEF VisitedInv, EdgeInv
        <3>4. QED
            BY <1>1, <3>1, <3>2, <3>3 DEF EdgeInv, places
    <2>7. QED
        BY <2>3, <2>4, <2>5, <2>6 DEF VisitedInv
<1>5. CASE /\ path' \in Workspace /\ path' \notin activePaths /\ path' \notin complete /\ withinBudgets
           /\ phase' = "read" /\ seen' = seen \cup {path'} /\ UNCHANGED <<failureCode, stack>>
    <2>1. path' \notin seen
        BY <1>1, <1>5 DEF VisitedInv, PhaseInv
    <2>2. IsFiniteSet(seen') /\ Cardinality(seen') = Cardinality(seen) + 1 /\ Cardinality(seen) \in Nat
        BY <1>5, <2>1, FS_AddElement, FS_CardinalityType DEF VisitedInv, VisitTypes
    <2>3. VisitTypes'
        BY <1>1, <1>5, <2>2, InheritanceConstants
           DEF InheritanceConstants, VisitedInv, VisitTypes, withinBudgets
    <2>4. activePaths' = activePaths /\ top' = top
        BY <1>5 DEF activePaths, top
    <2>5. PhaseInv'
        BY <1>1, <1>5, <2>2, <2>4 DEF VisitedInv, PhaseInv, VisitInv, VisitTypes, Visiting
    <2>6. VisitInv'
        BY <1>1, <1>5, <2>2, <2>4 DEF VisitedInv, VisitInv, VisitTypes, places
    <2>7. EdgeInv'
        <3>1. ASSUME NEW e \in edges' PROVE Before(e)' \/ Underway(e)'
            <4>1. CASE e = <<top.file, path'>>
                BY <1>5, <2>4, <4>1 DEF Underway
            <4>2. CASE e \in edges
                <5>1. Before(e) \/ Underway(e)
                    BY <1>1, <4>2 DEF VisitedInv, EdgeInv
                <5>2. QED
                    BY <1>1, <1>5, <2>4, <5>1 DEF Underway, Before, places
            <4>3. QED
                BY <1>1, <4>1, <4>2
        <3>2. QED
            BY <1>1, <1>5, <3>1 DEF VisitedInv, EdgeInv, places
    <2>8. QED
        BY <2>3, <2>5, <2>6, <2>7 DEF VisitedInv
<1>6. QED
    BY <1>3, <1>4, <1>5 DEF LookUpParent, fail, isActive, isComplete

(* The file that was looked up joins the stack. *)
LEMMA ReadKeepsVisits == VisitedInv /\ ReadParent => VisitedInv'
<1>. SUFFICES ASSUME VisitedInv, ReadParent PROVE VisitedInv'
    OBVIOUS
<1>1. /\ phase = "read" /\ stack # << >> /\ failureCode = "none"
      /\ path \in seen /\ path \notin activePaths /\ path \notin complete
      /\ <<top.file, path>> \in edges /\ Len(stack) + Len(ordered) < Cardinality(seen)
      /\ UNCHANGED <<link, disk, path, seen, complete, ordered, edges>>
    BY DEF ReadParent, fileVars, VisitedInv, PhaseInv, Visiting
<1>2. stack \in Seq(Frame) /\ Len(stack) \in 1..Len(stack) /\ path \in Paths
    BY <1>1, InheritanceConstants DEF InheritanceConstants, VisitedInv, VisitTypes
<1>3. CASE phase' = "failed" /\ UNCHANGED <<stack, bytes>>
    BY <1>1, <1>3, FailureKeepsVisits
<1>. DEFINE b == [stack EXCEPT ![Len(stack)].next = @ + 1]
            limit == IF remaining < MaxFileBytes THEN remaining ELSE MaxFileBytes
            n == Len(stack)
<1>4. ASSUME readable(path, Workspace, limit), sameFile, enter(b, path, disk[link[path]]),
             bytes' = bytes + disk[link[path]].size, UNCHANGED failureCode
      PROVE  VisitedInv'
    <2>. DEFINE frame == [file |-> path, document |-> disk[path], next |-> 1]
    <2>1. disk[path] \in Document /\ link[path] = path /\ disk[path].size <= limit /\ disk[path].size \in Nat
        BY <1>2, <1>4, InheritanceConstants
           DEF InheritanceConstants, VisitedInv, VisitTypes, readable, sameFile, Document
    <2>2. bytes' \in 0..MaxDeclarationBytes
        BY <1>4, <2>1, InheritanceConstants DEF InheritanceConstants, VisitedInv, VisitTypes, remaining
    <2>3. b \in Seq(Frame) /\ Len(b) = n /\ \A i \in 1..n : b[i].file = stack[i].file
        BY <1>1, <1>2, NextParent
    <2>. HIDE DEF b
    <2>4. stack' = Append(b, frame) /\ frame \in Frame /\ frame.file = path /\ phase' \in {"notify", "parents"}
        BY <1>2, <1>4, <2>1 DEF enter, Frame
    <2>. HIDE DEF frame
    <2>5. /\ stack' \in Seq(Frame) /\ Len(stack') = n + 1 /\ stack'[n + 1].file = path
          /\ \A i \in 1..n : stack'[i].file = stack[i].file
        BY <1>2, <2>3, <2>4
    <2>6. activePaths' = activePaths \cup {path}
        BY <1>2, <2>5 DEF activePaths
    <2>7. VisitTypes'
        BY <1>1, <2>2, <2>5 DEF VisitedInv, VisitTypes
    <2>8. PhaseInv'
        BY <1>1, <1>2, <1>4, <2>4, <2>5, <2>6 DEF VisitedInv, PhaseInv, Visiting
    <2>9. VisitInv'
        <3>1. ASSUME NEW i \in 1..n + 1, NEW j \in 1..n + 1, stack'[i].file = stack'[j].file PROVE i = j
            <4>1. \A k \in 1..n : stack'[k].file # path
                BY <1>1, <2>5 DEF activePaths
            <4>2. CASE i \in 1..n /\ j \in 1..n
                BY <2>5, <3>1, <4>2 DEF VisitedInv, VisitInv
            <4>3. CASE i = n + 1 \/ j = n + 1
                BY <1>2, <2>5, <3>1, <4>1, <4>3
            <4>4. QED
                BY <1>2, <4>2, <4>3
        <3>2. Len(stack') + Len(ordered') <= Cardinality(seen')
            BY <1>1, <1>2, <2>5, FS_CardinalityType DEF VisitedInv, VisitTypes
        <3>3. activePaths' \cap complete' = {} /\ activePaths' \cup complete' \subseteq seen'
            BY <1>1, <2>6 DEF VisitedInv, VisitInv
        <3>4. /\ complete' = {ordered'[i].file : i \in places'}
              /\ \A i, j \in places' : ordered'[i].file = ordered'[j].file => i = j
            BY <1>1 DEF VisitedInv, VisitInv, places
        <3>5. \A i, j \in 1..Len(stack') : stack'[i].file = stack'[j].file => i = j
            BY <2>5, <3>1
        <3>6. QED
            BY <3>2, <3>3, <3>4, <3>5 DEF VisitInv
    <2>10. EdgeInv'
        <3>1. \A i \in 1..n - 1 : stack'[i].file = stack[i].file /\ stack'[i + 1].file = stack[i + 1].file
            BY <1>2, <2>5
        <3>2. <<stack'[n].file, stack'[n + 1].file>> = <<top.file, path>>
            BY <1>2, <2>5 DEF top
        <3>3. n \in 1..Len(stack') - 1 /\ \A i \in 1..n - 1 : i \in 1..Len(stack') - 1
            BY <1>2, <2>5
        <3>4. ASSUME NEW e \in edges' PROVE Before(e)' \/ Underway(e)'
            <4>1. Before(e) \/ Underway(e)
                BY <1>1 DEF VisitedInv, EdgeInv
            <4>2. Before(e) => Before(e)'
                BY <1>1 DEF Before, places
            <4>3. CASE e[1] \in activePaths /\ e[2] \in complete
                BY <1>1, <2>6, <4>3 DEF Underway
            <4>4. ASSUME NEW i \in 1..n - 1, e = <<stack[i].file, stack[i + 1].file>> PROVE Underway(e)'
                BY <3>1, <3>3, <4>4 DEF Underway
            <4>5. CASE e = <<top.file, path>>
                BY <3>2, <3>3, <4>5 DEF Underway
            <4>6. QED
                BY <4>1, <4>2, <4>3, <4>4, <4>5 DEF Underway
        <3>5. ASSUME NEW i \in 1..Len(stack') - 1 PROVE <<stack'[i].file, stack'[i + 1].file>> \in edges'
            <4>1. i = n \/ i \in 1..n - 1
                BY <1>2, <2>5
            <4>2. QED
                BY <1>1, <3>1, <3>2, <4>1 DEF VisitedInv, EdgeInv
        <3>6. \A i \in places : \E e \in edges : e[2] = ordered[i].file
            BY <1>1 DEF VisitedInv, EdgeInv
        <3>7. QED
            BY <1>1, <3>4, <3>5, <3>6 DEF EdgeInv, places
    <2>11. QED
        BY <2>7, <2>8, <2>9, <2>10 DEF VisitedInv
<1>5. QED
    BY <1>3, <1>4 DEF ReadParent, fail

(* The innermost declaration is complete, and so are all its parents. *)
LEMMA LeaveKeepsVisits == VisitedInv /\ Leave => VisitedInv'
<1>. SUFFICES ASSUME VisitedInv, Leave PROVE VisitedInv'
    OBVIOUS
<1>. DEFINE n == Len(stack)
            m == Len(ordered)
            f == top.file
            done == [file |-> top.file, document |-> top.document]
<1>1. /\ phase = "parents" /\ stack # << >> /\ UNCHANGED <<link, disk, failureCode, path, seen, bytes, edges>>
      /\ complete' = complete \cup {f} /\ ordered' = Append(ordered, done)
      /\ stack' = SubSeq(stack, 1, n - 1) /\ phase' = IF n = 1 THEN "compile" ELSE "parents"
    BY DEF Leave, fileVars, logVars, VisitedInv, PhaseInv, Visiting
<1>2. /\ stack \in Seq(Frame) /\ n \in Nat /\ n >= 1 /\ m \in Nat /\ ordered \in Seq(Declaration)
      /\ top \in Frame /\ top = stack[n]
    BY <1>1 DEF VisitedInv, VisitTypes, top
<1>3. done \in Declaration /\ done.file = f
    BY <1>2 DEF Declaration, Frame
<1>. HIDE DEF done, f
<1>4. /\ ordered' \in Seq(Declaration) /\ Len(ordered') = m + 1 /\ ordered'[m + 1].file = f
      /\ \A i \in 1..m : ordered'[i] = ordered[i]
    BY <1>1, <1>2, <1>3
<1>5. stack' \in Seq(Frame) /\ Len(stack') = n - 1 /\ \A i \in 1..n - 1 : stack'[i] = stack[i]
    <2>1. ASSUME NEW k \in 0..n
          PROVE  /\ SubSeq(stack, 1, k) \in Seq(Frame) /\ Len(SubSeq(stack, 1, k)) = k
                 /\ \A i \in 1..k : SubSeq(stack, 1, k)[i] = stack[i]
        BY <1>2
    <2>2. n - 1 \in 0..n
        BY <1>2
    <2>3. QED
        BY <1>1, <2>1, <2>2
<1>6. f \in activePaths /\ f \notin complete /\ stack[n].file = f
    BY <1>2 DEF VisitedInv, VisitInv, activePaths, f
<1>7. activePaths' = activePaths \ {f}
    <2>1. \A i \in 1..n : stack[i].file = f => i = n
        BY <1>2, <1>6 DEF VisitedInv, VisitInv
    <2>2. QED
        BY <1>2, <1>5, <1>6, <2>1 DEF activePaths
<1>8. VisitTypes'
    BY <1>1, <1>4, <1>5 DEF VisitedInv, VisitTypes
<1>9. PhaseInv'
    <2>1. seen' \subseteq activePaths' \cup complete'
        BY <1>1, <1>7 DEF VisitedInv, PhaseInv
    <2>2. CASE n = 1
        <3>1. stack' = << >> /\ ordered' # << >>
            BY <1>2, <1>4, <1>5, <2>2
        <3>2. QED
            BY <1>1, <2>2, <3>1 DEF VisitedInv, PhaseInv, Visiting
    <2>3. CASE n # 1
        <3>1. stack' # << >>
            BY <1>2, <1>5, <2>3
        <3>2. QED
            BY <1>1, <2>1, <2>3, <3>1 DEF VisitedInv, PhaseInv, Visiting
    <2>4. QED
        BY <2>2, <2>3
<1>10. VisitInv'
    <2>1. complete' = {ordered'[i].file : i \in 1..m + 1}
        BY <1>1, <1>2, <1>4 DEF VisitedInv, VisitInv, places
    <2>2. ASSUME NEW i \in 1..m + 1, NEW j \in 1..m + 1, ordered'[i].file = ordered'[j].file PROVE i = j
        <3>1. \A k \in 1..m : ordered'[k].file # f
            BY <1>4, <1>6 DEF VisitedInv, VisitInv, places
        <3>2. CASE i \in 1..m /\ j \in 1..m
            BY <1>4, <2>2, <3>2 DEF VisitedInv, VisitInv, places
        <3>3. CASE i = m + 1 \/ j = m + 1
            BY <1>2, <1>4, <2>2, <3>1, <3>3
        <3>4. QED
            BY <1>2, <3>2, <3>3
    <2>3. \A i, j \in 1..Len(stack') : stack'[i].file = stack'[j].file => i = j
        BY <1>2, <1>5 DEF VisitedInv, VisitInv
    <2>4. activePaths' \cap complete' = {} /\ activePaths' \cup complete' \subseteq seen'
        BY <1>1, <1>6, <1>7 DEF VisitedInv, VisitInv
    <2>5. Len(stack') + Len(ordered') <= Cardinality(seen')
        <3>1. Len(stack') + Len(ordered') = n + m
            BY <1>2, <1>4, <1>5
        <3>2. QED
            BY <1>1, <3>1 DEF VisitedInv, VisitInv
    <2>6. QED
        BY <1>4, <2>1, <2>2, <2>3, <2>4, <2>5 DEF VisitInv, places
<1>11. EdgeInv'
    <2>1. ASSUME NEW e \in edges' PROVE Before(e)' \/ Underway(e)'
        <3>1. Before(e) \/ Underway(e)
            BY <1>1 DEF VisitedInv, EdgeInv
        <3>2. Before(e) => Before(e)'
            BY <1>2, <1>4 DEF Before, places
        <3>3. CASE e[1] = f /\ e[2] \in complete
            <4>1. PICK i \in 1..m : ordered[i].file = e[2]
                BY <3>3 DEF VisitedInv, VisitInv, places
            <4>2. i < m + 1 /\ i \in 1..m + 1 /\ m + 1 \in 1..m + 1 /\ ordered'[i].file = e[2] /\ ordered'[m + 1].file = e[1]
                BY <1>2, <1>4, <3>3, <4>1
            <4>3. QED
                BY <1>4, <4>2 DEF Before, places
        <3>4. CASE e[1] \in activePaths /\ e[1] # f /\ e[2] \in complete
            BY <1>1, <1>7, <3>4 DEF Underway
        <3>5. ASSUME NEW i \in 1..n - 1, e = <<stack[i].file, stack[i + 1].file>> PROVE Underway(e)'
            <4>1. CASE i = n - 1
                <5>1. e[1] = stack'[i].file /\ e[2] = f /\ i \in 1..Len(stack')
                    BY <1>2, <1>5, <1>6, <3>5, <4>1
                <5>2. QED
                    BY <1>1, <5>1 DEF Underway, activePaths
            <4>2. CASE i # n - 1
                <5>1. i \in 1..Len(stack') - 1 /\ e = <<stack'[i].file, stack'[i + 1].file>>
                    BY <1>2, <1>5, <3>5, <4>2
                <5>2. QED
                    BY <5>1 DEF Underway
            <4>3. QED
                BY <4>1, <4>2
        <3>6. QED
            BY <1>1, <3>1, <3>2, <3>3, <3>4, <3>5 DEF Underway
    <2>2. ASSUME NEW i \in 1..Len(stack') - 1 PROVE <<stack'[i].file, stack'[i + 1].file>> \in edges'
        <3>1. i \in 1..n - 1 /\ stack'[i] = stack[i] /\ stack'[i + 1] = stack[i + 1]
            BY <1>2, <1>5
        <3>2. QED
            BY <1>1, <3>1 DEF VisitedInv, EdgeInv
    <2>3. ASSUME NEW i \in 1..m + 1 PROVE \/ stack' = << >> /\ i = m + 1
                                          \/ \E e \in edges' : e[2] = ordered'[i].file
        <3>1. CASE i \in 1..m
            BY <1>1, <1>4, <3>1 DEF VisitedInv, EdgeInv, places
        <3>2. CASE i = m + 1 /\ n = 1
            <4>1. Len(stack') = 0 /\ stack' \in Seq(Frame)
                BY <1>2, <1>5, <3>2
            <4>2. stack' = << >>
                BY <4>1
            <4>3. QED
                BY <3>2, <4>2
        <3>3. CASE i = m + 1 /\ n > 1
            <4>1. <<stack[n - 1].file, stack[n].file>> \in edges
                BY <1>2, <3>3 DEF VisitedInv, EdgeInv
            <4>2. QED
                BY <1>1, <1>4, <1>6, <3>3, <4>1
        <3>4. i \in 1..m \/ (i = m + 1 /\ n = 1) \/ (i = m + 1 /\ n > 1)
            <4>1. n \in Nat /\ n >= 1 /\ m \in Nat
                BY <1>2
            <4>. HIDE DEF n, m
            <4>2. QED
                BY <4>1
        <3>5. QED
            BY <3>1, <3>2, <3>3, <3>4
    <2>4. QED
        BY <1>4, <2>1, <2>2, <2>3 DEF EdgeInv, places
<1>12. QED
    BY <1>8, <1>9, <1>10, <1>11 DEF VisitedInv

(* Whatever is edited, the traversal keeps its stack, its order and its edges. *)
LEMMA VisitedInvHolds == InheritanceSpec => []VisitedInv
<1>1. InheritanceInit => VisitedInv
    <2>. SUFFICES ASSUME InheritanceInit PROVE VisitedInv
        OBVIOUS
    <2>1. IsFiniteSet({}) /\ Cardinality({}) = 0
        BY FS_EmptySet
    <2>2. VisitTypes
        BY <2>1, InheritanceConstants DEF InheritanceInit, VisitTypes, InheritanceConstants
    <2>3. PhaseInv
        BY DEF InheritanceInit, PhaseInv, Visiting
    <2>4. VisitInv /\ EdgeInv
        BY <2>1 DEF InheritanceInit, VisitInv, EdgeInv, places, activePaths
    <2>5. QED
        BY <2>2, <2>3, <2>4 DEF VisitedInv
<1>2. VisitedInv /\ UNCHANGED inheritanceVars => VisitedInv'
    <2>. SUFFICES ASSUME VisitedInv, UNCHANGED inheritanceVars PROVE VisitedInv'
        OBVIOUS
    <2>1. UNCHANGED <<link, disk, phase, failureCode, stack, path, seen, complete, ordered, bytes, edges>>
        BY DEF inheritanceVars, fileVars, visitVars, logVars
    <2>2. QED
        BY <2>1 DEF VisitedInv, VisitTypes, PhaseInv, VisitInv, EdgeInv, activePaths, places, top, Before, Underway
<1>3. VisitedInv /\ [InheritanceNext]_inheritanceVars => VisitedInv'
    BY <1>2, EditKeepsVisits, BeginKeepsVisits, EntryKeepsVisits, NotifyKeepsVisits, LookUpKeepsVisits,
       ReadKeepsVisits, LeaveKeepsVisits, CompileKeepsVisits DEF InheritanceNext
<1>4. QED
    BY <1>1, <1>3, PTL DEF InheritanceSpec

(* ParentsFirst for all disks and all edits: every declaration of the result was *)
(* visited once, after its parents as they were resolved and before the entry,   *)
(* inside the workspace and within both budgets (visit).                         *)
THEOREM ParentsFirstHolds == InheritanceSpec => []ParentsFirst
<1>1. VisitedInv => ParentsFirst
    <2>. SUFFICES ASSUME VisitedInv, phase = "done" PROVE ParentsFirst
        BY DEF ParentsFirst
    <2>1. stack = << >> /\ ordered # << >> /\ Len(ordered) \in Nat /\ Len(stack) = 0
        BY DEF VisitedInv, PhaseInv, VisitTypes
    <2>2. \A e \in edges : Before(e)
        BY <2>1 DEF VisitedInv, EdgeInv, Underway, activePaths
    <2>3. Len(ordered) \in 1..MaxDeclarations
        <3>1. Len(ordered) # 0
            BY <2>1 DEF VisitedInv, VisitTypes
        <3>2. Cardinality(seen) \in Nat /\ MaxDeclarations \in Nat
            BY FS_CardinalityType, InheritanceConstants DEF InheritanceConstants, VisitedInv, VisitTypes
        <3>3. Len(ordered) <= Cardinality(seen) /\ Cardinality(seen) <= MaxDeclarations
            BY <2>1 DEF VisitedInv, VisitTypes, VisitInv
        <3>4. QED
            BY <2>1, <3>1, <3>2, <3>3
    <2>4. bytes <= MaxDeclarationBytes
        BY InheritanceConstants DEF InheritanceConstants, VisitedInv, VisitTypes
    <2>5. \A i \in places : ordered[i].file \in Workspace
        BY DEF VisitedInv, VisitTypes, VisitInv
    <2>6. \A i \in places : i = Len(ordered) \/ \E e \in edges : e[2] = ordered[i].file
        BY DEF VisitedInv, EdgeInv
    <2>7. \A i, j \in places : ordered[i].file = ordered[j].file => i = j
        BY DEF VisitedInv, VisitInv
    <2>8. QED
        BY <2>2, <2>3, <2>4, <2>5, <2>6, <2>7 DEF ParentsFirst, Before
<1>2. QED
    BY <1>1, VisitedInvHolds, PTL

(* A walk along the edges of a result goes to earlier and earlier places. *)
LEMMA ResultHasNoCycle ==
    ASSUME VisitedInv, phase = "done", NEW f, Reaches(f, f)
    PROVE  FALSE
<1>1. PICK n \in 1..MaxDeclarations, w \in [1..MaxDeclarations + 1 -> Paths] :
        w[1] = f /\ w[n + 1] = f /\ \A i \in 1..n : <<w[i], w[i + 1]>> \in edges
    BY DEF Reaches
<1>2. MaxDeclarations \in Nat /\ n \in Nat /\ 1 \in 1..n
    BY <1>1, InheritanceConstants DEF InheritanceConstants
<1>3. \A e \in edges : Before(e)
    <2>1. stack = << >>
        BY DEF VisitedInv, PhaseInv
    <2>2. QED
        BY <2>1 DEF VisitedInv, EdgeInv, Underway, activePaths
<1>. DEFINE T == {j \in places : \E i \in 1..n : ordered[j].file = w[i]}
<1>4. T \in SUBSET Nat /\ T # {}
    <2>1. Before(<<w[1], w[2]>>)
        BY <1>1, <1>2, <1>3
    <2>2. QED
        BY <1>2, <2>1 DEF Before, places
<1>5. PICK j \in T : \A k \in T : j <= k
    BY <1>4, LeastNumber
<1>6. PICK i \in 1..n : ordered[j].file = w[i]
    BY <1>5
<1>7. PICK k, l \in places : k < l /\ ordered[k].file = w[i + 1] /\ ordered[l].file = w[i]
    BY <1>1, <1>3, <1>6 DEF Before
<1>8. l = j
    BY <1>5, <1>6, <1>7 DEF VisitedInv, VisitInv
<1>9. k \in T
    <2>1. CASE i = n
        BY <1>1, <1>2, <1>7, <2>1
    <2>2. CASE i # n
        <3>1. i + 1 \in 1..n
            BY <1>2, <1>6, <2>2
        <3>2. QED
            BY <1>7, <3>1
    <2>3. QED
        BY <2>1, <2>2
<1>10. j <= k /\ k < j /\ j \in Nat /\ k \in Nat
    BY <1>4, <1>5, <1>7, <1>8, <1>9
<1>11. QED
    BY <1>10

(* A declaration that is reached again while it is read closes a cycle. *)
LEMMA ActiveClosesCycle ==
    ASSUME VisitedInv, LookUpParent, path' \in activePaths, path' \in Paths
    PROVE  Reaches(path, path)'
<1>. DEFINE n == Len(stack)
<1>1. /\ phase = "parents" /\ stack # << >> /\ edges' = edges \cup {<<top.file, path'>>}
    BY DEF LookUpParent, VisitedInv, PhaseInv, Visiting
<1>2. PICK k \in 1..n : stack[k].file = path'
    BY DEF activePaths
<1>3. stack \in Seq(Frame) /\ n \in Nat /\ k \in Nat /\ 1 <= k /\ k <= n
    BY <1>2 DEF VisitedInv, VisitTypes
<1>4. n <= MaxDeclarations /\ MaxDeclarations \in Nat
    <2>1. Cardinality(seen) \in Nat /\ MaxDeclarations \in Nat /\ Len(ordered) \in Nat
        BY FS_CardinalityType, InheritanceConstants DEF InheritanceConstants, VisitedInv, VisitTypes
    <2>2. QED
        BY <1>3, <2>1 DEF VisitedInv, VisitInv, VisitTypes
<1>. DEFINE m == n - k + 1
            w == [i \in 1..MaxDeclarations + 1 |-> IF i <= m THEN stack[k + i - 1].file ELSE path']
<1>5. m \in 1..MaxDeclarations /\ m + 1 \in 1..MaxDeclarations + 1 /\ 1 \in 1..MaxDeclarations + 1
    BY <1>3, <1>4
<1>6. w \in [1..MaxDeclarations + 1 -> Paths]
    <2>1. ASSUME NEW i \in 1..MaxDeclarations + 1, i <= m PROVE stack[k + i - 1].file \in Paths
        <3>1. k + i - 1 \in 1..n
            BY <1>3, <1>4, <2>1
        <3>2. stack[k + i - 1] \in Frame
            BY <1>3, <3>1
        <3>3. QED
            BY <3>2 DEF Frame
    <2>2. QED
        BY <2>1
<1>7. w[1] = path' /\ w[m + 1] = path'
    BY <1>2, <1>3, <1>5
<1>8. ASSUME NEW i \in 1..m PROVE <<w[i], w[i + 1]>> \in edges'
    <2>1. w[i] = stack[k + i - 1].file
        BY <1>3, <1>4, <1>5
    <2>2. CASE i = m
        <3>1. stack[k + i - 1] = top
            BY <1>3, <2>2 DEF top
        <3>2. QED
            BY <1>1, <1>7, <2>1, <2>2, <3>1
    <2>3. CASE i # m
        <3>1. k + i - 1 \in 1..n - 1 /\ i + 1 <= m /\ i + 1 \in 1..MaxDeclarations + 1 /\ k + (i + 1) - 1 = (k + i - 1) + 1
            BY <1>3, <1>4, <2>3
        <3>2. w[i + 1] = stack[(k + i - 1) + 1].file
            BY <3>1
        <3>3. QED
            BY <1>1, <2>1, <3>1, <3>2 DEF VisitedInv, EdgeInv
    <2>4. QED
        BY <2>2, <2>3
<1>. HIDE DEF w, m
<1>9. QED
    BY <1>5, <1>6, <1>7, <1>8 DEF Reaches

(* CycleIsReal for all disks and all edits: what is refused as a cycle is one, *)
(* as the links were resolved, and what is accepted has none, however many     *)
(* declarations share a parent (visit).                                        *)
THEOREM CycleIsRealHolds == InheritanceSpec => []CycleIsReal
<1>1. VisitedInv /\ CycleInv /\ [InheritanceNext]_inheritanceVars => CycleInv'
    <2>. SUFFICES ASSUME VisitedInv, CycleInv, [InheritanceNext]_inheritanceVars, failureCode' = "cycle"
         PROVE  phase' = "failed" /\ Reaches(path, path)'
        BY DEF CycleInv
    <2>1. CASE failureCode = "cycle"
        <3>1. phase = "failed" /\ Reaches(path, path)
            BY <2>1 DEF CycleInv
        <3>2. UNCHANGED <<phase, path, edges>>
            BY <3>1 DEF InheritanceNext, Edit, Begin, ReadEntry, Notify, LookUpParent, ReadParent, Leave, Compile,
                        inheritanceVars, visitVars, logVars
        <3>3. QED
            BY <3>1, <3>2 DEF Reaches
    <2>2. CASE failureCode # "cycle"
        <3>1. LookUpParent /\ phase' = "failed" /\ path' \in Workspace /\ path' \in activePaths
            BY <2>2 DEF InheritanceNext, Edit, Begin, ReadEntry, Notify, LookUpParent, ReadParent, Leave, Compile,
                        inheritanceVars, fail, isActive
        <3>2. QED
            BY <3>1, ActiveClosesCycle, InheritanceConstants DEF InheritanceConstants
    <2>3. QED
        BY <2>1, <2>2
<1>2. VisitedInv /\ CycleInv => CycleIsReal
    BY ResultHasNoCycle DEF CycleInv, CycleIsReal
<1>3. InheritanceInit => CycleInv
    BY DEF InheritanceInit, CycleInv
<1>4. QED
    BY <1>1, <1>2, <1>3, VisitedInvHolds, PTL DEF InheritanceSpec

(* A file that joins the stack was read, and what it extends is announced next. *)
LEMMA EnterKeepsAnnounced ==
    ASSUME AnnounceInv, phase = "read" \/ stack = << >>, NEW b \in Seq(Frame), NEW f \in Paths, NEW d \in Document,
           Len(b) = Len(stack),
           \A i \in 1..Len(stack) : b[i].file = stack[i].file /\ b[i].document = stack[i].document,
           enter(b, f, d), UNCHANGED <<announced, complete>>,
           NEW name, name \in announced, reads' = reads \cup {<<name, f>>}
    PROVE  AnnounceInv'
<1>. DEFINE frame == [file |-> f, document |-> d, next |-> 1]
            n == Len(stack)
<1>1. stack' = Append(b, frame) /\ phase' = IF d.extends = << >> THEN "parents" ELSE "notify"
    BY DEF enter
<1>2. frame.file = f /\ frame.document = d /\ n \in Nat
    BY DEF Frame
<1>. HIDE DEF frame
<1>3. /\ Len(stack') = n + 1 /\ stack'[n + 1] = frame
      /\ \A i \in 1..n : stack'[i].file = stack[i].file /\ stack'[i].document = stack[i].document
    BY <1>1, <1>2
<1>4. activePaths' = activePaths \cup {f}
    BY <1>2, <1>3 DEF activePaths
<1>5. \A r \in reads' : r[1] \in announced'
    BY DEF AnnounceInv
<1>6. \A g \in activePaths' \cup complete' : \E r \in reads' : r[2] = g
    <2>1. <<name, f>> \in reads' /\ <<name, f>>[2] = f
        OBVIOUS
    <2>2. QED
        BY <1>4, <2>1 DEF AnnounceInv
<1>7. ASSUME NEW i \in 1..n + 1
      PROVE  \/ phase' = "notify" /\ i = n + 1
             \/ \A k \in 1..Len(stack'[i].document.extends) : stack'[i].document.extends[k] \in announced'
    <2>1. CASE i \in 1..n
        BY <1>2, <1>3, <2>1 DEF AnnounceInv, Visiting
    <2>2. CASE i = n + 1
        BY <1>1, <1>2, <1>3, <2>2
    <2>3. QED
        BY <1>2, <1>7, <2>1, <2>2
<1>8. QED
    BY <1>1, <1>3, <1>5, <1>6, <1>7 DEF AnnounceInv

LEMMA AnnounceInvStep == VisitedInv /\ AnnounceInv /\ [InheritanceNext]_inheritanceVars => AnnounceInv'
<1>. SUFFICES ASSUME VisitedInv, AnnounceInv, [InheritanceNext]_inheritanceVars PROVE AnnounceInv'
    OBVIOUS
<1>. USE DEF fileVars, visitVars, logVars, inheritanceVars
<1>1. CASE Edit \/ UNCHANGED inheritanceVars
    BY <1>1 DEF Edit, AnnounceInv, activePaths
<1>2. ASSUME phase' \in {"failed", "done"}, UNCHANGED <<stack, complete, announced, reads>> PROVE AnnounceInv'
    BY <1>2 DEF AnnounceInv, activePaths, Visiting
<1>3. CASE Begin
    <2>1. stack = << >> /\ complete = {} /\ UNCHANGED <<stack, complete, reads>> /\ phase' \in {"entry", "failed"}
        BY <1>3 DEF Begin, fail, VisitedInv, PhaseInv
    <2>2. reads = {} /\ announced' = {Entry}
        BY <1>3 DEF Begin, AnnounceInv
    <2>3. QED
        BY <2>1, <2>2 DEF AnnounceInv, activePaths, Visiting
<1>4. CASE ReadEntry
    <2>1. /\ stack = << >> /\ complete = {} /\ reads = {} /\ Entry \in announced /\ UNCHANGED <<complete, announced>>
          /\ reads' = reads \cup {<<Entry, link[Entry]>>}
        BY <1>4 DEF ReadEntry, VisitedInv, PhaseInv, AnnounceInv
    <2>2. CASE phase' = "failed" /\ UNCHANGED stack
        BY <2>1, <2>2 DEF AnnounceInv, activePaths, Visiting
    <2>3. ASSUME NEW f, f = link[Entry], f \in Workspace, enter(<< >>, f, disk[f]) PROVE AnnounceInv'
        <3>1. f \in Paths /\ disk[f] \in Document /\ << >> \in Seq(Frame) /\ Len(<< >>) = Len(stack)
            BY <2>1, <2>3, InheritanceConstants DEF InheritanceConstants, VisitedInv, VisitTypes
        <3>2. QED
            BY <2>1, <2>3, <3>1, EnterKeepsAnnounced
    <2>4. QED
        BY <1>4, <2>2, <2>3 DEF ReadEntry, fail
<1>5. CASE Notify
    <2>1. /\ phase = "notify" /\ phase' \in {"parents", "failed"} /\ UNCHANGED <<stack, complete, reads>>
          /\ announced' = announced \cup {top.document.extends[i] : i \in 1..Len(top.document.extends)}
        BY <1>5 DEF Notify, fail
    <2>2. ASSUME NEW i \in 1..Len(stack), NEW k \in 1..Len(stack[i].document.extends)
          PROVE  stack[i].document.extends[k] \in announced'
        <3>1. CASE i = Len(stack)
            BY <2>1, <2>2, <3>1 DEF top
        <3>2. CASE i # Len(stack)
            BY <2>1, <2>2, <3>2 DEF AnnounceInv, Visiting
        <3>3. QED
            BY <3>1, <3>2
    <2>3. QED
        BY <2>1, <2>2 DEF AnnounceInv, activePaths
<1>6. CASE LookUpParent
    <2>1. /\ phase = "parents" /\ phase' \in {"parents", "read", "failed"} /\ UNCHANGED <<complete, announced, reads>>
          /\ stack \in Seq(Frame) /\ stack # << >>
        BY <1>6 DEF LookUpParent, fail, VisitedInv, VisitTypes, PhaseInv, Visiting
    <2>2. stack' = stack \/ stack' = [stack EXCEPT ![Len(stack)].next = @ + 1]
        BY <1>6 DEF LookUpParent
    <2>3. /\ Len(stack') = Len(stack)
          /\ \A i \in 1..Len(stack) : stack'[i].file = stack[i].file /\ stack'[i].document = stack[i].document
        BY <2>1, <2>2, NextParent
    <2>4. activePaths' = activePaths
        BY <2>3 DEF activePaths
    <2>5. \A i \in 1..Len(stack) : \A k \in 1..Len(stack[i].document.extends) :
            stack[i].document.extends[k] \in announced
        BY <2>1 DEF AnnounceInv, Visiting
    <2>6. \A i \in 1..Len(stack') : \A k \in 1..Len(stack'[i].document.extends) :
            stack'[i].document.extends[k] \in announced'
        BY <2>1, <2>3, <2>5
    <2>7. QED
        BY <2>1, <2>4, <2>6 DEF AnnounceInv
<1>7. CASE ReadParent
    <2>1. /\ phase = "read" /\ stack \in Seq(Frame) /\ stack # << >> /\ path \in Paths
          /\ top.next <= Len(top.document.extends)
          /\ UNCHANGED <<complete, announced>> /\ reads' = reads \cup {<<written, link[path]>>}
        BY <1>7, InheritanceConstants
           DEF InheritanceConstants, ReadParent, VisitedInv, VisitTypes, PhaseInv, Visiting
    <2>2. written \in announced
        <3>1. Len(stack) \in 1..Len(stack) /\ top \in Frame
            BY <2>1 DEF top
        <3>2. top.next \in 1..Len(top.document.extends)
            BY <2>1, <3>1 DEF Frame, Document
        <3>3. QED
            BY <2>1, <3>1, <3>2 DEF AnnounceInv, Visiting, written, top
    <2>3. CASE phase' = "failed" /\ UNCHANGED stack
        <3>1. \A r \in reads' : r[1] \in announced'
            BY <2>1, <2>2 DEF AnnounceInv
        <3>2. activePaths' = activePaths /\ reads \subseteq reads'
            BY <2>1, <2>3 DEF activePaths
        <3>3. QED
            BY <2>1, <2>3, <3>1, <3>2 DEF AnnounceInv, Visiting
    <2>. DEFINE b == [stack EXCEPT ![Len(stack)].next = @ + 1]
    <2>4. ASSUME sameFile, enter(b, path, disk[link[path]]) PROVE AnnounceInv'
        <3>1. link[path] = path /\ disk[path] \in Document
            BY <2>1, <2>4, InheritanceConstants DEF InheritanceConstants, sameFile, VisitedInv, VisitTypes
        <3>2. /\ b \in Seq(Frame) /\ Len(b) = Len(stack)
              /\ \A i \in 1..Len(stack) : b[i].file = stack[i].file /\ b[i].document = stack[i].document
            BY <2>1, NextParent
        <3>. HIDE DEF b
        <3>3. enter(b, path, disk[path]) /\ reads' = reads \cup {<<written, path>>}
            BY <2>1, <2>4, <3>1
        <3>4. QED
            BY <2>1, <2>2, <3>1, <3>2, <3>3, EnterKeepsAnnounced
    <2>5. QED
        BY <1>7, <2>3, <2>4 DEF ReadParent, fail
<1>8. CASE Leave
    <2>. DEFINE n == Len(stack)
    <2>1. /\ phase = "parents" /\ phase' \in {"parents", "compile"} /\ UNCHANGED <<announced, reads>>
          /\ complete' = complete \cup {top.file} /\ stack' = SubSeq(stack, 1, n - 1)
          /\ stack \in Seq(Frame) /\ stack # << >>
        BY <1>8 DEF Leave, VisitedInv, VisitTypes, PhaseInv, Visiting
    <2>2. n \in Nat /\ n >= 1 /\ top.file \in activePaths
        BY <2>1 DEF top, activePaths
    <2>3. Len(stack') = n - 1 /\ \A i \in 1..n - 1 : i \in 1..n /\ stack'[i] = stack[i]
        <3>1. ASSUME NEW k \in 0..n
              PROVE  Len(SubSeq(stack, 1, k)) = k /\ \A i \in 1..k : i \in 1..n /\ SubSeq(stack, 1, k)[i] = stack[i]
            BY <2>1
        <3>2. n - 1 \in 0..n
            BY <2>2
        <3>3. QED
            BY <2>1, <3>1, <3>2
    <2>4. activePaths' \subseteq activePaths
        BY <2>3 DEF activePaths
    <2>5. activePaths' \cup complete' \subseteq activePaths \cup complete
        BY <2>1, <2>2, <2>4
    <2>6. QED
        BY <2>1, <2>3, <2>5 DEF AnnounceInv, Visiting
<1>9. CASE Compile
    BY <1>2, <1>9 DEF Compile, fail
<1>10. QED
    BY <1>1, <1>3, <1>4, <1>5, <1>6, <1>7, <1>8, <1>9 DEF InheritanceNext

(* ReadsAnnounced for all disks and all edits: what is opened was announced by *)
(* the name it is opened by, and every file of the result was opened           *)
(* (onDependencies, pipeline_inheritance_identity_changed).                    *)
THEOREM ReadsAnnouncedHolds == InheritanceSpec => []ReadsAnnounced
<1>1. InheritanceInit => AnnounceInv
    BY DEF InheritanceInit, AnnounceInv, activePaths, Visiting
<1>2. VisitedInv /\ AnnounceInv => ReadsAnnounced
    <2>1. VisitedInv => \A i \in places : ordered[i].file \in complete
        BY DEF VisitedInv, VisitInv
    <2>2. AnnounceInv => (\A r \in reads : r[1] \in announced) /\ \A f \in complete : \E r \in reads : r[2] = f
        BY DEF AnnounceInv
    <2>3. QED
        BY <2>1, <2>2 DEF ReadsAnnounced
<1>3. QED
    BY <1>1, <1>2, AnnounceInvStep, VisitedInvHolds, PTL DEF InheritanceSpec

-----------------------------------------------------------------------------
(***************************************************************************)
(* Lists of issues: when they are empty.                                   *)
(***************************************************************************)
LEMMA SeqIsList == ASSUME NEW S, NEW s \in Seq(S) PROVE isList(s)
BY DEF isList, ToSet

LEMMA ConcatEmpty ==
    ASSUME NEW s, isList(s), NEW t, isList(t)
    PROVE  isList(s \o t) /\ (s \o t = << >> <=> s = << >> /\ t = << >>)
<1>. DEFINE S == ToSet(s) \cup ToSet(t)
<1>1. s \in Seq(S) /\ t \in Seq(S)
    BY DEF isList, ToSet
<1>. HIDE DEF S
<1>2. s \o t \in Seq(S) /\ (s \o t = << >> <=> s = << >> /\ t = << >>)
    BY <1>1
<1>3. QED
    BY <1>2, SeqIsList

LEMMA NothingIsList == isList(<< >>)
BY DEF isList

LEMMA OneIsList == ASSUME NEW x PROVE isList(<<x>>) /\ <<x>> # << >>
<1>1. <<x>> \in Seq({x})
    OBVIOUS
<1>2. QED
    BY <1>1, SeqIsList

LEMMA WhenEmpty ==
    ASSUME NEW c \in BOOLEAN, NEW code
    PROVE  isList(when(c, code)) /\ (when(c, code) = << >> <=> ~c)
BY OneIsList, NothingIsList DEF when

LEMMA CopiesEmpty ==
    ASSUME NEW n \in Nat, NEW code
    PROVE  isList(copies(n, code)) /\ (copies(n, code) = << >> <=> n = 0)
<1>1. copies(n, code) \in Seq({code}) /\ (copies(n, code) = << >> <=> n = 0)
    BY DEF copies
<1>2. QED
    BY <1>1, SeqIsList

LEMMA CountEmpty ==
    ASSUME NEW S, IsFiniteSet(S), NEW code
    PROVE  isList(copies(Cardinality(S), code)) /\ (copies(Cardinality(S), code) = << >> <=> S = {})
BY CopiesEmpty, FS_CardinalityType, FS_EmptySet

LEMMA UnknownEmpty ==
    ASSUME NEW r, isJson(r), NEW allowed, NEW code
    PROVE  /\ isList(unknownFields(r, allowed, code))
           /\ unknownFields(r, allowed, code) = << >> <=> DOMAIN r.fields \subseteq allowed
<1>1. IsFiniteSet(DOMAIN r.fields \ allowed)
    BY FS_Subset DEF isJson, isFunction
<1>2. QED
    BY <1>1, CountEmpty DEF unknownFields

-----------------------------------------------------------------------------
(***************************************************************************)
(* A fold over a list, with its step as a function.                        *)
(***************************************************************************)
Folds_(it, n, b, step) ==
    \A s \in SUBSET (1..n) : it[s] = IF s = {} THEN b ELSE step[<<Max(s), it[s \ {Max(s)}]>>]

LEMMA MaxWith ==
    ASSUME NEW k \in Nat \ {0}, NEW s \in SUBSET (1..k), k \in s
    PROVE  Max(s) = k
<1>1. \A y \in s : k >= y
    OBVIOUS
<1>2. \A x \in s : x >= k => x = k
    OBVIOUS
<1>3. QED
    BY <1>1, <1>2 DEF Max

LEMMA FoldExists ==
    ASSUME NEW n \in Nat, NEW S, NEW b \in S, NEW step \in [(1..n) \X S -> S]
    PROVE  \E it \in [SUBSET (1..n) -> S] : Folds_(it, n, b, step)
<1>. DEFINE Good(k) == \E it \in [SUBSET (1..k) -> S] : Folds_(it, k, b, step)
            T == {k \in 0..n : ~Good(k)}
<1>1. Good(0)
    <2>. DEFINE it == [s \in SUBSET (1..0) |-> b]
    <2>1. it \in [SUBSET (1..0) -> S] /\ \A s \in SUBSET (1..0) : s = {} /\ it[s] = b
        OBVIOUS
    <2>2. QED
        BY <2>1 DEF Folds_
<1>2. ASSUME NEW k \in 1..n, Good(k - 1) PROVE Good(k)
    <2>1. PICK it \in [SUBSET (1..(k - 1)) -> S] : Folds_(it, k - 1, b, step)
        BY <1>2
    <2>. DEFINE more == [s \in SUBSET (1..k) |-> IF k \in s THEN step[<<k, it[s \ {k}]>>] ELSE it[s]]
    <2>2. ASSUME NEW s \in SUBSET (1..k)
          PROVE  /\ s \ {k} \in SUBSET (1..(k - 1))
                 /\ k \notin s => s \in SUBSET (1..(k - 1)) /\ s \ {Max(s)} \in SUBSET (1..(k - 1))
        <3>1. \A x \in s : x # k => x \in 1..(k - 1)
            OBVIOUS
        <3>2. QED
            BY <3>1
    <2>3. ASSUME NEW s \in SUBSET (1..k) PROVE more[s] \in S
        <3>1. CASE k \in s
            <4>1. <<k, it[s \ {k}]>> \in (1..n) \X S
                BY <2>1, <2>2
            <4>2. QED
                BY <3>1, <4>1
        <3>2. CASE k \notin s
            BY <2>1, <2>2, <3>2
        <3>3. QED
            BY <3>1, <3>2
    <2>4. ASSUME NEW s \in SUBSET (1..k)
          PROVE  more[s] = IF s = {} THEN b ELSE step[<<Max(s), more[s \ {Max(s)}]>>]
        <3>1. CASE k \in s
            <4>1. Max(s) = k /\ s # {}
                BY <3>1, MaxWith
            <4>2. s \ {k} \in SUBSET (1..k) /\ more[s \ {k}] = it[s \ {k}]
                OBVIOUS
            <4>3. QED
                BY <3>1, <4>1, <4>2
        <3>2. CASE k \notin s
            <4>1. it[s] = IF s = {} THEN b ELSE step[<<Max(s), it[s \ {Max(s)}]>>]
                BY <2>1, <2>2, <3>2 DEF Folds_
            <4>2. s \ {Max(s)} \in SUBSET (1..k) /\ more[s \ {Max(s)}] = it[s \ {Max(s)}] /\ more[s] = it[s]
                BY <3>2
            <4>3. QED
                BY <4>1, <4>2
        <3>3. QED
            BY <3>1, <3>2
    <2>. HIDE DEF more
    <2>5. more \in [SUBSET (1..k) -> S]
        BY <2>3 DEF more
    <2>6. QED
        BY <2>4, <2>5 DEF Folds_
<1>. HIDE DEF Good
<1>3. T = {}
    <2>. SUFFICES ASSUME T # {} PROVE FALSE
        OBVIOUS
    <2>1. PICK m \in T : \A k \in T : m <= k
        BY LeastNumber, T \in SUBSET Nat
    <2>2. m \in 1..n
        BY <1>1
    <2>3. m - 1 \notin T
        BY <2>1, <2>2
    <2>4. QED
        BY <1>2, <2>2, <2>3
<1>4. Good(n)
    BY <1>3
<1>5. QED
    BY <1>4 DEF Good

-----------------------------------------------------------------------------
(***************************************************************************)
(* The steps of a validation.                                              *)
(***************************************************************************)
Run(C) == {x \in [issues : Seq(C), found : Nat, ended : BOOLEAN] : x.ended => x.issues # << >>}
isStep(step) ==
    /\ isList(step.issues) /\ step.bounded \in BOOLEAN /\ step.last \in BOOLEAN
    /\ step.last => step.issues # << >>
isSteps(steps) == isList(steps) /\ \A k \in DOMAIN steps : isStep(steps[k])
Quiet(steps) == \A k \in DOMAIN steps : steps[k].issues = << >>

LEMMA MarkedIsSame ==
    ASSUME NEW C, "overflow" \in C, NEW s \in Seq(C)
    PROVE  markDiagnosticsOverflow(s) \in Seq(C) /\ markDiagnosticsOverflow(s) # << >>
<1>1. CASE contains(s, "overflow")
    <2>1. s # << >>
        BY <1>1 DEF contains
    <2>2. QED
        BY <1>1, <2>1 DEF markDiagnosticsOverflow
<1>2. CASE ~contains(s, "overflow") /\ s = << >>
    <2>1. <<"overflow">> \in Seq(C) /\ <<"overflow">> # << >>
        OBVIOUS
    <2>2. QED
        BY <1>2, <2>1 DEF markDiagnosticsOverflow
<1>3. CASE ~contains(s, "overflow") /\ s # << >>
    <2>. DEFINE u == [s EXCEPT ![Len(s)] = "overflow"]
    <2>1. u \in Seq(C) /\ Len(u) = Len(s)
        BY <1>3, ExceptSeq, Len(s) \in 1..Len(s)
    <2>2. u # << >>
        BY <1>3, <2>1
    <2>3. QED
        BY <1>3, <2>1, <2>2 DEF markDiagnosticsOverflow
<1>4. QED
    BY <1>1, <1>2, <1>3

LEMMA AppendBoundedEmpty ==
    ASSUME NEW C, "overflow" \in C, NEW s \in Seq(C), NEW t \in Seq(C), Len(s) <= MaxDiagnostics
    PROVE  /\ appendBoundedIssues(s, t) \in Seq(C)
           /\ appendBoundedIssues(s, t) = << >> <=> s = << >> /\ t = << >>
<1>. USE DiagnosticsConstants DEF DiagnosticsConstants
<1>1. CASE Len(s) + Len(t) <= MaxDiagnostics
    <2>1. s \o t \in Seq(C) /\ (s \o t = << >> <=> s = << >> /\ t = << >>)
        OBVIOUS
    <2>2. QED
        BY <1>1, <2>1 DEF appendBoundedIssues
<1>2. CASE Len(s) + Len(t) > MaxDiagnostics
    <2>. DEFINE u == s \o SubSeq(t, 1, MaxDiagnostics - Len(s))
    <2>1. MaxDiagnostics - Len(s) \in 0..Len(t)
        BY <1>2
    <2>2. u \in Seq(C)
        BY <2>1
    <2>3. ~(s = << >> /\ t = << >>)
        BY <1>2
    <2>4. appendBoundedIssues(s, t) = markDiagnosticsOverflow(u)
        BY <1>2 DEF appendBoundedIssues
    <2>. HIDE DEF u
    <2>5. QED
        BY <2>2, <2>3, <2>4, MarkedIsSame
<1>3. QED
    BY <1>1, <1>2

LEMMA CombineEmpty ==
    ASSUME NEW C, "overflow" \in C, NEW s \in Seq(C), NEW t \in Seq(C)
    PROVE  /\ combineConfigIssues(s, t) \in Seq(C)
           /\ combineConfigIssues(s, t) = << >> <=> s = << >> /\ t = << >>
<1>. USE DiagnosticsConstants DEF DiagnosticsConstants
<1>. DEFINE m == Min({Len(s), MaxDiagnostics})
            u == SubSeq(s, 1, m)
<1>1. m = IF Len(s) <= MaxDiagnostics THEN Len(s) ELSE MaxDiagnostics
    <2>1. CASE Len(s) <= MaxDiagnostics
        BY <2>1 DEF Min
    <2>2. CASE ~(Len(s) <= MaxDiagnostics)
        BY <2>2 DEF Min
    <2>3. QED
        BY <2>1, <2>2
<1>. HIDE DEF m
<1>2. m \in 0..Len(s) /\ m <= MaxDiagnostics /\ (m = 0 <=> Len(s) = 0)
    BY <1>1
<1>3. u \in Seq(C) /\ Len(u) = m
    BY <1>2
<1>4. u = << >> <=> s = << >>
    BY <1>2, <1>3
<1>5. combineConfigIssues(s, t) = appendBoundedIssues(u, t)
    BY DEF combineConfigIssues, m
<1>. HIDE DEF u
<1>6. QED
    BY <1>2, <1>3, <1>4, <1>5, AppendBoundedEmpty

LEMMA TakeEmpty ==
    ASSUME NEW C, "overflow" \in C, NEW x \in Run(C), NEW step, isStep(step), step.issues \in Seq(C)
    PROVE  /\ Take(x, step) \in Run(C)
           /\ Take(x, step).issues = << >> <=> x.issues = << >> /\ step.issues = << >>
<1>1. CASE x.ended
    BY <1>1 DEF Take, Run
<1>2. CASE ~x.ended
    <2>. DEFINE s == IF step.bounded THEN appendDeclarationIssues(x.issues, step.issues) ELSE x.issues \o step.issues
                e == step.last \/ (step.bounded /\ contains(s, "overflow"))
    <2>1. s \in Seq(C) /\ (s = << >> <=> x.issues = << >> /\ step.issues = << >>)
        <3>1. x.issues \in Seq(C)
            BY DEF Run
        <3>2. CASE step.bounded
            BY <3>1, <3>2, CombineEmpty DEF appendDeclarationIssues
        <3>3. CASE ~step.bounded
            BY <3>1, <3>3
        <3>4. QED
            BY <3>2, <3>3
    <2>. HIDE DEF s
    <2>2. contains(s, "overflow") => s # << >>
        BY <2>1 DEF contains
    <2>3. e \in BOOLEAN /\ (e => s # << >>)
        BY <2>1, <2>2 DEF isStep
    <2>4. Take(x, step) = [issues |-> s, found |-> x.found + Len(step.issues), ended |-> e]
        BY <1>2 DEF Take, s
    <2>5. x.found + Len(step.issues) \in Nat
        BY DEF Run
    <2>. HIDE DEF e
    <2>6. QED
        BY <2>1, <2>3, <2>4, <2>5 DEF Run
<1>3. QED
    BY <1>1, <1>2 DEF Run

(* What holds at zero and passes from each number to the next holds up to n. *)
LEMMA CountUp ==
    ASSUME NEW n \in Nat, NEW T, 0 \in T, \A i \in 1..n : i - 1 \in T => i \in T
    PROVE  \A i \in 0..n : i \in T
<1>. DEFINE S == {i \in 0..n : i \notin T}
<1>. SUFFICES ASSUME S # {} PROVE FALSE
    OBVIOUS
<1>1. PICK m \in S : \A k \in S : m <= k
    BY LeastNumber, S \in SUBSET Nat
<1>2. m \in 1..n /\ m - 1 \in 0..n
    OBVIOUS
<1>3. m - 1 \notin S
    BY <1>1, <1>2
<1>4. QED
    BY <1>2, <1>3

LEMMA UpTo ==
    ASSUME NEW n \in Nat, NEW i \in 1..n
    PROVE  1..i \in SUBSET (1..n) /\ 1..i # {} /\ (1..i) \ {i} = 1..(i - 1) /\ Max(1..i) = i
<1>1. 1..i \in SUBSET (1..n) /\ 1..i # {} /\ (1..i) \ {i} = 1..(i - 1)
    OBVIOUS
<1>2. Max(1..i) = i
    BY MaxWith
<1>3. QED
    BY <1>1, <1>2

LEMMA MaxIsIn ==
    ASSUME NEW n \in Nat, NEW s \in SUBSET (1..n), s # {}
    PROVE  Max(s) \in s
<1>. DEFINE T == {n - x : x \in s}
<1>1. PICK m \in T : \A k \in T : m <= k
    BY LeastNumber, T \in SUBSET Nat, T # {}
<1>2. PICK x \in s : m = n - x
    BY <1>1
<1>3. ASSUME NEW y \in s PROVE x >= y
    <2>1. n - y \in T /\ x \in 1..n /\ y \in 1..n
        OBVIOUS
    <2>2. m <= n - y
        BY <1>1, <2>1
    <2>3. QED
        BY <1>2, <2>1, <2>2
<1>4. QED
    BY <1>3 DEF Max

NoRun == [issues |-> << >>, found |-> 0, ended |-> FALSE]

(* A validation reports nothing exactly when each of its steps reports nothing. *)
LEMMA ValidationQuiet ==
    ASSUME NEW steps, isSteps(steps)
    PROVE  /\ isList(Validation(steps).issues)
           /\ Validation(steps).issues = << >> <=> Quiet(steps)
<1>. DEFINE n == Len(steps)
            C == {"overflow"} \cup UNION {ToSet(steps[k].issues) : k \in DOMAIN steps}
<1>1. n \in Nat /\ DOMAIN steps = 1..n
    BY DEF isSteps, isList
<1>2. "overflow" \in C /\ \A k \in 1..n : isStep(steps[k]) /\ steps[k].issues \in Seq(C)
    <2>1. ASSUME NEW k \in 1..n PROVE steps[k].issues \in Seq(C)
        <3>1. ToSet(steps[k].issues) \subseteq C
            BY <1>1
        <3>2. steps[k].issues \in Seq(ToSet(steps[k].issues))
            BY <1>1 DEF isSteps, isStep, isList
        <3>. HIDE DEF C
        <3>3. QED
            BY <3>1, <3>2
    <2>2. QED
        BY <1>1, <2>1 DEF isSteps
<1>. HIDE DEF C, n
<1>. DEFINE Iter(it) == it = [s \in SUBSET (DOMAIN steps) |-> IF s = {} THEN NoRun ELSE Take(it[s \ {Max(s)}], steps[Max(s)])]
            step == [p \in (1..n) \X Run(C) |-> Take(p[2], steps[p[1]])]
            chosen == CHOOSE it : Iter(it)
            T == {i \in 0..n : /\ chosen[1..i] \in Run(C)
                               /\ chosen[1..i].issues = << >> <=> \A k \in 1..i : steps[k].issues = << >>}
<1>3. Validation(steps) = chosen[DOMAIN steps]
    BY DEF Validation, FoldLeft, MapThenFoldSet, NoRun
<1>4. NoRun \in Run(C) /\ NoRun.issues = << >>
    BY DEF NoRun, Run
<1>5. \E it : Iter(it)
    <2>1. step \in [(1..n) \X Run(C) -> Run(C)]
        BY <1>2, TakeEmpty
    <2>. HIDE DEF step
    <2>2. PICK it \in [SUBSET (1..n) -> Run(C)] : Folds_(it, n, NoRun, step)
        BY <1>1, <1>4, <2>1, FoldExists
    <2>3. ASSUME NEW s \in SUBSET (1..n), s # {}
          PROVE  it[s] = Take(it[s \ {Max(s)}], steps[Max(s)])
        <3>1. Max(s) \in s
            BY <1>1, <2>3, MaxIsIn
        <3>2. <<Max(s), it[s \ {Max(s)}]>> \in (1..n) \X Run(C)
            BY <3>1
        <3>3. QED
            BY <2>2, <2>3, <3>2 DEF Folds_, step
    <2>4. Iter(it)
        BY <1>1, <2>2, <2>3 DEF Folds_
    <2>5. QED
        BY <2>4
<1>6. Iter(chosen)
    BY <1>5
<1>. HIDE DEF step, chosen
<1>7. chosen[1..0] = NoRun /\ \A i \in 1..n : chosen[1..i] = Take(chosen[1..(i - 1)], steps[i])
    <2>1. ASSUME NEW i \in 1..n PROVE chosen[1..i] = Take(chosen[1..(i - 1)], steps[i])
        <3>1. 1..i \in SUBSET (1..n) /\ 1..i # {} /\ (1..i) \ {i} = 1..(i - 1) /\ Max(1..i) = i
            BY <1>1, UpTo
        <3>2. QED
            BY <1>1, <1>6, <3>1
    <2>2. 1..0 = {} /\ {} \in SUBSET (1..n)
        OBVIOUS
    <2>3. QED
        BY <1>1, <1>6, <2>1, <2>2
<1>8. 0 \in T
    BY <1>1, <1>4, <1>7
<1>9. ASSUME NEW i \in 1..n, i - 1 \in T PROVE i \in T
    <2>1. i - 1 \in 0..n /\ i \in 0..n
        BY <1>1
    <2>2. chosen[1..(i - 1)] \in Run(C)
        BY <1>9, <2>1
    <2>3. isStep(steps[i]) /\ steps[i].issues \in Seq(C) /\ "overflow" \in C
        BY <1>2
    <2>4. /\ chosen[1..i] \in Run(C)
          /\ chosen[1..i].issues = << >> <=> chosen[1..(i - 1)].issues = << >> /\ steps[i].issues = << >>
        BY <1>7, <2>2, <2>3, TakeEmpty
    <2>5. \A k \in 1..i : k \in 1..(i - 1) \/ k = i
        BY <1>1
    <2>6. 1..(i - 1) \subseteq 1..i /\ i \in 1..i
        BY <1>1
    <2>7. QED
        BY <1>9, <2>1, <2>4, <2>5, <2>6
<1>10. n \in T
    <2>. HIDE DEF T
    <2>1. \A i \in 0..n : i \in T
        BY <1>1, <1>8, <1>9, CountUp
    <2>2. QED
        BY <1>1, <2>1
<1>11. QED
    <2>1. isList(chosen[1..n].issues)
        BY <1>1, <1>10, SeqIsList DEF Run
    <2>2. QED
        BY <1>1, <1>3, <1>10, <2>1 DEF Quiet

LEMMA ConcatQuiet ==
    ASSUME NEW s, isSteps(s), NEW t, isSteps(t)
    PROVE  isSteps(s \o t) /\ (Quiet(s \o t) <=> Quiet(s) /\ Quiet(t))
<1>. DEFINE S == ToSet(s) \cup ToSet(t)
<1>1. s \in Seq(S) /\ t \in Seq(S)
    BY DEF isSteps, isList, ToSet
<1>. HIDE DEF S
<1>2. s \o t \in Seq(S) /\ DOMAIN (s \o t) = 1..(Len(s) + Len(t)) /\ DOMAIN s = 1..Len(s) /\ DOMAIN t = 1..Len(t)
    BY <1>1
<1>3. \A k \in 1..Len(s) : (s \o t)[k] = s[k] /\ k \in DOMAIN (s \o t)
    BY <1>1
<1>4. \A k \in 1..Len(t) : (s \o t)[Len(s) + k] = t[k] /\ Len(s) + k \in DOMAIN (s \o t)
    BY <1>1
<1>5. ASSUME NEW k \in DOMAIN (s \o t), k \notin DOMAIN s
      PROVE  k - Len(s) \in DOMAIN t /\ (s \o t)[k] = t[k - Len(s)]
    BY <1>1, <1>5
<1>6. \A k \in DOMAIN s : k \in DOMAIN (s \o t) /\ (s \o t)[k] = s[k]
    BY <1>2, <1>3
<1>7. \A k \in DOMAIN t : \E j \in DOMAIN (s \o t) : (s \o t)[j] = t[k]
    BY <1>2, <1>4
<1>8. isList(s \o t)
    BY <1>2, SeqIsList
<1>9. \A k \in DOMAIN (s \o t) : \/ k \in DOMAIN s /\ (s \o t)[k] = s[k]
                                 \/ \E j \in DOMAIN t : (s \o t)[k] = t[j]
    BY <1>5, <1>6
<1>10. \A k \in DOMAIN (s \o t) : isStep((s \o t)[k])
    BY <1>9 DEF isSteps
<1>11. Quiet(s \o t) => Quiet(s) /\ Quiet(t)
    BY <1>6, <1>7 DEF Quiet
<1>12. Quiet(s) /\ Quiet(t) => Quiet(s \o t)
    BY <1>9 DEF Quiet
<1>13. QED
    BY <1>8, <1>10, <1>11, <1>12 DEF isSteps

LEMMA OneStep ==
    ASSUME NEW step, isStep(step)
    PROVE  isSteps(<<step>>) /\ (Quiet(<<step>>) <=> step.issues = << >>)
<1>1. isList(<<step>>) /\ DOMAIN <<step>> = {1} /\ <<step>>[1] = step
    BY OneIsList
<1>2. QED
    BY <1>1 DEF isSteps, Quiet

LEMMA AppendQuiet ==
    ASSUME NEW issues_, isList(issues_)
    PROVE  isSteps(Append_(issues_)) /\ (Quiet(Append_(issues_)) <=> issues_ = << >>)
<1>. DEFINE step == [issues |-> issues_, bounded |-> TRUE, last |-> FALSE]
<1>1. isStep(step) /\ step.issues = issues_
    BY DEF isStep
<1>. HIDE DEF step
<1>2. Append_(issues_) = <<step>>
    BY DEF Append_, step
<1>3. QED
    BY <1>1, <1>2, OneStep

LEMMA PushQuiet ==
    ASSUME NEW issues_, isList(issues_)
    PROVE  isSteps(Push(issues_)) /\ (Quiet(Push(issues_)) <=> issues_ = << >>)
<1>. DEFINE step == [issues |-> issues_, bounded |-> FALSE, last |-> FALSE]
<1>1. isStep(step) /\ step.issues = issues_
    BY DEF isStep
<1>. HIDE DEF step
<1>2. Push(issues_) = <<step>>
    BY DEF Push, step
<1>3. QED
    BY <1>1, <1>2, OneStep

(* A check that ends the validation has something to report. *)
LEMMA ReturnQuiet ==
    ASSUME NEW issues_, isList(issues_), issues_ # << >>
    PROVE  /\ isSteps(Return(Append_(issues_))) /\ ~Quiet(Return(Append_(issues_)))
           /\ isSteps(Return(Push(issues_))) /\ ~Quiet(Return(Push(issues_)))
<1>1. ASSUME NEW b \in BOOLEAN
      PROVE  LET r == Return(<<[issues |-> issues_, bounded |-> b, last |-> FALSE]>>) IN isSteps(r) /\ ~Quiet(r)
    <2>. DEFINE old == [issues |-> issues_, bounded |-> b, last |-> FALSE]
                step == [issues |-> issues_, bounded |-> b, last |-> TRUE]
    <2>1. isStep(step) /\ step.issues # << >>
        BY DEF isStep
    <2>6. [issues |-> old.issues, bounded |-> old.bounded, last |-> TRUE] = step
        OBVIOUS
    <2>. HIDE DEF old, step
    <2>2. DOMAIN <<old>> = {1} /\ <<old>>[1] = old
        OBVIOUS
    <2>3. [i \in {1} |-> step] = <<step>>
        OBVIOUS
    <2>4. Return(<<old>>) = <<step>>
        BY <2>2, <2>3, <2>6 DEF Return
    <2>5. QED
        BY <2>1, <2>4, OneStep DEF old
<1>2. QED
    BY <1>1 DEF Append_, Push

LEMMA NoSteps == isSteps(<< >>) /\ Quiet(<< >>)
BY NothingIsList DEF isSteps, Quiet

LEMMA FlattenQuiet ==
    ASSUME NEW ss, isList(ss), \A i \in DOMAIN ss : isSteps(ss[i])
    PROVE  /\ isSteps(FlattenSeq(ss))
           /\ Quiet(FlattenSeq(ss)) <=> \A i \in DOMAIN ss : Quiet(ss[i])
<1>. DEFINE n == Len(ss)
<1>1. n \in Nat /\ DOMAIN ss = 1..n
    BY DEF isList
<1>. HIDE DEF n
<1>2. CASE n = 0
    <2>1. ss = << >>
        BY <1>1, <1>2 DEF isList, n
    <2>2. FlattenSeq(ss) = ss
        BY <1>2 DEF FlattenSeq, n
    <2>3. QED
        BY <2>1, <2>2, NoSteps
<1>3. CASE n # 0
    <2>. DEFINE Flat(f, k) == f = [i \in 1..k |-> IF i = 1 THEN ss[i] ELSE f[i - 1] \o ss[i]]
                chosen == CHOOSE f : Flat(f, n)
                E == {k \in 0..n : \E f : Flat(f, k)}
                T == {k \in 0..n : k > 0 => /\ isSteps(chosen[k])
                                            /\ Quiet(chosen[k]) <=> \A i \in 1..k : Quiet(ss[i])}
    <2>1. FlattenSeq(ss) = chosen[n]
        BY <1>3 DEF FlattenSeq, n
    <2>2. n \in E
        <3>1. 0 \in E
            <4>. DEFINE g == [i \in 1..0 |-> ss[i]]
            <4>1. Flat(g, 0)
                OBVIOUS
            <4>. HIDE DEF g
            <4>2. \E f : Flat(f, 0)
                BY <4>1
            <4>. HIDE DEF Flat
            <4>3. 0 \in 0..n
                BY <1>1
            <4>4. QED
                BY <4>2, <4>3
        <3>2. ASSUME NEW k \in 1..n, k - 1 \in E PROVE k \in E
            <4>1. k - 1 \in 0..n /\ k \in 0..n
                BY <1>1
            <4>2. PICK f : Flat(f, k - 1)
                BY <3>2, <4>1
            <4>. DEFINE g == [i \in 1..k |-> IF i = k THEN IF k = 1 THEN ss[k] ELSE f[k - 1] \o ss[k] ELSE f[i]]
            <4>3. ASSUME NEW i \in 1..k PROVE g[i] = IF i = 1 THEN ss[i] ELSE g[i - 1] \o ss[i]
                <5>1. CASE i = k
                    BY <1>1, <5>1
                <5>2. CASE i # k
                    <6>1. i \in 1..(k - 1) /\ (i # 1 => i - 1 \in 1..k /\ i - 1 # k)
                        BY <1>1, <5>2
                    <6>2. g[i] = f[i] /\ (i # 1 => g[i - 1] = f[i - 1])
                        BY <5>2, <6>1
                    <6>3. f[i] = IF i = 1 THEN ss[i] ELSE f[i - 1] \o ss[i]
                        BY <4>2, <6>1
                    <6>4. QED
                        BY <6>2, <6>3
                <5>3. QED
                    BY <5>1, <5>2
            <4>4. Flat(g, k)
                BY <4>3
            <4>5. QED
                BY <4>1, <4>4
        <3>. HIDE DEF E
        <3>3. \A k \in 0..n : k \in E
            BY <1>1, <3>1, <3>2, CountUp
        <3>4. QED
            BY <1>1, <3>3
    <2>3. Flat(chosen, n)
        BY <1>1, <2>2
    <2>. HIDE DEF chosen, E
    <2>4. \A k \in 1..n : chosen[k] = IF k = 1 THEN ss[k] ELSE chosen[k - 1] \o ss[k]
        BY <2>3
    <2>5. n \in T
        <3>1. 0 \in T
            BY <1>1
        <3>2. ASSUME NEW k \in 1..n, k - 1 \in T PROVE k \in T
            <4>1. k - 1 \in 0..n /\ k \in 0..n /\ isSteps(ss[k])
                BY <1>1
            <4>2. CASE k = 1
                BY <2>4, <4>1, <4>2
            <4>3. CASE k # 1
                <5>1. isSteps(chosen[k - 1]) /\ (Quiet(chosen[k - 1]) <=> \A i \in 1..(k - 1) : Quiet(ss[i]))
                    BY <1>1, <3>2, <4>1, <4>3
                <5>2. chosen[k] = chosen[k - 1] \o ss[k]
                    BY <2>4, <4>3
                <5>3. isSteps(chosen[k]) /\ (Quiet(chosen[k]) <=> Quiet(chosen[k - 1]) /\ Quiet(ss[k]))
                    BY <4>1, <5>1, <5>2, ConcatQuiet
                <5>4. \A i \in 1..k : i \in 1..(k - 1) \/ i = k
                    BY <1>1
                <5>5. 1..(k - 1) \subseteq 1..k /\ k \in 1..k
                    BY <1>1
                <5>6. QED
                    BY <4>1, <5>1, <5>3, <5>4, <5>5
            <4>4. QED
                BY <4>2, <4>3
        <3>. HIDE DEF T
        <3>3. \A k \in 0..n : k \in T
            BY <1>1, <3>1, <3>2, CountUp
        <3>4. QED
            BY <1>1, <3>3
    <2>6. QED
        BY <1>1, <1>3, <2>1, <2>5
<1>4. QED
    BY <1>2, <1>3

LEMMA Concat3 ==
    ASSUME NEW a, isList(a), NEW b, isList(b), NEW c, isList(c)
    PROVE  isList(a \o b \o c) /\ (a \o b \o c = << >> <=> a = << >> /\ b = << >> /\ c = << >>)
<1>1. isList(a \o b) /\ (a \o b = << >> <=> a = << >> /\ b = << >>)
    BY ConcatEmpty
<1>2. QED
    BY <1>1, ConcatEmpty

LEMMA Concat4 ==
    ASSUME NEW a, isList(a), NEW b, isList(b), NEW c, isList(c), NEW d, isList(d)
    PROVE  /\ isList(a \o b \o c \o d)
           /\ a \o b \o c \o d = << >> <=> a = << >> /\ b = << >> /\ c = << >> /\ d = << >>
<1>1. isList(a \o b \o c) /\ (a \o b \o c = << >> <=> a = << >> /\ b = << >> /\ c = << >>)
    BY Concat3
<1>2. QED
    BY <1>1, ConcatEmpty

LEMMA Concat5 ==
    ASSUME NEW a, isList(a), NEW b, isList(b), NEW c, isList(c), NEW d, isList(d), NEW e, isList(e)
    PROVE  /\ isList(a \o b \o c \o d \o e)
           /\ a \o b \o c \o d \o e = << >> <=> a = << >> /\ b = << >> /\ c = << >> /\ d = << >> /\ e = << >>
<1>1. /\ isList(a \o b \o c \o d)
      /\ a \o b \o c \o d = << >> <=> a = << >> /\ b = << >> /\ c = << >> /\ d = << >>
    BY Concat4
<1>2. QED
    BY <1>1, ConcatEmpty

areLists(a, b, c, d, e, f, g, h) ==
    isList(a) /\ isList(b) /\ isList(c) /\ isList(d) /\ isList(e) /\ isList(f) /\ isList(g) /\ isList(h)

LEMMA Concat8 ==
    ASSUME NEW a, NEW b, NEW c, NEW d, NEW e, NEW f, NEW g, NEW h, areLists(a, b, c, d, e, f, g, h)
    PROVE  /\ isList(a \o b \o c \o d \o e \o f \o g \o h)
           /\ a \o b \o c \o d \o e \o f \o g \o h = << >>
                 <=> /\ a = << >> /\ b = << >> /\ c = << >> /\ d = << >>
                     /\ e = << >> /\ f = << >> /\ g = << >> /\ h = << >>
<1>. DEFINE s == a \o b \o c \o d \o e
<1>0. isList(a) /\ isList(b) /\ isList(c) /\ isList(d) /\ isList(e) /\ isList(f) /\ isList(g) /\ isList(h)
    BY DEF areLists
<1>1. isList(s) /\ (s = << >> <=> a = << >> /\ b = << >> /\ c = << >> /\ d = << >> /\ e = << >>)
    BY <1>0, Concat5
<1>. HIDE DEF s
<1>2. isList(s \o f \o g \o h) /\ (s \o f \o g \o h = << >> <=> s = << >> /\ f = << >> /\ g = << >> /\ h = << >>)
    BY <1>0, <1>1, Concat4
<1>3. QED
    BY <1>1, <1>2 DEF s

-----------------------------------------------------------------------------
(***************************************************************************)
(* Each check reports nothing exactly when what it checks is sound.        *)
(***************************************************************************)
LEMMA MappingEmpty ==
    ASSUME NEW q, isParsedMapping(q), NEW kind
    PROVE  /\ isList(validateOverrideMappingDeclaration(q, kind))
           /\ validateOverrideMappingDeclaration(q, kind) = << >> <=> soundMapping(q, kind)
<1>. DEFINE a == unknownFields(q, {"parseAs", "numberFormat", "emptyValue", "secret"}, "pipeline_override_mapping_unknown_field")
            b == when(q.name = "" \/ (kind = "argv" /\ q.name \in NamesWithEquals), "pipeline_override_mapping_external_name_invalid")
            c == when(q.kind # kind, "pipeline_override_mapping_source_kind_invalid")
            d == when(q.target = << >>, "pipeline_override_mapping_target_path_invalid")
            e == when(malformed(q, "parseAs"), "pipeline_override_mapping_parse_as_invalid")
            f == when(has(q, "numberFormat") /\ (malformed(q, "numberFormat") \/ ~word(q, "parseAs", {"number"})),
                      "pipeline_override_mapping_number_format_invalid")
            g == when(malformed(q, "emptyValue"), "pipeline_override_mapping_empty_value_invalid")
            h == when(malformed(q, "secret"), "pipeline_override_mapping_secret_invalid")
<1>0. isJson(q)
    BY DEF isParsedMapping
<1>1. isList(a) /\ (a = << >> <=> DOMAIN q.fields \subseteq {"parseAs", "numberFormat", "emptyValue", "secret"})
    BY <1>0, UnknownEmpty
<1>2. isList(b) /\ (b = << >> <=> ~(q.name = "" \/ (kind = "argv" /\ q.name \in NamesWithEquals)))
    BY WhenEmpty
<1>3. isList(c) /\ (c = << >> <=> q.kind = kind) /\ isList(d) /\ (d = << >> <=> q.target # << >>)
    BY WhenEmpty
<1>4. /\ isList(e) /\ (e = << >> <=> ~malformed(q, "parseAs"))
      /\ isList(g) /\ (g = << >> <=> ~malformed(q, "emptyValue"))
      /\ isList(h) /\ (h = << >> <=> ~malformed(q, "secret"))
    BY WhenEmpty DEF malformed, has
<1>5. isList(f) /\ (f = << >> <=> ~(has(q, "numberFormat") /\ (malformed(q, "numberFormat") \/ ~word(q, "parseAs", {"number"}))))
    BY WhenEmpty DEF malformed, has, word
<1>6. CASE ~q.object
    BY <1>6, OneIsList DEF validateOverrideMappingDeclaration, soundMapping, sound
<1>7. CASE q.object
    <2>1. validateOverrideMappingDeclaration(q, kind) = a \o b \o c \o d \o e \o f \o g \o h
        BY <1>7 DEF validateOverrideMappingDeclaration
    <2>. HIDE DEF a, b, c, d, e, f, g, h
    <2>2. /\ isList(validateOverrideMappingDeclaration(q, kind))
          /\ validateOverrideMappingDeclaration(q, kind) = << >>
                <=> /\ a = << >> /\ b = << >> /\ c = << >> /\ d = << >>
                    /\ e = << >> /\ f = << >> /\ g = << >> /\ h = << >>
        <3>1. areLists(a, b, c, d, e, f, g, h)
            BY <1>1, <1>2, <1>3, <1>4, <1>5 DEF areLists
        <3>2. QED
            BY <2>1, <3>1, Concat8
    <2>3. validateOverrideMappingDeclaration(q, kind) = << >>
             <=> /\ DOMAIN q.fields \subseteq {"parseAs", "numberFormat", "emptyValue", "secret"}
                 /\ ~(q.name = "" \/ (kind = "argv" /\ q.name \in NamesWithEquals))
                 /\ q.kind = kind /\ q.target # << >>
                 /\ ~malformed(q, "parseAs") /\ ~malformed(q, "emptyValue") /\ ~malformed(q, "secret")
                 /\ ~(has(q, "numberFormat") /\ (malformed(q, "numberFormat") \/ ~word(q, "parseAs", {"number"})))
        BY <1>1, <1>2, <1>3, <1>4, <1>5, <2>2
    <2>4. ASSUME validateOverrideMappingDeclaration(q, kind) = << >> PROVE soundMapping(q, kind)
        BY <1>7, <2>3, <2>4 DEF soundMapping, sound, malformed, has, word, setting
    <2>5. ASSUME soundMapping(q, kind) PROVE validateOverrideMappingDeclaration(q, kind) = << >>
        BY <2>3, <2>5 DEF soundMapping, sound, malformed, has, word, setting
    <2>6. QED
        BY <2>2, <2>4, <2>5
<1>8. QED
    BY <1>6, <1>7

LEMMA MalformedEmpty ==
    ASSUME NEW r, NEW f, NEW code
    PROVE  /\ isList(when(malformed(r, f), code)) /\ (when(malformed(r, f), code) = << >> <=> ~malformed(r, f))
           /\ isList(when(lacks(r, f), code)) /\ (when(lacks(r, f), code) = << >> <=> ~lacks(r, f))
<1>1. malformed(r, f) \in BOOLEAN /\ lacks(r, f) \in BOOLEAN
    BY DEF malformed, lacks, has
<1>2. QED
    BY <1>1, WhenEmpty

PolicyFields == {"secretSource", "secretPaths", "secretNamePatterns"}

LEMMA PolicyEmpty ==
    ASSUME NEW p, isJson(p), p.object
    PROVE  /\ isList(validateRedactionPolicyDeclaration(p))
           /\ validateRedactionPolicyDeclaration(p) = << >> <=> sound(p, {}, PolicyFields)
<1>. DEFINE a == unknownFields(p, PolicyFields, "pipeline_redaction_policy_unknown_field")
            b == when(malformed(p, "secretSource"), "pipeline_redaction_secret_source_invalid")
            c == when(malformed(p, "secretPaths"), "pipeline_redaction_secret_paths_invalid")
            d == when(malformed(p, "secretNamePatterns"), "pipeline_redaction_secret_name_patterns_invalid")
<1>1. validateRedactionPolicyDeclaration(p) = a \o b \o c \o d
    BY DEF validateRedactionPolicyDeclaration, PolicyFields
<1>2. isList(a) /\ (a = << >> <=> DOMAIN p.fields \subseteq PolicyFields)
    BY UnknownEmpty
<1>3. /\ isList(b) /\ (b = << >> <=> ~malformed(p, "secretSource"))
      /\ isList(c) /\ (c = << >> <=> ~malformed(p, "secretPaths"))
      /\ isList(d) /\ (d = << >> <=> ~malformed(p, "secretNamePatterns"))
    BY MalformedEmpty
<1>. HIDE DEF a, b, c, d
<1>4. /\ isList(a \o b \o c \o d)
      /\ a \o b \o c \o d = << >> <=> a = << >> /\ b = << >> /\ c = << >> /\ d = << >>
    BY <1>2, <1>3, Concat4
<1>5. sound(p, {}, PolicyFields)
         <=> /\ DOMAIN p.fields \subseteq PolicyFields
             /\ ~malformed(p, "secretSource") /\ ~malformed(p, "secretPaths") /\ ~malformed(p, "secretNamePatterns")
    BY DEF sound, PolicyFields, malformed, has
<1>6. QED
    BY <1>1, <1>2, <1>3, <1>4, <1>5

(* What the checks that every kind of source has leave. *)
CommonSound(s) ==
    /\ s.kind \in Kinds /\ s.id # ""
    /\ DOMAIN s.fields \subseteq BASE_SOURCE_FIELDS \cup SOURCE_KIND_FIELDS[s.kind]
    /\ ~malformed(s, "redaction") /\ ~lacks(s, "priority") /\ ~malformed(s, "displayName")
    /\ "redaction" \in DOMAIN s.fields => sound(s.policy, {}, PolicyFields)

LEMMA CommonEmpty ==
    ASSUME NEW s, isParsedSource(s)
    PROVE  /\ isList(validateCommonSourceFields(s))
           /\ validateCommonSourceFields(s) = << >> <=> CommonSound(s)
<1>. DEFINE a == IF s.kind \in Kinds
                 THEN unknownFields(s, BASE_SOURCE_FIELDS \cup SOURCE_KIND_FIELDS[s.kind], "pipeline_source_unknown_field")
                 ELSE << >>
            b == when(s.id = "", "pipeline_source_id_invalid")
            c == when(s.kind = "", "pipeline_source_kind_invalid")
            d == when(s.kind \notin Kinds \cup {""}, "unsupported_source_kind")
            e == when(malformed(s, "redaction"), "pipeline_redaction_policy_invalid")
            f == IF ~lacks(s, "redaction") THEN validateRedactionPolicyDeclaration(s.policy) ELSE << >>
            g == when(lacks(s, "priority"), "pipeline_source_priority_invalid")
            h == when(malformed(s, "displayName"), "pipeline_source_display_name_invalid")
<1>0. isJson(s) /\ isJson(s.policy) /\ s.policy.object
    BY DEF isParsedSource
<1>1. isList(a) /\ (a = << >> <=> (s.kind \in Kinds => DOMAIN s.fields \subseteq BASE_SOURCE_FIELDS \cup SOURCE_KIND_FIELDS[s.kind]))
    BY <1>0, UnknownEmpty, NothingIsList
<1>2. /\ isList(b) /\ (b = << >> <=> s.id # "") /\ isList(c) /\ (c = << >> <=> s.kind # "")
      /\ isList(d) /\ (d = << >> <=> s.kind \in Kinds \cup {""})
    BY WhenEmpty
<1>3. /\ isList(e) /\ (e = << >> <=> ~malformed(s, "redaction"))
      /\ isList(g) /\ (g = << >> <=> ~lacks(s, "priority"))
      /\ isList(h) /\ (h = << >> <=> ~malformed(s, "displayName"))
    BY MalformedEmpty
<1>4. isList(f) /\ (f = << >> <=> (~lacks(s, "redaction") => sound(s.policy, {}, PolicyFields)))
    BY <1>0, PolicyEmpty, NothingIsList
<1>5. validateCommonSourceFields(s) = a \o b \o c \o d \o e \o f \o g \o h
    BY DEF validateCommonSourceFields
<1>. HIDE DEF a, b, c, d, e, f, g, h
<1>6. areLists(a, b, c, d, e, f, g, h)
    BY <1>1, <1>2, <1>3, <1>4 DEF areLists
<1>7. /\ isList(validateCommonSourceFields(s))
      /\ validateCommonSourceFields(s) = << >>
            <=> /\ a = << >> /\ b = << >> /\ c = << >> /\ d = << >>
                /\ e = << >> /\ f = << >> /\ g = << >> /\ h = << >>
    BY <1>5, <1>6, Concat8
<1>8. "" \notin Kinds
    BY DEF Kinds
<1>9. CommonSound(s)
         <=> /\ s.kind \in Kinds => DOMAIN s.fields \subseteq BASE_SOURCE_FIELDS \cup SOURCE_KIND_FIELDS[s.kind]
             /\ s.id # "" /\ s.kind # "" /\ s.kind \in Kinds \cup {""}
             /\ ~malformed(s, "redaction") /\ ~lacks(s, "priority") /\ ~malformed(s, "displayName")
             /\ ~lacks(s, "redaction") => sound(s.policy, {}, PolicyFields)
    BY <1>8 DEF CommonSound, lacks, has
<1>10. QED
    BY <1>1, <1>2, <1>3, <1>4, <1>7, <1>9

LEMMA FileEmpty ==
    ASSUME NEW s
    PROVE  /\ isList(validateFileSourceFields(s))
           /\ validateFileSourceFields(s) = << >>
                 <=> /\ s.kind = "adapter" => ~lacks(s, "format")
                     /\ s.kind = "adapter" /\ has(s, "allowTrailingComma")
                           => ~malformed(s, "allowTrailingComma") /\ word(s, "format", {"jsonc"})
                     /\ ~lacks(s, "path") /\ ~malformed(s, "maxFileBytes")
<1>. DEFINE a == when(s.kind = "adapter" /\ lacks(s, "format"), "pipeline_file_format_invalid")
            b == when(s.kind = "adapter" /\ has(s, "allowTrailingComma")
                      /\ (malformed(s, "allowTrailingComma") \/ ~word(s, "format", {"jsonc"})),
                      "pipeline_file_trailing_comma_invalid")
            c == when(lacks(s, "path"), "pipeline_file_source_path_invalid")
            d == when(malformed(s, "maxFileBytes"), "pipeline_file_source_max_file_bytes_invalid")
<1>1. isList(a) /\ (a = << >> <=> ~(s.kind = "adapter" /\ lacks(s, "format")))
    BY WhenEmpty DEF lacks, malformed, has
<1>2. isList(b) /\ (b = << >> <=> ~(s.kind = "adapter" /\ has(s, "allowTrailingComma")
                                    /\ (malformed(s, "allowTrailingComma") \/ ~word(s, "format", {"jsonc"}))))
    BY WhenEmpty DEF malformed, has, word
<1>3. /\ isList(c) /\ (c = << >> <=> ~lacks(s, "path"))
      /\ isList(d) /\ (d = << >> <=> ~malformed(s, "maxFileBytes"))
    BY MalformedEmpty
<1>4. validateFileSourceFields(s) = a \o b \o c \o d
    BY DEF validateFileSourceFields
<1>. HIDE DEF a, b, c, d
<1>5. /\ isList(a \o b \o c \o d)
      /\ a \o b \o c \o d = << >> <=> a = << >> /\ b = << >> /\ c = << >> /\ d = << >>
    BY <1>1, <1>2, <1>3, Concat4
<1>6. QED
    BY <1>1, <1>2, <1>3, <1>4, <1>5

LEMMA PrefixEmpty ==
    ASSUME NEW s
    PROVE  /\ isList(validateProcessEnvPrefix(s))
           /\ validateProcessEnvPrefix(s) = << >>
                 <=> /\ ~malformed(s, "unmappedPrefix")
                     /\ ~(~lacks(s, "unmappedBehavior") /\ lacks(s, "unmappedPrefix"))
                     /\ ~(~lacks(s, "unmappedPrefix") /\ ~has(s, "unmappedBehavior"))
<1>. DEFINE a == when(malformed(s, "unmappedPrefix"), "pipeline_unmapped_prefix_invalid")
            b == when(~lacks(s, "unmappedBehavior") /\ lacks(s, "unmappedPrefix"), "pipeline_unmapped_prefix_required")
            c == when(~lacks(s, "unmappedPrefix") /\ ~has(s, "unmappedBehavior"), "pipeline_unmapped_behavior_required")
<1>1. isList(a) /\ (a = << >> <=> ~malformed(s, "unmappedPrefix"))
    BY MalformedEmpty
<1>2. isList(b) /\ (b = << >> <=> ~(~lacks(s, "unmappedBehavior") /\ lacks(s, "unmappedPrefix")))
    BY WhenEmpty DEF lacks, malformed, has
<1>3. isList(c) /\ (c = << >> <=> ~(~lacks(s, "unmappedPrefix") /\ ~has(s, "unmappedBehavior")))
    BY WhenEmpty DEF lacks, malformed, has
<1>4. validateProcessEnvPrefix(s) = a \o b \o c
    BY DEF validateProcessEnvPrefix
<1>. HIDE DEF a, b, c
<1>5. isList(a \o b \o c) /\ (a \o b \o c = << >> <=> a = << >> /\ b = << >> /\ c = << >>)
    BY <1>1, <1>2, <1>3, Concat3
<1>6. QED
    BY <1>1, <1>2, <1>3, <1>4, <1>5

-----------------------------------------------------------------------------
(***************************************************************************)
(* The tree of target paths: no conflict is reported exactly when no two   *)
(* targets are in each other's way.                                        *)
(***************************************************************************)
LEMMA PrefixesArePrefixes ==
    ASSUME NEW S, NEW p \in Seq(S), NEW q \in Seq(S)
    PROVE  p \in prefixesOf(q) <=> isPathPrefix(p, q)
<1>1. ASSUME NEW n \in 0..Len(q), p = SubSeq(q, 1, n) PROVE isPathPrefix(p, q)
    BY <1>1 DEF isPathPrefix
<1>2. ASSUME isPathPrefix(p, q) PROVE p = SubSeq(q, 1, Len(p)) /\ Len(p) \in 0..Len(q)
    <2>1. Len(p) \in 0..Len(q)
        BY <1>2 DEF isPathPrefix
    <2>2. SubSeq(q, 1, Len(p)) \in Seq(S) /\ Len(SubSeq(q, 1, Len(p))) = Len(p)
        BY <2>1
    <2>3. \A i \in 1..Len(p) : SubSeq(q, 1, Len(p))[i] = p[i]
        BY <1>2, <2>1 DEF isPathPrefix
    <2>4. QED
        BY <2>1, <2>2, <2>3
<1>3. QED
    BY <1>1, <1>2 DEF prefixesOf

LEMMA ConflictFound ==
    ASSUME NEW S, NEW T \in SUBSET Seq(S), NEW p \in Seq(S),
           NEW trie, trie.terminal = T, trie.first = UNION {prefixesOf(t) : t \in T}
    PROVE  conflictWith(trie, p) = "none" <=> \A t \in T : ~overlap(t, p)
<1>1. \A t \in T : t \in prefixesOf(p) <=> isPathPrefix(t, p)
    BY PrefixesArePrefixes
<1>2. \A t \in T : p \in prefixesOf(t) <=> isPathPrefix(p, t)
    BY PrefixesArePrefixes
<1>3. p \in trie.first <=> \E t \in T : isPathPrefix(p, t)
    BY <1>2
<1>4. conflictWith(trie, p) = "none" <=> (\A t \in T : t \notin prefixesOf(p)) /\ p \notin trie.terminal /\ p \notin trie.first
    BY DEF conflictWith
<1>5. p \in trie.terminal => isPathPrefix(p, p)
    BY PrefixesArePrefixes, <1>1 DEF isPathPrefix
<1>6. QED
    BY <1>1, <1>3, <1>4, <1>5 DEF overlap

usable(q) == q.object /\ q.target # << >>
Conflicts == {"none", "overlap", "exact", "overflow"}
Adding(U) == [trie : [terminal : SUBSET Seq(U), first : SUBSET Seq(U)], issues : Seq(Conflicts)]

LEMMA AddTargetType ==
    ASSUME NEW U, NEW x \in Adding(U), NEW q, q.target \in Seq(U)
    PROVE  addTarget(x, q) \in Adding(U)
<1>. DEFINE conflict == conflictWith(x.trie, q.target)
            trie == addPath(x.trie, q.target)
            found_ == IF conflict = "none" THEN x.issues ELSE appendDeclarationIssues(x.issues, <<conflict>>)
<1>1. conflict \in Conflicts
    BY DEF conflictWith, Conflicts
<1>2. prefixesOf(q.target) \in SUBSET Seq(U)
    BY DEF prefixesOf
<1>3. x.trie \in [terminal : SUBSET Seq(U), first : SUBSET Seq(U)] /\ x.issues \in Seq(Conflicts)
    BY DEF Adding
<1>4. trie \in [terminal : SUBSET Seq(U), first : SUBSET Seq(U)]
    <2>1. x.trie.terminal \cup {q.target} \in SUBSET Seq(U) /\ x.trie.first \cup prefixesOf(q.target) \in SUBSET Seq(U)
        BY <1>2, <1>3
    <2>2. QED
        BY <1>3, <2>1 DEF addPath
<1>5. found_ \in Seq(Conflicts)
    <2>. HIDE DEF conflict
    <2>1. <<conflict>> \in Seq(Conflicts) /\ "overflow" \in Conflicts
        BY <1>1 DEF Conflicts
    <2>2. QED
        BY <1>3, <2>1, CombineEmpty DEF appendDeclarationIssues
<1>6. ~usable(q) => addTarget(x, q) = x
    BY DEF addTarget, usable
<1>7. usable(q) => addTarget(x, q) = [trie |-> trie, issues |-> found_]
    BY DEF addTarget, usable
<1>. HIDE DEF trie, found_
<1>8. QED
    BY <1>4, <1>5, <1>6, <1>7 DEF Adding

NoTargets == [trie |-> emptyTrie, issues |-> << >>]

LEMMA TargetsAdded ==
    ASSUME NEW ms, isList(ms), NEW U, \A i \in DOMAIN ms : ms[i].target \in Seq(U)
    PROVE  \E run : /\ run[0] = NoTargets /\ \A i \in 0..Len(ms) : run[i] \in Adding(U)
                    /\ \A i \in 1..Len(ms) : run[i] = addTarget(run[i - 1], ms[i])
                    /\ validateUniqueMappingTargetPaths(ms) = run[Len(ms)].issues
<1>. DEFINE n == Len(ms)
<1>1. n \in Nat /\ DOMAIN ms = 1..n
    BY DEF isList
<1>. HIDE DEF n
<1>. DEFINE Iter(it) == it = [s \in SUBSET (DOMAIN ms) |-> IF s = {} THEN NoTargets ELSE addTarget(it[s \ {Max(s)}], ms[Max(s)])]
            step == [p \in (1..n) \X Adding(U) |-> addTarget(p[2], ms[p[1]])]
            chosen == CHOOSE it : Iter(it)
            run == [i \in 0..n |-> chosen[1..i]]
            T == {i \in 0..n : chosen[1..i] \in Adding(U)}
<1>2. validateUniqueMappingTargetPaths(ms) = chosen[DOMAIN ms].issues
    BY DEF validateUniqueMappingTargetPaths, FoldLeft, MapThenFoldSet, NoTargets
<1>3. NoTargets \in Adding(U)
    BY DEF NoTargets, Adding, emptyTrie
<1>4. \E it : Iter(it)
    <2>1. step \in [(1..n) \X Adding(U) -> Adding(U)]
        BY <1>1, AddTargetType
    <2>. HIDE DEF step
    <2>2. PICK it \in [SUBSET (1..n) -> Adding(U)] : Folds_(it, n, NoTargets, step)
        BY <1>1, <1>3, <2>1, FoldExists
    <2>3. ASSUME NEW s \in SUBSET (1..n), s # {}
          PROVE  it[s] = addTarget(it[s \ {Max(s)}], ms[Max(s)])
        <3>1. Max(s) \in s
            BY <1>1, <2>3, MaxIsIn
        <3>2. <<Max(s), it[s \ {Max(s)}]>> \in (1..n) \X Adding(U)
            BY <3>1
        <3>3. QED
            BY <2>2, <2>3, <3>2 DEF Folds_, step
    <2>4. Iter(it)
        BY <1>1, <2>2, <2>3 DEF Folds_
    <2>5. QED
        BY <2>4
<1>5. Iter(chosen)
    BY <1>4
<1>. HIDE DEF step, chosen
<1>6. chosen[1..0] = NoTargets /\ \A i \in 1..n : chosen[1..i] = addTarget(chosen[1..(i - 1)], ms[i])
    <2>1. ASSUME NEW i \in 1..n PROVE chosen[1..i] = addTarget(chosen[1..(i - 1)], ms[i])
        <3>1. 1..i \in SUBSET (1..n) /\ 1..i # {} /\ (1..i) \ {i} = 1..(i - 1) /\ Max(1..i) = i
            BY <1>1, UpTo
        <3>2. QED
            BY <1>1, <1>5, <3>1
    <2>2. 1..0 = {} /\ {} \in SUBSET (1..n)
        OBVIOUS
    <2>3. QED
        BY <1>1, <1>5, <2>1, <2>2
<1>7. 0 \in T
    BY <1>1, <1>3, <1>6
<1>8. ASSUME NEW i \in 1..n, i - 1 \in T PROVE i \in T
    BY <1>1, <1>6, <1>8, AddTargetType
<1>9. \A i \in 0..n : i \in T
    <2>. HIDE DEF T
    <2>1. QED
        BY <1>1, <1>7, <1>8, CountUp
<1>10. /\ run[0] = NoTargets /\ \A i \in 0..n : run[i] \in Adding(U)
       /\ \A i \in 1..n : run[i] = addTarget(run[i - 1], ms[i])
       /\ validateUniqueMappingTargetPaths(ms) = run[n].issues
    BY <1>1, <1>2, <1>6, <1>9
<1>. HIDE DEF run
<1>11. QED
    BY <1>10 DEF n

LEMMA TargetsUnique ==
    ASSUME NEW ms, isList(ms), \A i \in DOMAIN ms : isParsedMapping(ms[i])
    PROVE  /\ isList(validateUniqueMappingTargetPaths(ms))
           /\ validateUniqueMappingTargetPaths(ms) = << >>
                 <=> \A i, j \in DOMAIN ms :
                        i # j /\ usable(ms[i]) /\ usable(ms[j]) => ~overlap(ms[i].target, ms[j].target)
<1>. DEFINE n == Len(ms)
            U == UNION {ToSet(ms[i].target) : i \in DOMAIN ms}
<1>1. n \in Nat /\ DOMAIN ms = 1..n
    BY DEF isList
<1>2. \A i \in 1..n : ms[i].target \in Seq(U)
    <2>1. ASSUME NEW i \in 1..n PROVE ms[i].target \in Seq(U)
        <3>1. ms[i].target \in Seq(ToSet(ms[i].target)) /\ ToSet(ms[i].target) \subseteq U
            BY <1>1 DEF isParsedMapping, isList
        <3>. HIDE DEF U
        <3>2. QED
            BY <3>1
    <2>2. QED
        BY <2>1
<1>. HIDE DEF U, n
<1>3. PICK run : /\ run[0] = NoTargets /\ \A i \in 0..n : run[i] \in Adding(U)
                 /\ \A i \in 1..n : run[i] = addTarget(run[i - 1], ms[i])
                 /\ validateUniqueMappingTargetPaths(ms) = run[n].issues
    BY <1>1, <1>2, TargetsAdded DEF n
<1>. DEFINE Earlier(i) == {k \in 1..i : usable(ms[k])}
            Targets(i) == {ms[k].target : k \in Earlier(i)}
            Apart(i) == \A j, k \in Earlier(i) : j # k => ~overlap(ms[j].target, ms[k].target)
            T == {i \in 0..n : /\ run[i].issues = << >> <=> Apart(i)
                               /\ run[i].issues = << >> =>
                                     /\ run[i].trie.terminal = Targets(i)
                                     /\ run[i].trie.first = UNION {prefixesOf(t) : t \in Targets(i)}}
<1>4. 0 \in T
    <2>1. Earlier(0) = {}
        OBVIOUS
    <2>2. run[0].issues = << >> /\ run[0].trie.terminal = {} /\ run[0].trie.first = {}
        BY <1>3 DEF NoTargets, emptyTrie
    <2>3. 0 \in 0..n
        BY <1>1
    <2>4. QED
        BY <2>1, <2>2, <2>3
<1>5. ASSUME NEW i \in 1..n, i - 1 \in T PROVE i \in T
    <2>. DEFINE x == run[i - 1]
                q == ms[i]
    <2>0. i - 1 \in 0..n /\ i \in 0..n
        BY <1>1
    <2>1. /\ x.issues = << >> <=> Apart(i - 1)
          /\ x.issues = << >> => /\ x.trie.terminal = Targets(i - 1)
                                 /\ x.trie.first = UNION {prefixesOf(t) : t \in Targets(i - 1)}
        BY <1>5
    <2>2. run[i] = addTarget(x, q) /\ x \in Adding(U)
        BY <1>3, <2>0
    <2>3. \A k \in 1..i : k \in 1..(i - 1) \/ k = i
        BY <1>1
    <2>4. 1..(i - 1) \subseteq 1..i /\ i \in 1..i /\ i \notin 1..(i - 1)
        BY <1>1
    <2>5. CASE ~usable(q)
        <3>1. Earlier(i) = Earlier(i - 1)
            BY <2>3, <2>4, <2>5
        <3>2. run[i] = x
            BY <2>2, <2>5 DEF addTarget, usable
        <3>. HIDE DEF Earlier
        <3>3. QED
            BY <2>0, <2>1, <3>1, <3>2
    <2>6. CASE usable(q)
        <3>. DEFINE conflict == conflictWith(x.trie, q.target)
        <3>1. Earlier(i) = Earlier(i - 1) \cup {i} /\ i \notin Earlier(i - 1)
            BY <2>3, <2>4, <2>6
        <3>2. run[i] = [trie |-> addPath(x.trie, q.target),
                        issues |-> IF conflict = "none" THEN x.issues ELSE appendDeclarationIssues(x.issues, <<conflict>>)]
            BY <2>2, <2>6 DEF addTarget, usable
        <3>3. x.issues \in Seq(Conflicts) /\ <<conflict>> \in Seq(Conflicts) /\ "overflow" \in Conflicts
            BY <2>2 DEF Adding, conflictWith, Conflicts
        <3>4. appendDeclarationIssues(x.issues, <<conflict>>) # << >>
            <4>. HIDE DEF conflict, x
            <4>1. <<conflict>> # << >>
                OBVIOUS
            <4>2. combineConfigIssues(x.issues, <<conflict>>) # << >>
                BY <3>3, <4>1, CombineEmpty
            <4>3. QED
                BY <4>2 DEF appendDeclarationIssues
        <3>5. run[i].issues = << >> <=> x.issues = << >> /\ conflict = "none"
            BY <3>2, <3>4
        <3>6. Apart(i) <=> Apart(i - 1) /\ \A t \in Targets(i - 1) : ~overlap(t, q.target)
            <4>1. \A j \in Earlier(i - 1) : overlap(ms[j].target, q.target) <=> overlap(q.target, ms[j].target)
                BY DEF overlap
            <4>2. Apart(i) <=> Apart(i - 1) /\ \A j \in Earlier(i - 1) : ~overlap(ms[j].target, q.target)
                <5>. HIDE DEF Earlier
                <5>1. QED
                    BY <3>1, <4>1
            <4>3. QED
                BY <4>2
        <3>. HIDE DEF conflict
        <3>7. CASE x.issues # << >>
            BY <2>0, <2>1, <3>5, <3>6, <3>7
        <3>8. CASE x.issues = << >>
            <4>1. Targets(i - 1) \in SUBSET Seq(U) /\ q.target \in Seq(U)
                BY <1>1, <1>2, <2>0
            <4>2. conflict = "none" <=> \A t \in Targets(i - 1) : ~overlap(t, q.target)
                <5>. DEFINE old == Targets(i - 1)
                            trie == x.trie
                <5>1. old \in SUBSET Seq(U) /\ trie.terminal = old /\ trie.first = UNION {prefixesOf(t) : t \in old}
                    BY <2>1, <3>8, <4>1
                <5>. HIDE DEF old, trie
                <5>2. conflictWith(trie, q.target) = "none" <=> \A t \in old : ~overlap(t, q.target)
                    BY <4>1, <5>1, ConflictFound
                <5>3. QED
                    BY <5>2 DEF conflict, old, trie
            <4>3. run[i].issues = << >> <=> Apart(i)
                BY <2>1, <3>5, <3>6, <3>8, <4>2
            <4>4. Targets(i) = Targets(i - 1) \cup {q.target}
                <5>. HIDE DEF Earlier
                <5>1. QED
                    BY <3>1
            <4>5. ASSUME conflict = "none"
                  PROVE  /\ run[i].trie.terminal = Targets(i)
                         /\ run[i].trie.first = UNION {prefixesOf(t) : t \in Targets(i)}
                <5>1. run[i].trie = [terminal |-> x.trie.terminal \cup {q.target}, first |-> x.trie.first \cup prefixesOf(q.target)]
                    BY <3>2, <4>5 DEF addPath, conflict
                <5>. HIDE DEF Targets
                <5>2. UNION {prefixesOf(t) : t \in Targets(i)} = (UNION {prefixesOf(t) : t \in Targets(i - 1)}) \cup prefixesOf(q.target)
                    BY <4>4
                <5>3. QED
                    BY <2>1, <3>8, <4>4, <5>1, <5>2
            <4>. HIDE DEF Targets, Apart
            <4>6. QED
                BY <2>0, <3>5, <4>3, <4>5
        <3>9. QED
            BY <3>7, <3>8
    <2>7. QED
        BY <2>5, <2>6
<1>6. n \in T
    <2>. HIDE DEF T
    <2>1. \A i \in 0..n : i \in T
        BY <1>1, <1>4, <1>5, CountUp
    <2>2. QED
        BY <1>1, <2>1
<1>7. isList(run[n].issues)
    BY <1>1, <1>3, SeqIsList DEF Adding
<1>8. QED
    BY <1>1, <1>3, <1>6, <1>7

-----------------------------------------------------------------------------
(* Checking each entry of a list reports nothing exactly when no entry has issues. *)
LEMMA EachQuiet ==
    ASSUME NEW list, isList(list), NEW codes, \A i \in DOMAIN list : isList(codes[i])
    PROVE  LET steps == FlattenSeq([i \in DOMAIN list |-> Append_(codes[i])])
           IN  isSteps(steps) /\ (Quiet(steps) <=> \A i \in DOMAIN list : codes[i] = << >>)
<1>. DEFINE ss == [i \in DOMAIN list |-> Append_(codes[i])]
<1>1. isList(ss)
    <2>1. Len(list) \in Nat /\ DOMAIN list = 1..Len(list)
        BY DEF isList
    <2>2. ss = [i \in 1..Len(list) |-> ss[i]]
        BY <2>1
    <2>. HIDE DEF ss
    <2>3. ss \in Seq({ss[i] : i \in 1..Len(list)})
        BY <2>1, <2>2
    <2>4. QED
        BY <2>3, SeqIsList
<1>2. DOMAIN ss = DOMAIN list /\ \A i \in DOMAIN list : ss[i] = Append_(codes[i])
    OBVIOUS
<1>. HIDE DEF ss
<1>3. \A i \in DOMAIN ss : isSteps(ss[i]) /\ (Quiet(ss[i]) <=> codes[i] = << >>)
    BY <1>2, AppendQuiet
<1>4. isSteps(FlattenSeq(ss)) /\ (Quiet(FlattenSeq(ss)) <=> \A i \in DOMAIN ss : Quiet(ss[i]))
    BY <1>1, <1>3, FlattenQuiet
<1>5. QED
    BY <1>2, <1>3, <1>4 DEF ss

(* What the checks of an environment or argument source leave, but for the common ones. *)
OverrideSound(s) ==
    /\ ~malformed(s, limitField(s.kind)) /\ ~malformed(s, "unmappedBehavior") /\ ~lacks(s, "mappings")
    /\ s.kind = "env" => /\ ~malformed(s, "unmappedPrefix")
                         /\ ~(~lacks(s, "unmappedBehavior") /\ lacks(s, "unmappedPrefix"))
                         /\ ~(~lacks(s, "unmappedPrefix") /\ ~has(s, "unmappedBehavior"))
    /\ \A i \in DOMAIN s.mappings : soundMapping(s.mappings[i], s.kind)
    /\ \A i, j \in DOMAIN s.mappings : i # j => ~overlap(s.mappings[i].target, s.mappings[j].target)

LEMMA OverrideEmpty ==
    ASSUME NEW s, isParsedSource(s), NEW common, isList(common)
    PROVE  /\ isList(validateOverrideSourceFields(s, common))
           /\ validateOverrideSourceFields(s, common) = << >> <=> common = << >> /\ OverrideSound(s)
<1>. DEFINE ms == s.mappings
            b == when(malformed(s, limitField(s.kind)), "pipeline_max_entries_invalid")
            c == when(malformed(s, "unmappedBehavior"), "pipeline_unmapped_behavior_invalid")
            d == IF s.kind = "env" THEN validateProcessEnvPrefix(s) ELSE << >>
            all == common \o b \o c \o d
            codes == [i \in DOMAIN ms |-> validateOverrideMappingDeclaration(ms[i], s.kind)]
            each_ == FlattenSeq([i \in DOMAIN ms |-> Append_(codes[i])])
            unique == validateUniqueMappingTargetPaths(ms)
            rest == IF lacks(s, "mappings") THEN Push(<<"pipeline_override_mappings_invalid">>) ELSE each_ \o Append_(unique)
<1>1. isList(ms) /\ \A i \in DOMAIN ms : isParsedMapping(ms[i])
    BY DEF isParsedSource
<1>2. /\ isList(b) /\ (b = << >> <=> ~malformed(s, limitField(s.kind)))
      /\ isList(c) /\ (c = << >> <=> ~malformed(s, "unmappedBehavior"))
    BY MalformedEmpty
<1>3. isList(d) /\ (d = << >> <=> (s.kind = "env" => /\ ~malformed(s, "unmappedPrefix")
                                                    /\ ~(~lacks(s, "unmappedBehavior") /\ lacks(s, "unmappedPrefix"))
                                                    /\ ~(~lacks(s, "unmappedPrefix") /\ ~has(s, "unmappedBehavior"))))
    BY PrefixEmpty, NothingIsList
<1>4. \A i \in DOMAIN ms : isList(codes[i]) /\ (codes[i] = << >> <=> soundMapping(ms[i], s.kind))
    BY <1>1, MappingEmpty
<1>5. isList(unique)
         /\ (unique = << >> <=> \A i, j \in DOMAIN ms : i # j /\ usable(ms[i]) /\ usable(ms[j]) => ~overlap(ms[i].target, ms[j].target))
    BY <1>1, TargetsUnique
<1>6. validateOverrideSourceFields(s, common) = Collect(Push(all) \o rest)
    <2>1. each_ = FlattenSeq([i \in DOMAIN ms |-> Append_(validateOverrideMappingDeclaration(ms[i], s.kind))])
        OBVIOUS
    <2>. HIDE DEF each_
    <2>2. QED
        BY <2>1 DEF validateOverrideSourceFields, each
<1>7. isSteps(each_) /\ (Quiet(each_) <=> \A i \in DOMAIN ms : soundMapping(ms[i], s.kind))
    <2>. HIDE DEF codes, ms
    <2>1. isSteps(each_) /\ (Quiet(each_) <=> \A i \in DOMAIN ms : codes[i] = << >>)
        BY <1>1, <1>4, EachQuiet
    <2>. HIDE DEF each_
    <2>2. QED
        BY <1>4, <2>1
<1>. HIDE DEF b, c, d, each_, unique
<1>8. isList(all) /\ (all = << >> <=> common = << >> /\ b = << >> /\ c = << >> /\ d = << >>)
    BY <1>2, <1>3, Concat4
<1>. HIDE DEF all
<1>9. /\ isSteps(rest)
      /\ Quiet(rest) <=> ~lacks(s, "mappings") /\ Quiet(each_) /\ unique = << >>
    <2>1. CASE lacks(s, "mappings")
        BY <2>1, PushQuiet, OneIsList
    <2>2. CASE ~lacks(s, "mappings")
        <3>1. isSteps(Append_(unique)) /\ (Quiet(Append_(unique)) <=> unique = << >>)
            BY <1>5, AppendQuiet
        <3>2. isSteps(each_ \o Append_(unique)) /\ (Quiet(each_ \o Append_(unique)) <=> Quiet(each_) /\ Quiet(Append_(unique)))
            BY <1>7, <3>1, ConcatQuiet
        <3>3. QED
            BY <2>2, <3>1, <3>2
    <2>3. QED
        BY <2>1, <2>2
<1>. HIDE DEF rest
<1>10. isSteps(Push(all) \o rest) /\ (Quiet(Push(all) \o rest) <=> all = << >> /\ Quiet(rest))
    BY <1>8, <1>9, PushQuiet, ConcatQuiet
<1>11. /\ isList(validateOverrideSourceFields(s, common))
       /\ validateOverrideSourceFields(s, common) = << >> <=> all = << >> /\ Quiet(rest)
    BY <1>6, <1>10, ValidationQuiet DEF Collect
<1>12. (\A i \in DOMAIN ms : soundMapping(ms[i], s.kind)) => \A i \in DOMAIN ms : usable(ms[i])
    BY DEF soundMapping, sound, usable
<1>13. OverrideSound(s)
          <=> /\ ~malformed(s, limitField(s.kind)) /\ ~malformed(s, "unmappedBehavior") /\ ~lacks(s, "mappings")
              /\ s.kind = "env" => /\ ~malformed(s, "unmappedPrefix")
                                   /\ ~(~lacks(s, "unmappedBehavior") /\ lacks(s, "unmappedPrefix"))
                                   /\ ~(~lacks(s, "unmappedPrefix") /\ ~has(s, "unmappedBehavior"))
              /\ \A i \in DOMAIN ms : soundMapping(ms[i], s.kind)
              /\ \A i, j \in DOMAIN ms : i # j /\ usable(ms[i]) /\ usable(ms[j]) => ~overlap(ms[i].target, ms[j].target)
    BY <1>12 DEF OverrideSound
<1>14. QED
    BY <1>2, <1>3, <1>5, <1>7, <1>8, <1>9, <1>11, <1>13

LEMMA FieldsSound ==
    ASSUME NEW r, NEW required, NEW optional
    PROVE  sound(r, required, optional)
              <=> /\ r.object /\ DOMAIN r.fields \subseteq required \cup optional
                  /\ \A f \in required : has(r, f)
                  /\ \A f \in (required \cup optional) \ {"value"} : ~malformed(r, f)
BY DEF sound, malformed, has

LEMMA AllowedFields ==
    /\ BASE_SOURCE_FIELDS \cup SOURCE_KIND_FIELDS["object"] = {"priority", "value"} \cup {"displayName", "redaction"}
    /\ BASE_SOURCE_FIELDS \cup SOURCE_KIND_FIELDS["file"] = {"priority", "path"} \cup {"displayName", "redaction", "maxFileBytes"}
    /\ BASE_SOURCE_FIELDS \cup SOURCE_KIND_FIELDS["adapter"]
          = {"priority", "path", "format"} \cup {"displayName", "redaction", "maxFileBytes", "allowTrailingComma"}
    /\ BASE_SOURCE_FIELDS \cup SOURCE_KIND_FIELDS["env"]
          = {"priority", "mappings"} \cup {"displayName", "redaction", "maxEnvEntries", "unmappedBehavior", "unmappedPrefix"}
    /\ BASE_SOURCE_FIELDS \cup SOURCE_KIND_FIELDS["argv"]
          = {"priority", "mappings"} \cup {"displayName", "redaction", "maxArgvEntries", "unmappedBehavior"}
BY DEF BASE_SOURCE_FIELDS, SOURCE_KIND_FIELDS

(* The common checks and those of its kind together say that a source is sound. *)
LEMMA ObjectSound ==
    ASSUME NEW s, s.object, s.kind = "object"
    PROVE  soundSource(s) <=> CommonSound(s) /\ has(s, "value")
<1>1. sound(s, {"priority", "value"}, {"displayName", "redaction"})
         <=> /\ DOMAIN s.fields \subseteq BASE_SOURCE_FIELDS \cup SOURCE_KIND_FIELDS["object"]
             /\ has(s, "value") /\ ~lacks(s, "priority") /\ ~malformed(s, "displayName") /\ ~malformed(s, "redaction")
    BY AllowedFields, FieldsSound DEF lacks
<1>2. QED
    BY <1>1 DEF soundSource, CommonSound, Kinds, PolicyFields

LEMMA FileSound ==
    ASSUME NEW s, s.object, s.kind = "file"
    PROVE  soundSource(s) <=> CommonSound(s) /\ ~lacks(s, "path") /\ ~malformed(s, "maxFileBytes")
<1>1. sound(s, {"priority", "path"}, {"displayName", "redaction", "maxFileBytes"})
         <=> /\ DOMAIN s.fields \subseteq BASE_SOURCE_FIELDS \cup SOURCE_KIND_FIELDS["file"]
             /\ ~lacks(s, "path") /\ ~lacks(s, "priority") /\ ~malformed(s, "displayName") /\ ~malformed(s, "redaction")
             /\ ~malformed(s, "maxFileBytes")
    BY AllowedFields, FieldsSound DEF lacks
<1>2. QED
    BY <1>1 DEF soundSource, CommonSound, Kinds, PolicyFields

LEMMA AdapterSound ==
    ASSUME NEW s, s.object, s.kind = "adapter"
    PROVE  soundSource(s) <=> /\ CommonSound(s) /\ ~lacks(s, "format") /\ ~lacks(s, "path") /\ ~malformed(s, "maxFileBytes")
                              /\ has(s, "allowTrailingComma")
                                    => ~malformed(s, "allowTrailingComma") /\ word(s, "format", {"jsonc"})
<1>1. sound(s, {"priority", "path", "format"}, {"displayName", "redaction", "maxFileBytes", "allowTrailingComma"})
         <=> /\ DOMAIN s.fields \subseteq BASE_SOURCE_FIELDS \cup SOURCE_KIND_FIELDS["adapter"]
             /\ ~lacks(s, "path") /\ ~lacks(s, "priority") /\ ~lacks(s, "format") /\ ~malformed(s, "displayName")
             /\ ~malformed(s, "redaction") /\ ~malformed(s, "maxFileBytes") /\ ~malformed(s, "allowTrailingComma")
    BY AllowedFields, FieldsSound DEF lacks
<1>2. ~has(s, "allowTrailingComma") => ~malformed(s, "allowTrailingComma")
    BY DEF malformed
<1>3. ~lacks(s, "format") => (word(s, "format", {"jsonc"}) <=> s.fields.format = "jsonc")
    BY DEF lacks, word
<1>4. QED
    BY <1>1, <1>2, <1>3 DEF soundSource, CommonSound, Kinds, PolicyFields, has

LEMMA EnvSound ==
    ASSUME NEW s, s.object, s.kind = "env"
    PROVE  soundSource(s) <=> CommonSound(s) /\ OverrideSound(s)
<1>1. sound(s, {"priority", "mappings"}, {"displayName", "redaction", "maxEnvEntries", "unmappedBehavior", "unmappedPrefix"})
         <=> /\ DOMAIN s.fields \subseteq BASE_SOURCE_FIELDS \cup SOURCE_KIND_FIELDS["env"]
             /\ ~lacks(s, "mappings") /\ ~lacks(s, "priority") /\ ~malformed(s, "displayName") /\ ~malformed(s, "redaction")
             /\ ~malformed(s, "maxEnvEntries") /\ ~malformed(s, "unmappedBehavior") /\ ~malformed(s, "unmappedPrefix")
    BY AllowedFields, FieldsSound DEF lacks
<1>2. ~malformed(s, "unmappedBehavior") /\ ~malformed(s, "unmappedPrefix")
         => (/\ ~(~lacks(s, "unmappedBehavior") /\ lacks(s, "unmappedPrefix"))
             /\ ~(~lacks(s, "unmappedPrefix") /\ ~has(s, "unmappedBehavior"))
             <=> (has(s, "unmappedBehavior") <=> has(s, "unmappedPrefix")))
    BY DEF lacks
<1>3. OverrideSound(s)
         <=> /\ ~malformed(s, "maxEnvEntries") /\ ~malformed(s, "unmappedBehavior") /\ ~lacks(s, "mappings")
             /\ ~malformed(s, "unmappedPrefix") /\ (has(s, "unmappedBehavior") <=> has(s, "unmappedPrefix"))
             /\ \A i \in DOMAIN s.mappings : soundMapping(s.mappings[i], s.kind)
             /\ \A i, j \in DOMAIN s.mappings : i # j => ~overlap(s.mappings[i].target, s.mappings[j].target)
    BY <1>2 DEF OverrideSound, limitField
<1>4. soundSource(s)
         <=> /\ s.id # ""
             /\ sound(s, {"priority", "mappings"}, {"displayName", "redaction", "maxEnvEntries", "unmappedBehavior", "unmappedPrefix"})
             /\ (has(s, "unmappedBehavior") <=> has(s, "unmappedPrefix"))
             /\ "redaction" \in DOMAIN s.fields => sound(s.policy, {}, PolicyFields)
             /\ \A i \in DOMAIN s.mappings : soundMapping(s.mappings[i], s.kind)
             /\ \A i, j \in DOMAIN s.mappings : i # j => ~overlap(s.mappings[i].target, s.mappings[j].target)
    BY DEF soundSource, Kinds, PolicyFields, has
<1>5. QED
    BY <1>1, <1>3, <1>4 DEF CommonSound, Kinds

LEMMA ArgvSound ==
    ASSUME NEW s, s.object, s.kind = "argv"
    PROVE  soundSource(s) <=> CommonSound(s) /\ OverrideSound(s)
<1>1. sound(s, {"priority", "mappings"}, {"displayName", "redaction", "maxArgvEntries", "unmappedBehavior"})
         <=> /\ DOMAIN s.fields \subseteq BASE_SOURCE_FIELDS \cup SOURCE_KIND_FIELDS["argv"]
             /\ ~lacks(s, "mappings") /\ ~lacks(s, "priority") /\ ~malformed(s, "displayName") /\ ~malformed(s, "redaction")
             /\ ~malformed(s, "maxArgvEntries") /\ ~malformed(s, "unmappedBehavior")
    BY AllowedFields, FieldsSound DEF lacks
<1>2. OverrideSound(s)
         <=> /\ ~malformed(s, "maxArgvEntries") /\ ~malformed(s, "unmappedBehavior") /\ ~lacks(s, "mappings")
             /\ \A i \in DOMAIN s.mappings : soundMapping(s.mappings[i], s.kind)
             /\ \A i, j \in DOMAIN s.mappings : i # j => ~overlap(s.mappings[i].target, s.mappings[j].target)
    BY DEF OverrideSound, limitField
<1>3. soundSource(s)
         <=> /\ s.id # ""
             /\ sound(s, {"priority", "mappings"}, {"displayName", "redaction", "maxArgvEntries", "unmappedBehavior"})
             /\ "redaction" \in DOMAIN s.fields => sound(s.policy, {}, PolicyFields)
             /\ \A i \in DOMAIN s.mappings : soundMapping(s.mappings[i], s.kind)
             /\ \A i, j \in DOMAIN s.mappings : i # j => ~overlap(s.mappings[i].target, s.mappings[j].target)
    BY DEF soundSource, Kinds, PolicyFields
<1>4. QED
    BY <1>1, <1>2, <1>3 DEF CommonSound, Kinds

LEMMA SourceEmpty ==
    ASSUME NEW s, isParsedSource(s)
    PROVE  /\ isList(validateSourceDeclaration(s))
           /\ validateSourceDeclaration(s) = << >> <=> s.object /\ soundSource(s)
<1>. DEFINE common == validateCommonSourceFields(s)
<1>1. isList(common) /\ (common = << >> <=> CommonSound(s))
    BY CommonEmpty
<1>. HIDE DEF common
<1>2. CASE ~s.object
    BY <1>2, OneIsList DEF validateSourceDeclaration
<1>3. CASE s.object /\ s.kind = "object"
    <2>. DEFINE v == when(~has(s, "value"), "pipeline_object_source_value_missing")
    <2>1. isList(v) /\ (v = << >> <=> has(s, "value"))
        BY WhenEmpty DEF has
    <2>2. validateSourceDeclaration(s) = common \o v
        BY <1>3 DEF validateSourceDeclaration, common
    <2>. HIDE DEF v
    <2>3. QED
        BY <1>1, <1>3, <2>1, <2>2, ConcatEmpty, ObjectSound
<1>4. CASE s.object /\ s.kind \in {"file", "adapter"}
    <2>. DEFINE v == validateFileSourceFields(s)
                Good == /\ s.kind = "adapter" => ~lacks(s, "format")
                        /\ s.kind = "adapter" /\ has(s, "allowTrailingComma")
                              => ~malformed(s, "allowTrailingComma") /\ word(s, "format", {"jsonc"})
                        /\ ~lacks(s, "path") /\ ~malformed(s, "maxFileBytes")
    <2>1. isList(v) /\ (v = << >> <=> Good)
        BY FileEmpty
    <2>2. validateSourceDeclaration(s) = common \o v
        BY <1>4 DEF validateSourceDeclaration, common
    <2>. HIDE DEF v
    <2>3. isList(validateSourceDeclaration(s)) /\ (validateSourceDeclaration(s) = << >> <=> CommonSound(s) /\ Good)
        BY <1>1, <2>1, <2>2, ConcatEmpty
    <2>4. soundSource(s) <=> CommonSound(s) /\ Good
        BY <1>4, FileSound, AdapterSound
    <2>5. QED
        BY <1>4, <2>3, <2>4
<1>5. CASE s.object /\ s.kind \in {"env", "argv"}
    <2>1. validateSourceDeclaration(s) = validateOverrideSourceFields(s, common)
        BY <1>5 DEF validateSourceDeclaration, common
    <2>2. soundSource(s) <=> CommonSound(s) /\ OverrideSound(s)
        BY <1>5, EnvSound, ArgvSound
    <2>3. QED
        BY <1>1, <1>5, <2>1, <2>2, OverrideEmpty
<1>6. CASE s.object /\ s.kind \notin {"object", "file", "adapter", "env", "argv"}
    <2>1. validateSourceDeclaration(s) = common
        BY <1>6 DEF validateSourceDeclaration, common
    <2>2. ~CommonSound(s) /\ ~soundSource(s)
        BY <1>6 DEF CommonSound, soundSource, Kinds
    <2>3. QED
        BY <1>1, <2>1, <2>2
<1>7. s.object \in BOOLEAN
    BY DEF isParsedSource, isJson
<1>8. QED
    BY <1>2, <1>3, <1>4, <1>5, <1>6, <1>7

LEMMA ValidatorEmpty ==
    ASSUME NEW v, isParsedValidator(v)
    PROVE  /\ isList(validateValidatorDeclaration(v))
           /\ validateValidatorDeclaration(v) = << >>
                 <=> v.id # "" /\ sound(v, {"kind", "schema"}, {"includeConstraints"})
<1>. DEFINE a == unknownFields(v, {"kind", "schema", "includeConstraints"}, "pipeline_validator_unknown_field")
            b == when(v.id = "", "pipeline_validator_id_invalid")
            c == when(lacks(v, "kind"), "pipeline_validator_kind_invalid")
            d == when(malformed(v, "includeConstraints"), "pipeline_validator_constraints_invalid")
            e == when(lacks(v, "schema"), "pipeline_validator_schema_invalid")
<1>1. isList(a) /\ (a = << >> <=> DOMAIN v.fields \subseteq {"kind", "schema", "includeConstraints"})
    BY UnknownEmpty DEF isParsedValidator
<1>2. isList(b) /\ (b = << >> <=> v.id # "")
    BY WhenEmpty
<1>3. /\ isList(c) /\ (c = << >> <=> ~lacks(v, "kind"))
      /\ isList(d) /\ (d = << >> <=> ~malformed(v, "includeConstraints")) /\ isList(e) /\ (e = << >> <=> ~lacks(v, "schema"))
    BY MalformedEmpty
<1>4. CASE ~v.object
    BY <1>4, OneIsList DEF validateValidatorDeclaration, sound
<1>5. CASE v.object
    <2>1. validateValidatorDeclaration(v) = a \o b \o c \o d \o e
        BY <1>5 DEF validateValidatorDeclaration
    <2>. HIDE DEF a, b, c, d, e
    <2>2. isList(a) /\ isList(b) /\ isList(c) /\ isList(d) /\ isList(e)
        BY <1>1, <1>2, <1>3
    <2>3. /\ isList(a \o b \o c \o d \o e)
          /\ a \o b \o c \o d \o e = << >> <=> a = << >> /\ b = << >> /\ c = << >> /\ d = << >> /\ e = << >>
        BY <2>2, Concat5
    <2>4. sound(v, {"kind", "schema"}, {"includeConstraints"})
             <=> /\ DOMAIN v.fields \subseteq {"kind", "schema", "includeConstraints"}
                 /\ ~lacks(v, "kind") /\ ~malformed(v, "includeConstraints") /\ ~lacks(v, "schema")
        BY <1>5, FieldsSound, {"kind", "schema"} \cup {"includeConstraints"} = {"kind", "schema", "includeConstraints"} DEF lacks
    <2>5. QED
        BY <1>1, <1>2, <1>3, <2>1, <2>3, <2>4
<1>6. QED
    BY <1>4, <1>5

LEMMA RuleEmpty ==
    ASSUME NEW r, isParsedRule(r)
    PROVE  /\ isList(validateCoercionRuleDeclaration(r))
           /\ validateCoercionRuleDeclaration(r) = << >> <=> sound(r, {"path", "from", "to", "onFailure"}, {})
<1>. DEFINE a == unknownFields(r, {"path", "from", "to", "onFailure"}, "pipeline_coercion_rule_unknown_field")
            b == when(lacks(r, "path"), "pipeline_coercion_rule_path_invalid")
            c == when(lacks(r, "from"), "pipeline_coercion_rule_from_invalid")
            d == when(lacks(r, "to"), "pipeline_coercion_rule_to_invalid")
            e == when(lacks(r, "onFailure"), "pipeline_coercion_rule_on_failure_invalid")
<1>1. isList(a) /\ (a = << >> <=> DOMAIN r.fields \subseteq {"path", "from", "to", "onFailure"})
    BY UnknownEmpty DEF isParsedRule
<1>2. /\ isList(b) /\ (b = << >> <=> ~lacks(r, "path")) /\ isList(c) /\ (c = << >> <=> ~lacks(r, "from"))
      /\ isList(d) /\ (d = << >> <=> ~lacks(r, "to")) /\ isList(e) /\ (e = << >> <=> ~lacks(r, "onFailure"))
    BY MalformedEmpty
<1>3. CASE ~r.object
    BY <1>3, OneIsList DEF validateCoercionRuleDeclaration, sound
<1>4. CASE r.object
    <2>1. validateCoercionRuleDeclaration(r) = a \o b \o c \o d \o e
        BY <1>4 DEF validateCoercionRuleDeclaration
    <2>. HIDE DEF a, b, c, d, e
    <2>2. /\ isList(a \o b \o c \o d \o e)
          /\ a \o b \o c \o d \o e = << >> <=> a = << >> /\ b = << >> /\ c = << >> /\ d = << >> /\ e = << >>
        BY <1>1, <1>2, Concat5
    <2>3. sound(r, {"path", "from", "to", "onFailure"}, {})
             <=> /\ DOMAIN r.fields \subseteq {"path", "from", "to", "onFailure"}
                 /\ ~lacks(r, "path") /\ ~lacks(r, "from") /\ ~lacks(r, "to") /\ ~lacks(r, "onFailure")
        BY <1>4 DEF sound, lacks, malformed, has
    <2>4. QED
        BY <1>1, <1>2, <2>1, <2>2, <2>3
<1>5. QED
    BY <1>3, <1>4

LEMMA ListLength == ASSUME NEW s, isList(s) PROVE Len(s) \in Nat /\ DOMAIN s = 1..Len(s)
BY DEF isList

LEMMA ListOf ==
    ASSUME NEW s, isList(s), NEW f, DOMAIN f = DOMAIN s, f = [i \in DOMAIN s |-> f[i]]
    PROVE  isList(f)
<1>. DEFINE n == Len(s)
<1>1. n \in Nat /\ DOMAIN s = 1..n
    BY ListLength
<1>. HIDE DEF n
<1>2. f \in Seq({f[i] : i \in 1..n})
    BY <1>1
<1>3. QED
    BY <1>2, SeqIsList

LEMMA PlacesFinite ==
    ASSUME NEW list, isList(list), NEW S \in SUBSET DOMAIN list
    PROVE  IsFiniteSet(S)
<1>1. DOMAIN list = 1..Len(list) /\ Len(list) \in Nat
    BY DEF isList
<1>2. IsFiniteSet(1..Len(list))
    BY <1>1, FS_Interval
<1>3. QED
    BY <1>1, <1>2, FS_Subset

named(id) == id # ""

(* No two entries of a list have the same id; entries without one do not count. *)
Distinct(list) == \A i, j \in DOMAIN list : i # j /\ named(idOf(list[i])) => idOf(list[i]) # idOf(list[j])
Disjoint(list, other) == \A i \in DOMAIN list, j \in DOMAIN other : named(idOf(other[j])) => idOf(list[i]) # idOf(other[j])

LEMMA UniqueEmpty ==
    ASSUME NEW list, isList(list), NEW code
    PROVE  /\ isList(validateUniqueDeclarationIds(list, code))
           /\ validateUniqueDeclarationIds(list, code) = << >> <=> Distinct(list)
<1>. DEFINE S == {i \in DOMAIN list : named(idOf(list[i])) /\ \E j \in 1..(i - 1) : idOf(list[j]) = idOf(list[i])}
<1>1. DOMAIN list = 1..Len(list) /\ Len(list) \in Nat
    BY DEF isList
<1>2. IsFiniteSet(S)
    BY PlacesFinite
<1>3. \A i : i \in S <=> i \in DOMAIN list /\ named(idOf(list[i])) /\ \E j \in 1..(i - 1) : idOf(list[j]) = idOf(list[i])
    OBVIOUS
<1>. HIDE DEF S
<1>4. S = {} <=> Distinct(list)
    <2>1. ASSUME S = {}, NEW i \in DOMAIN list, NEW j \in DOMAIN list, i # j, named(idOf(list[i])), idOf(list[i]) = idOf(list[j])
          PROVE  FALSE
        <3>1. i \in Int /\ j \in Int /\ (j < i => j \in 1..(i - 1)) /\ (i < j => i \in 1..(j - 1))
            BY <1>1
        <3>2. j < i => i \in S
            BY <1>3, <2>1, <3>1
        <3>3. i < j => j \in S
            BY <1>3, <2>1, <3>1
        <3>4. i < j \/ j < i
            BY <2>1, <3>1
        <3>5. QED
            BY <2>1, <3>2, <3>3, <3>4
    <2>2. ASSUME Distinct(list), NEW i \in S PROVE FALSE
        <3>1. i \in DOMAIN list /\ named(idOf(list[i]))
            BY <1>3
        <3>2. PICK j \in 1..(i - 1) : idOf(list[j]) = idOf(list[i])
            BY <1>3
        <3>3. j \in DOMAIN list /\ i # j
            BY <1>1, <3>1, <3>2
        <3>4. QED
            BY <2>2, <3>1, <3>2, <3>3 DEF Distinct
    <2>3. QED
        BY <2>1, <2>2 DEF Distinct
<1>5. isList(copies(Cardinality(S), code)) /\ (copies(Cardinality(S), code) = << >> <=> S = {})
    BY <1>2, CountEmpty
<1>6. QED
    BY <1>4, <1>5 DEF validateUniqueDeclarationIds, S, named

LEMMA DisjointEmpty ==
    ASSUME NEW list, isList(list), NEW other, isList(other)
    PROVE  /\ isList(validateDisjointDeclarationIds(list, other))
           /\ validateDisjointDeclarationIds(list, other) = << >> <=> Disjoint(list, other)
<1>. DEFINE S == {i \in DOMAIN other : named(idOf(other[i])) /\ \E j \in DOMAIN list : idOf(list[j]) = idOf(other[i])}
            code == "pipeline_declaration_id_namespace_collision"
<1>1. IsFiniteSet(S)
    BY PlacesFinite
<1>2. S = {} <=> Disjoint(list, other)
    BY DEF Disjoint
<1>. HIDE DEF S
<1>3. isList(copies(Cardinality(S), code)) /\ (copies(Cardinality(S), code) = << >> <=> S = {})
    BY <1>1, CountEmpty
<1>4. QED
    BY <1>2, <1>3 DEF validateDisjointDeclarationIds, S, named

LEMMA Joined ==
    ASSUME NEW s, isList(s), NEW t, isList(t)
    PROVE  /\ DOMAIN (s \o t) = 1..(Len(s) + Len(t)) /\ Len(s \o t) = Len(s) + Len(t)
           /\ DOMAIN s = 1..Len(s) /\ DOMAIN t = 1..Len(t) /\ Len(s) \in Nat /\ Len(t) \in Nat
           /\ \A k \in DOMAIN s : k \in DOMAIN (s \o t) /\ (s \o t)[k] = s[k]
           /\ \A k \in DOMAIN t : Len(s) + k \in DOMAIN (s \o t) /\ (s \o t)[Len(s) + k] = t[k]
           /\ \A k \in DOMAIN (s \o t) : k \notin DOMAIN s => k - Len(s) \in DOMAIN t /\ (s \o t)[k] = t[k - Len(s)]
<1>. DEFINE S == ToSet(s) \cup ToSet(t)
<1>1. s \in Seq(S) /\ t \in Seq(S)
    BY DEF isList, ToSet
<1>. HIDE DEF S
<1>2. QED
    BY <1>1

LEMMA JoinedDistinct ==
    ASSUME NEW s, isList(s), NEW t, isList(t)
    PROVE  (\A i, j \in DOMAIN (s \o t) : i # j => (s \o t)[i] # (s \o t)[j])
              <=> /\ \A i, j \in DOMAIN s : i # j => s[i] # s[j]
                  /\ \A i, j \in DOMAIN t : i # j => t[i] # t[j]
                  /\ \A i \in DOMAIN s, j \in DOMAIN t : s[i] # t[j]
<1>. DEFINE u == s \o t
            m == Len(s)
            n == Len(t)
<1>1. /\ DOMAIN u = 1..(m + n) /\ DOMAIN s = 1..m /\ DOMAIN t = 1..n /\ m \in Nat /\ n \in Nat
      /\ \A k \in DOMAIN s : k \in DOMAIN u /\ u[k] = s[k]
      /\ \A k \in DOMAIN t : m + k \in DOMAIN u /\ u[m + k] = t[k]
      /\ \A k \in DOMAIN u : k \notin DOMAIN s => k - m \in DOMAIN t /\ u[k] = t[k - m]
    BY Joined
<1>. HIDE DEF u, m, n
<1>2. ASSUME \A i, j \in DOMAIN u : i # j => u[i] # u[j]
      PROVE  /\ \A i, j \in DOMAIN s : i # j => s[i] # s[j]
             /\ \A i, j \in DOMAIN t : i # j => t[i] # t[j]
             /\ \A i \in DOMAIN s, j \in DOMAIN t : s[i] # t[j]
    <2>1. \A i, j \in DOMAIN s : i # j => s[i] # s[j]
        BY <1>1, <1>2
    <2>2. ASSUME NEW i \in DOMAIN t, NEW j \in DOMAIN t, i # j PROVE t[i] # t[j]
        <3>1. m + i # m + j
            BY <1>1, <2>2
        <3>2. QED
            BY <1>1, <1>2, <3>1
    <2>3. ASSUME NEW i \in DOMAIN s, NEW j \in DOMAIN t PROVE s[i] # t[j]
        <3>1. i # m + j
            BY <1>1
        <3>2. QED
            BY <1>1, <1>2, <3>1
    <2>4. QED
        BY <2>1, <2>2, <2>3
<1>3. ASSUME /\ \A i, j \in DOMAIN s : i # j => s[i] # s[j]
             /\ \A i, j \in DOMAIN t : i # j => t[i] # t[j]
             /\ \A i \in DOMAIN s, j \in DOMAIN t : s[i] # t[j],
             NEW i \in DOMAIN u, NEW j \in DOMAIN u, i # j
      PROVE  u[i] # u[j]
    <2>1. i - m # j - m
        BY <1>1, <1>3
    <2>2. (i \in DOMAIN s /\ u[i] = s[i]) \/ (i - m \in DOMAIN t /\ u[i] = t[i - m])
        BY <1>1
    <2>3. (j \in DOMAIN s /\ u[j] = s[j]) \/ (j - m \in DOMAIN t /\ u[j] = t[j - m])
        BY <1>1
    <2>4. QED
        BY <1>3, <2>1, <2>2, <2>3
<1>4. QED
    BY <1>2, <1>3 DEF u

idsOf(body) == [i \in DOMAIN body.sources |-> body.sources[i].id] \o [i \in DOMAIN body.validators |-> body.validators[i].id]

(* Where every entry has an id, the three checks together say that no id is used twice. *)
LEMMA IdsDistinct ==
    ASSUME NEW body, isList(body.sources), isList(body.validators),
           \A i \in DOMAIN body.sources : body.sources[i].object /\ named(body.sources[i].id),
           \A i \in DOMAIN body.validators : body.validators[i].object /\ named(body.validators[i].id)
    PROVE  (\A i, j \in DOMAIN idsOf(body) : i # j => idsOf(body)[i] # idsOf(body)[j])
              <=> Distinct(body.sources) /\ Distinct(body.validators) /\ Disjoint(body.sources, body.validators)
<1>. DEFINE s == [i \in DOMAIN body.sources |-> body.sources[i].id]
            t == [i \in DOMAIN body.validators |-> body.validators[i].id]
<1>1. isList(s) /\ DOMAIN s = DOMAIN body.sources
    <2>1. DOMAIN s = DOMAIN body.sources /\ s = [i \in DOMAIN body.sources |-> s[i]]
        OBVIOUS
    <2>. HIDE DEF s
    <2>2. QED
        BY <2>1, ListOf
<1>2. isList(t) /\ DOMAIN t = DOMAIN body.validators
    <2>1. DOMAIN t = DOMAIN body.validators /\ t = [i \in DOMAIN body.validators |-> t[i]]
        OBVIOUS
    <2>. HIDE DEF t
    <2>2. QED
        BY <2>1, ListOf
<1>3. /\ Distinct(body.sources) <=> \A i, j \in DOMAIN s : i # j => s[i] # s[j]
      /\ Distinct(body.validators) <=> \A i, j \in DOMAIN t : i # j => t[i] # t[j]
      /\ Disjoint(body.sources, body.validators) <=> \A i \in DOMAIN s, j \in DOMAIN t : s[i] # t[j]
    <2>1. \A i \in DOMAIN s : s[i] = idOf(body.sources[i]) /\ named(idOf(body.sources[i]))
        BY DEF idOf
    <2>2. \A i \in DOMAIN t : t[i] = idOf(body.validators[i]) /\ named(idOf(body.validators[i]))
        BY DEF idOf
    <2>. HIDE DEF s, t
    <2>3. Distinct(body.sources) <=> \A i, j \in DOMAIN s : i # j => s[i] # s[j]
        BY <1>1, <2>1 DEF Distinct
    <2>4. Distinct(body.validators) <=> \A i, j \in DOMAIN t : i # j => t[i] # t[j]
        BY <1>2, <2>2 DEF Distinct
    <2>5. Disjoint(body.sources, body.validators) <=> \A i \in DOMAIN s, j \in DOMAIN t : s[i] # t[j]
        BY <1>1, <1>2, <2>1, <2>2 DEF Disjoint
    <2>6. QED
        BY <2>3, <2>4, <2>5
<1>. HIDE DEF s, t
<1>5. idsOf(body) = s \o t
    BY DEF idsOf, s, t
<1>6. (\A i, j \in DOMAIN (s \o t) : i # j => (s \o t)[i] # (s \o t)[j])
         <=> /\ \A i, j \in DOMAIN s : i # j => s[i] # s[j]
             /\ \A i, j \in DOMAIN t : i # j => t[i] # t[j]
             /\ \A i \in DOMAIN s, j \in DOMAIN t : s[i] # t[j]
    BY <1>1, <1>2, JoinedDistinct
<1>7. QED
    BY <1>3, <1>5, <1>6

(* What the limits of a declaration must be. *)
LimitsSound(limits) ==
    /\ DOMAIN limits \subseteq RESOURCE_LIMIT_FIELDS /\ \A f \in DOMAIN limits : limits[f] > 0
    /\ "maxReportBytes" \in DOMAIN limits => limits.maxReportBytes >= MinReportBytes
boundOf(limits, f, default) == IF f \in DOMAIN limits THEN limits[f] ELSE default

isLimits(limits) == isFunction(limits) /\ \A f \in DOMAIN limits : limits[f] \in Nat

LEMMA LimitsEmpty ==
    ASSUME NEW body, isLimits(body.limits)
    PROVE  /\ isList(validateResourceLimitsDeclaration(body))
           /\ validateResourceLimitsDeclaration(body) = << >> <=> ~malformed(body, "limits") /\ LimitsSound(body.limits)
<1>. DEFINE limits == body.limits
            unknown == DOMAIN limits \ RESOURCE_LIMIT_FIELDS
            zero == {f \in DOMAIN limits \cap RESOURCE_LIMIT_FIELDS : limits[f] = 0}
            low == isPositiveInteger(limits, "maxReportBytes") /\ limits.maxReportBytes < MinReportBytes
            a == copies(Cardinality(unknown), "pipeline_limits_unknown_field")
            b == copies(Cardinality(zero), "pipeline_limit_value_invalid")
            c == when(low, "pipeline_limit_value_invalid")
<1>1. IsFiniteSet(unknown) /\ IsFiniteSet(zero)
    <2>1. IsFiniteSet(DOMAIN limits) /\ unknown \in SUBSET DOMAIN limits /\ zero \in SUBSET DOMAIN limits
        BY DEF isLimits, isFunction
    <2>. HIDE DEF unknown, zero, limits
    <2>2. QED
        BY <2>1, FS_Subset
<1>2. LimitsSound(limits) <=> unknown = {} /\ zero = {} /\ ~low
    <2>1. limits[("maxReportBytes")] = limits.maxReportBytes
        OBVIOUS
    <2>2. \A f \in DOMAIN limits : limits[f] \in Nat
        BY DEF isLimits
    <2>3. MinReportBytes \in Nat
        BY InputConstants DEF InputConstants
    <2>4. low \in BOOLEAN /\ (low <=> "maxReportBytes" \in DOMAIN limits /\ limits["maxReportBytes"] > 0 /\ limits["maxReportBytes"] < MinReportBytes)
        BY DEF isPositiveInteger
    <2>. HIDE DEF limits, low
    <2>5. ASSUME LimitsSound(limits) PROVE unknown = {} /\ zero = {} /\ ~low
        <3>1. unknown = {}
            BY <2>5 DEF LimitsSound
        <3>2. zero = {}
            BY <2>2, <2>5 DEF LimitsSound
        <3>3. ~low
            BY <2>2, <2>3, <2>4, <2>5 DEF LimitsSound
        <3>4. QED
            BY <3>1, <3>2, <3>3
    <2>6. ASSUME unknown = {}, zero = {}, ~low PROVE LimitsSound(limits)
        <3>1. DOMAIN limits \subseteq RESOURCE_LIMIT_FIELDS
            BY <2>6
        <3>2. \A f \in DOMAIN limits : limits[f] > 0
            BY <2>2, <2>6, <3>1
        <3>3. "maxReportBytes" \in DOMAIN limits => limits.maxReportBytes >= MinReportBytes
            BY <2>2, <2>3, <2>4, <2>6, <3>2
        <3>4. QED
            BY <3>1, <3>2, <3>3 DEF LimitsSound
    <2>7. QED
        BY <2>5, <2>6
<1>3. low \in BOOLEAN
    BY DEF isPositiveInteger
<1>. HIDE DEF unknown, zero, low
<1>4. /\ isList(a) /\ (a = << >> <=> unknown = {}) /\ isList(b) /\ (b = << >> <=> zero = {})
      /\ isList(c) /\ (c = << >> <=> ~low)
    BY <1>1, <1>3, CountEmpty, WhenEmpty
<1>5. validateResourceLimitsDeclaration(body)
         = IF malformed(body, "limits") THEN <<"pipeline_limits_invalid">> ELSE a \o b \o c
    BY DEF validateResourceLimitsDeclaration, unknown, zero, low
<1>. HIDE DEF a, b, c
<1>6. isList(a \o b \o c) /\ (a \o b \o c = << >> <=> a = << >> /\ b = << >> /\ c = << >>)
    BY <1>4, Concat3
<1>7. QED
    BY <1>2, <1>4, <1>5, <1>6, OneIsList

LEMMA IfQuiet ==
    ASSUME NEW c \in BOOLEAN, NEW steps, c => isSteps(steps)
    PROVE  isSteps(if(c, steps)) /\ (Quiet(if(c, steps)) <=> (c => Quiet(steps)))
BY NoSteps DEF if

LEMMA LimitsSame ==
    ASSUME NEW body, lacks(body, "limits") => DOMAIN body.limits = {}
    PROVE  /\ DOMAIN limitsOf(body) = DOMAIN body.limits
           /\ \A f \in DOMAIN body.limits : limitsOf(body)[f] = body.limits[f]
<1>1. DOMAIN << >> = {}
    OBVIOUS
<1>2. CASE lacks(body, "limits")
    <2>1. limitsOf(body) = << >> /\ DOMAIN body.limits = {}
        BY <1>2 DEF limitsOf
    <2>2. QED
        BY <1>1, <2>1
<1>3. CASE ~lacks(body, "limits")
    <2>1. limitsOf(body) = body.limits
        BY <1>3 DEF limitsOf
    <2>2. QED
        BY <2>1
<1>4. QED
    BY <1>2, <1>3

LEMMA LimitOr ==
    ASSUME NEW body, lacks(body, "limits") => DOMAIN body.limits = {}, LimitsSound(body.limits), NEW f, NEW default
    PROVE  limitOr(limitsOf(body), f, default) = boundOf(body.limits, f, default)
<1>1. DOMAIN limitsOf(body) = DOMAIN body.limits /\ \A g \in DOMAIN body.limits : limitsOf(body)[g] = body.limits[g]
    BY LimitsSame
<1>2. \A g \in DOMAIN body.limits : body.limits[g] > 0
    BY DEF LimitsSound
<1>3. QED
    BY <1>1, <1>2 DEF limitOr, isPositiveInteger, boundOf

(* The limits are sound, and the sources are not more than they allow. *)
LEMMA BudgetEmpty ==
    ASSUME NEW body, isLimits(body.limits), lacks(body, "limits") => DOMAIN body.limits = {}, isList(body.sources)
    PROVE  /\ isList(validateSourceBudget(body))
           /\ validateSourceBudget(body) = << >>
                 <=> /\ ~malformed(body, "limits") /\ LimitsSound(body.limits)
                     /\ Len(body.sources) <= boundOf(body.limits, "maxSources", DefaultSources)
<1>. DEFINE vs == validateResourceLimitsDeclaration(body)
            bound == limitOr(limitsOf(body), "maxSources", DefaultSources)
            over == Len(body.sources) > bound
            a == if(has(body, "limits"), Append_(vs))
            b == if(over, Append_(<<"max_sources_exceeded">>))
<1>1. isList(vs) /\ (vs = << >> <=> ~malformed(body, "limits") /\ LimitsSound(body.limits))
    BY LimitsEmpty
<1>2. Collect(a \o b) = validateSourceBudget(body)
    BY DEF validateSourceBudget
<1>. HIDE DEF vs
<1>3. isSteps(a) /\ (Quiet(a) <=> (has(body, "limits") => vs = << >>))
    <2>1. isSteps(Append_(vs)) /\ (Quiet(Append_(vs)) <=> vs = << >>)
        BY <1>1, AppendQuiet
    <2>2. has(body, "limits") \in BOOLEAN
        BY DEF has
    <2>3. QED
        BY <2>1, <2>2, IfQuiet
<1>4. isSteps(b) /\ (Quiet(b) <=> ~over)
    <2>1. isList(<<"max_sources_exceeded">>) /\ <<"max_sources_exceeded">> # << >>
        BY OneIsList
    <2>2. isSteps(Append_(<<"max_sources_exceeded">>)) /\ ~Quiet(Append_(<<"max_sources_exceeded">>))
        BY <2>1, AppendQuiet
    <2>3. over \in BOOLEAN
        OBVIOUS
    <2>. HIDE DEF over
    <2>4. QED
        BY <2>2, <2>3, IfQuiet
<1>. HIDE DEF a, b
<1>5. isSteps(a \o b) /\ (Quiet(a \o b) <=> Quiet(a) /\ Quiet(b))
    BY <1>3, <1>4, ConcatQuiet
<1>6. isList(Collect(a \o b)) /\ (Collect(a \o b) = << >> <=> Quiet(a) /\ Quiet(b))
    BY <1>5, ValidationQuiet DEF Collect
<1>7. ~has(body, "limits") => ~malformed(body, "limits") /\ LimitsSound(body.limits)
    <2>1. ~has(body, "limits") => ~malformed(body, "limits") /\ DOMAIN body.limits = {}
        BY DEF malformed, lacks
    <2>2. QED
        BY <2>1 DEF LimitsSound
<1>8. LimitsSound(body.limits) => (~over <=> Len(body.sources) <= boundOf(body.limits, "maxSources", DefaultSources))
    <2>. SUFFICES ASSUME LimitsSound(body.limits) PROVE ~over <=> Len(body.sources) <= boundOf(body.limits, "maxSources", DefaultSources)
        OBVIOUS
    <2>1. bound = boundOf(body.limits, "maxSources", DefaultSources)
        BY LimitOr
    <2>2. boundOf(body.limits, "maxSources", DefaultSources) \in Nat
        BY InputConstants DEF InputConstants, boundOf, isLimits
    <2>3. Len(body.sources) \in Nat
        BY ListLength
    <2>. HIDE DEF bound
    <2>4. QED
        BY <2>1, <2>2, <2>3
<1>. HIDE DEF over, bound
<1>9. QED
    BY <1>1, <1>2, <1>3, <1>4, <1>6, <1>7, <1>8

(* What the checks of a declaration, or of a profile as one, can look at. *)
isBody(body) ==
    /\ isJson(body) /\ isList(body.sources) /\ isList(body.validators) /\ isList(body.rules)
    /\ \A i \in DOMAIN body.sources : isParsedSource(body.sources[i])
    /\ \A i \in DOMAIN body.validators : isParsedValidator(body.validators[i])
    /\ \A i \in DOMAIN body.rules : isParsedRule(body.rules[i])
    /\ isLimits(body.limits) /\ (lacks(body, "limits") => DOMAIN body.limits = {})

validatorSound(v) == v.id # "" /\ sound(v, {"kind", "schema"}, {"includeConstraints"})
ruleSound(r) == sound(r, {"path", "from", "to", "onFailure"}, {})
sourceSound(s) == s.object /\ soundSource(s)

LEMMA ValidatorStepsQuiet ==
    ASSUME NEW body, isBody(body)
    PROVE  /\ isSteps(validatorSteps(body))
           /\ Quiet(validatorSteps(body))
                 <=> /\ ~malformed(body, "validators")
                     /\ Len(body.validators) <= limitOr(limitsOf(body), "maxProvenanceEvents", DefaultEvents)
                     /\ \A i \in DOMAIN body.validators : validatorSound(body.validators[i])
                     /\ Distinct(body.validators) /\ Disjoint(body.sources, body.validators)
<1>. DEFINE vs == body.validators
            codes == [i \in DOMAIN vs |-> validateValidatorDeclaration(vs[i])]
            a == FlattenSeq([i \in DOMAIN vs |-> Append_(codes[i])])
            b == Append_(validateUniqueDeclarationIds(vs, "pipeline_validator_id_duplicate"))
            c == Append_(validateDisjointDeclarationIds(body.sources, vs))
            bound == limitOr(limitsOf(body), "maxProvenanceEvents", DefaultEvents)
<1>1. isList(vs) /\ isList(body.sources) /\ \A i \in DOMAIN vs : isParsedValidator(vs[i])
    BY DEF isBody
<1>2. \A i \in DOMAIN vs : isList(codes[i]) /\ (codes[i] = << >> <=> validatorSound(vs[i]))
    BY <1>1, ValidatorEmpty DEF validatorSound
<1>3. /\ each(vs, LAMBDA v : Append_(validateValidatorDeclaration(v))) = a
    <2>1. a = FlattenSeq([i \in DOMAIN vs |-> Append_(validateValidatorDeclaration(vs[i]))])
        OBVIOUS
    <2>. HIDE DEF a
    <2>2. QED
        BY <2>1 DEF each
<1>4. isSteps(a) /\ (Quiet(a) <=> \A i \in DOMAIN vs : validatorSound(vs[i]))
    <2>. HIDE DEF codes, vs
    <2>1. isSteps(a) /\ (Quiet(a) <=> \A i \in DOMAIN vs : codes[i] = << >>)
        BY <1>1, <1>2, EachQuiet
    <2>. HIDE DEF a
    <2>2. QED
        BY <1>2, <2>1
<1>5. isSteps(b) /\ (Quiet(b) <=> Distinct(vs)) /\ isSteps(c) /\ (Quiet(c) <=> Disjoint(body.sources, vs))
    BY <1>1, UniqueEmpty, DisjointEmpty, AppendQuiet
<1>6. validatorSteps(body)
         = IF malformed(body, "validators") THEN Push(<<"pipeline_validators_invalid">>)
           ELSE IF Len(vs) > bound THEN Return(Append_(<<"max_provenance_events_exceeded">>))
           ELSE a \o b \o c
    BY <1>3 DEF validatorSteps
<1>. HIDE DEF a, b, c
<1>7. isSteps(a \o b \o c) /\ (Quiet(a \o b \o c) <=> Quiet(a) /\ Quiet(b) /\ Quiet(c))
    <2>1. isSteps(a \o b) /\ (Quiet(a \o b) <=> Quiet(a) /\ Quiet(b))
        BY <1>4, <1>5, ConcatQuiet
    <2>2. QED
        BY <1>5, <2>1, ConcatQuiet
<1>8. isSteps(Push(<<"pipeline_validators_invalid">>)) /\ ~Quiet(Push(<<"pipeline_validators_invalid">>))
    BY PushQuiet, OneIsList
<1>9. /\ isSteps(Return(Append_(<<"max_provenance_events_exceeded">>)))
      /\ ~Quiet(Return(Append_(<<"max_provenance_events_exceeded">>)))
    BY ReturnQuiet, OneIsList
<1>10. Len(vs) > bound <=> ~(Len(vs) <= bound)
    <2>1. bound \in Nat
        <3>1. \A f \in DOMAIN body.limits : body.limits[f] \in Nat
            BY DEF isBody, isLimits
        <3>2. lacks(body, "limits") => DOMAIN body.limits = {}
            BY DEF isBody
        <3>3. \A f \in DOMAIN limitsOf(body) : limitsOf(body)[f] \in Nat
            BY <3>1, <3>2, LimitsSame
        <3>4. QED
            BY <3>3, InputConstants DEF InputConstants, limitOr, isPositiveInteger
    <2>2. Len(vs) \in Nat
        BY <1>1, ListLength
    <2>. HIDE DEF bound, vs
    <2>3. QED
        BY <2>1, <2>2
<1>. HIDE DEF bound, vs
<1>11. /\ isSteps(validatorSteps(body))
       /\ Quiet(validatorSteps(body))
             <=> /\ ~malformed(body, "validators") /\ Len(vs) <= bound
                 /\ \A i \in DOMAIN vs : validatorSound(vs[i])
                 /\ Distinct(vs) /\ Disjoint(body.sources, vs)
    BY <1>4, <1>5, <1>6, <1>7, <1>8, <1>9, <1>10
<1>12. QED
    BY <1>11 DEF vs, bound

LEMMA RuleStepsQuiet ==
    ASSUME NEW body, isBody(body)
    PROVE  /\ isSteps(ruleSteps(body))
           /\ Quiet(ruleSteps(body))
                 <=> ~malformed(body, "coercionRules") /\ \A i \in DOMAIN body.rules : ruleSound(body.rules[i])
<1>. DEFINE rs == body.rules
            codes == [i \in DOMAIN rs |-> validateCoercionRuleDeclaration(rs[i])]
            a == FlattenSeq([i \in DOMAIN rs |-> Append_(codes[i])])
<1>1. isList(rs) /\ \A i \in DOMAIN rs : isParsedRule(rs[i])
    BY DEF isBody
<1>2. \A i \in DOMAIN rs : isList(codes[i]) /\ (codes[i] = << >> <=> ruleSound(rs[i]))
    BY <1>1, RuleEmpty DEF ruleSound
<1>3. each(rs, LAMBDA r : Append_(validateCoercionRuleDeclaration(r))) = a
    <2>1. a = FlattenSeq([i \in DOMAIN rs |-> Append_(validateCoercionRuleDeclaration(rs[i]))])
        OBVIOUS
    <2>. HIDE DEF a
    <2>2. QED
        BY <2>1 DEF each
<1>4. isSteps(a) /\ (Quiet(a) <=> \A i \in DOMAIN rs : ruleSound(rs[i]))
    <2>. HIDE DEF codes, rs
    <2>1. isSteps(a) /\ (Quiet(a) <=> \A i \in DOMAIN rs : codes[i] = << >>)
        BY <1>1, <1>2, EachQuiet
    <2>. HIDE DEF a
    <2>2. QED
        BY <1>2, <2>1
<1>5. ruleSteps(body) = IF malformed(body, "coercionRules") THEN Push(<<"pipeline_coercion_rules_invalid">>) ELSE a
    BY <1>3 DEF ruleSteps
<1>6. isSteps(Push(<<"pipeline_coercion_rules_invalid">>)) /\ ~Quiet(Push(<<"pipeline_coercion_rules_invalid">>))
    BY PushQuiet, OneIsList
<1>. HIDE DEF a
<1>7. QED
    BY <1>4, <1>5, <1>6

LEMMA SourceStepsQuiet ==
    ASSUME NEW body, isBody(body)
    PROVE  LET steps == each(body.sources, LAMBDA s : Append_(validateSourceDeclaration(s)))
           IN  isSteps(steps) /\ (Quiet(steps) <=> \A i \in DOMAIN body.sources : sourceSound(body.sources[i]))
<1>. DEFINE ss == body.sources
            codes == [i \in DOMAIN ss |-> validateSourceDeclaration(ss[i])]
            a == FlattenSeq([i \in DOMAIN ss |-> Append_(codes[i])])
<1>1. isList(ss) /\ \A i \in DOMAIN ss : isParsedSource(ss[i])
    BY DEF isBody
<1>2. \A i \in DOMAIN ss : isList(codes[i]) /\ (codes[i] = << >> <=> sourceSound(ss[i]))
    BY <1>1, SourceEmpty DEF sourceSound
<1>3. each(ss, LAMBDA s : Append_(validateSourceDeclaration(s))) = a
    <2>1. a = FlattenSeq([i \in DOMAIN ss |-> Append_(validateSourceDeclaration(ss[i]))])
        OBVIOUS
    <2>. HIDE DEF a
    <2>2. QED
        BY <2>1 DEF each
<1>4. isSteps(a) /\ (Quiet(a) <=> \A i \in DOMAIN ss : sourceSound(ss[i]))
    <2>. HIDE DEF codes, ss
    <2>1. isSteps(a) /\ (Quiet(a) <=> \A i \in DOMAIN ss : codes[i] = << >>)
        BY <1>1, <1>2, EachQuiet
    <2>. HIDE DEF a
    <2>2. QED
        BY <1>2, <2>1
<1>. HIDE DEF a
<1>5. QED
    BY <1>3, <1>4

topFields == {"sources", "validators", "coercionRules", "limits", "profiles", "extends"}

(* The steps up to the profiles report nothing exactly when the declaration is   *)
(* sound but for them.                                                           *)
LEMMA BodyQuiet ==
    ASSUME NEW body, isBody(body)
    PROVE  /\ isSteps(bodySteps(body))
           /\ Quiet(bodySteps(body))
                 <=> /\ DOMAIN body.fields \subseteq topFields /\ ~lacks(body, "sources")
                     /\ ~malformed(body, "validators") /\ ~malformed(body, "coercionRules") /\ ~malformed(body, "limits")
                     /\ soundBody(body, body.limits)
<1>. DEFINE budget == validateSourceBudget(body)
            over == contains(budget, "max_sources_exceeded") \/ contains(budget, "overflow")
            u == unknownFields(body, topFields, "pipeline_unknown_field")
            s1 == Append_(u)
            s2 == if(lacks(body, "sources"), Return(Push(<<"pipeline_sources_missing">>)))
            s3 == if(over, Return(Append_(budget)))
            s4 == each(body.sources, LAMBDA s : Append_(validateSourceDeclaration(s)))
            s5 == Append_(validateUniqueDeclarationIds(body.sources, "pipeline_source_id_duplicate"))
            s6 == Append_(budget)
            s7 == validatorSteps(body)
            s8 == ruleSteps(body)
            Sources == \A i \in DOMAIN body.sources : sourceSound(body.sources[i])
            Validators == \A i \in DOMAIN body.validators : validatorSound(body.validators[i])
            Rules == \A i \in DOMAIN body.rules : ruleSound(body.rules[i])
            events == limitOr(limitsOf(body), "maxProvenanceEvents", DefaultEvents)
<1>1. bodySteps(body) = s1 \o s2 \o s3 \o s4 \o s5 \o s6 \o s7 \o s8
    BY DEF bodySteps, topFields
<1>2. isSteps(s1) /\ (Quiet(s1) <=> DOMAIN body.fields \subseteq topFields)
    <2>1. isList(u) /\ (u = << >> <=> DOMAIN body.fields \subseteq topFields)
        BY UnknownEmpty DEF isBody
    <2>2. QED
        BY <2>1, AppendQuiet
<1>3. isSteps(s2) /\ (Quiet(s2) <=> ~lacks(body, "sources"))
    <2>1. lacks(body, "sources") \in BOOLEAN
        BY DEF lacks, malformed, has
    <2>2. isSteps(Return(Push(<<"pipeline_sources_missing">>))) /\ ~Quiet(Return(Push(<<"pipeline_sources_missing">>)))
        BY ReturnQuiet, OneIsList
    <2>3. QED
        BY <2>1, <2>2, IfQuiet
<1>4. /\ isList(budget)
      /\ budget = << >> <=> /\ ~malformed(body, "limits") /\ LimitsSound(body.limits)
                            /\ Len(body.sources) <= boundOf(body.limits, "maxSources", DefaultSources)
    BY BudgetEmpty DEF isBody
<1>. HIDE DEF budget
<1>5. isSteps(s6) /\ (Quiet(s6) <=> budget = << >>)
    BY <1>4, AppendQuiet
<1>6. isSteps(s3) /\ (Quiet(s6) => Quiet(s3))
    <2>1. over \in BOOLEAN /\ (over => budget # << >>)
        BY DEF contains
    <2>2. over => isSteps(Return(Append_(budget)))
        BY <1>4, <2>1, ReturnQuiet
    <2>. HIDE DEF over
    <2>3. QED
        BY <1>5, <2>1, <2>2, IfQuiet
<1>7. isSteps(s4) /\ (Quiet(s4) <=> Sources)
    BY SourceStepsQuiet
<1>8. isSteps(s5) /\ (Quiet(s5) <=> Distinct(body.sources))
    BY UniqueEmpty, AppendQuiet DEF isBody
<1>9. /\ isSteps(s7)
      /\ Quiet(s7) <=> /\ ~malformed(body, "validators") /\ Len(body.validators) <= events
                       /\ Validators /\ Distinct(body.validators) /\ Disjoint(body.sources, body.validators)
    BY ValidatorStepsQuiet
<1>10. isSteps(s8) /\ (Quiet(s8) <=> ~malformed(body, "coercionRules") /\ Rules)
    BY RuleStepsQuiet
<1>. HIDE DEF s1, s2, s3, s4, s5, s6, s7, s8
<1>11. /\ isSteps(bodySteps(body))
       /\ Quiet(bodySteps(body)) <=> /\ Quiet(s1) /\ Quiet(s2) /\ Quiet(s3) /\ Quiet(s4)
                                     /\ Quiet(s5) /\ Quiet(s6) /\ Quiet(s7) /\ Quiet(s8)
    <2>1. isSteps(s1 \o s2) /\ (Quiet(s1 \o s2) <=> Quiet(s1) /\ Quiet(s2))
        BY <1>2, <1>3, ConcatQuiet
    <2>. DEFINE t2 == s1 \o s2
                t3 == t2 \o s3
                t4 == t3 \o s4
                t5 == t4 \o s5
                t6 == t5 \o s6
                t7 == t6 \o s7
    <2>9. bodySteps(body) = t7 \o s8
        BY <1>1
    <2>3. isSteps(t3) /\ (Quiet(t3) <=> Quiet(t2) /\ Quiet(s3))
        BY <1>6, <2>1, ConcatQuiet
    <2>. HIDE DEF t3
    <2>4. isSteps(t4) /\ (Quiet(t4) <=> Quiet(t3) /\ Quiet(s4))
        BY <1>7, <2>3, ConcatQuiet
    <2>. HIDE DEF t4
    <2>5. isSteps(t5) /\ (Quiet(t5) <=> Quiet(t4) /\ Quiet(s5))
        BY <1>8, <2>4, ConcatQuiet
    <2>. HIDE DEF t5
    <2>6. isSteps(t6) /\ (Quiet(t6) <=> Quiet(t5) /\ Quiet(s6))
        BY <1>5, <2>5, ConcatQuiet
    <2>. HIDE DEF t6
    <2>7. isSteps(t7) /\ (Quiet(t7) <=> Quiet(t6) /\ Quiet(s7))
        BY <1>9, <2>6, ConcatQuiet
    <2>. HIDE DEF t7
    <2>8. isSteps(t7 \o s8) /\ (Quiet(t7 \o s8) <=> Quiet(t7) /\ Quiet(s8))
        BY <1>10, <2>7, ConcatQuiet
    <2>10. QED
        BY <2>1, <2>3, <2>4, <2>5, <2>6, <2>7, <2>8, <2>9 DEF t2
<1>12. LimitsSound(body.limits) => events = boundOf(body.limits, "maxProvenanceEvents", DefaultEvents)
    BY LimitOr DEF isBody
<1>13. Sources /\ Validators
         => ((\A i, j \in DOMAIN idsOf(body) : i # j => idsOf(body)[i] # idsOf(body)[j])
               <=> Distinct(body.sources) /\ Distinct(body.validators) /\ Disjoint(body.sources, body.validators))
    <2>. SUFFICES ASSUME Sources, Validators
                  PROVE  (\A i, j \in DOMAIN idsOf(body) : i # j => idsOf(body)[i] # idsOf(body)[j])
                            <=> Distinct(body.sources) /\ Distinct(body.validators) /\ Disjoint(body.sources, body.validators)
        OBVIOUS
    <2>1. \A i \in DOMAIN body.sources : body.sources[i].object /\ named(body.sources[i].id)
        BY DEF sourceSound, soundSource, named
    <2>2. \A i \in DOMAIN body.validators : body.validators[i].object /\ named(body.validators[i].id)
        BY DEF validatorSound, sound, named
    <2>3. isList(body.sources) /\ isList(body.validators)
        BY DEF isBody
    <2>. HIDE DEF Sources, Validators
    <2>4. QED
        BY <2>1, <2>2, <2>3, IdsDistinct
<1>14. soundBody(body, body.limits)
         <=> /\ Sources /\ Validators /\ Rules
             /\ \A i, j \in DOMAIN idsOf(body) : i # j => idsOf(body)[i] # idsOf(body)[j]
             /\ LimitsSound(body.limits)
             /\ Len(body.sources) <= boundOf(body.limits, "maxSources", DefaultSources)
             /\ Len(body.validators) <= boundOf(body.limits, "maxProvenanceEvents", DefaultEvents)
    BY DEF soundBody, idsOf, LimitsSound, boundOf, sourceSound, validatorSound, ruleSound
<1>. DEFINE Ids == \A i, j \in DOMAIN idsOf(body) : i # j => idsOf(body)[i] # idsOf(body)[j]
            Fits == Len(body.sources) <= boundOf(body.limits, "maxSources", DefaultSources)
            Fewer == Len(body.validators) <= boundOf(body.limits, "maxProvenanceEvents", DefaultEvents)
<1>15. /\ budget = << >> <=> ~malformed(body, "limits") /\ LimitsSound(body.limits) /\ Fits
       /\ LimitsSound(body.limits) => (Len(body.validators) <= events <=> Fewer)
       /\ Sources /\ Validators => (Ids <=> Distinct(body.sources) /\ Distinct(body.validators) /\ Disjoint(body.sources, body.validators))
       /\ soundBody(body, body.limits) <=> Sources /\ Validators /\ Rules /\ Ids /\ LimitsSound(body.limits) /\ Fits /\ Fewer
    BY <1>4, <1>12, <1>13, <1>14
<1>. HIDE DEF Sources, Validators, Rules, Ids, Fits, Fewer
<1>16. QED
    BY <1>2, <1>3, <1>5, <1>6, <1>7, <1>8, <1>9, <1>10, <1>11, <1>15

-----------------------------------------------------------------------------
(***************************************************************************)
(* A profile as a declaration of its own.                                  *)
(***************************************************************************)
isRecord(body) ==
    body = [object |-> body.object, fields |-> body.fields, sources |-> body.sources, validators |-> body.validators,
            rules |-> body.rules, limits |-> body.limits, profiles |-> body.profiles]

LEMMA Spread ==
    ASSUME NEW f, NEW g
    PROVE  /\ DOMAIN spread(f, g) = DOMAIN f \cup DOMAIN g
           /\ \A x \in DOMAIN g : spread(f, g)[x] = g[x]
           /\ \A x \in DOMAIN f \ DOMAIN g : spread(f, g)[x] = f[x]
BY DEF spread

LEMMA SpreadFunction ==
    ASSUME NEW f, IsFiniteSet(DOMAIN f), NEW g, IsFiniteSet(DOMAIN g)
    PROVE  isFunction(spread(f, g))
<1>1. IsFiniteSet(DOMAIN f \cup DOMAIN g)
    BY FS_Union
<1>2. QED
    BY <1>1 DEF isFunction, spread

LEMMA SpreadSame ==
    ASSUME NEW f, NEW g, NEW h, NEW k, DOMAIN f = DOMAIN h, \A x \in DOMAIN f : f[x] = h[x],
           DOMAIN g = DOMAIN k, \A x \in DOMAIN g : g[x] = k[x]
    PROVE  spread(f, g) = spread(h, k)
<1>1. \A x \in DOMAIN f \cup DOMAIN g : spread(f, g)[x] = spread(h, k)[x]
    BY DEF spread
<1>2. QED
    BY <1>1 DEF spread

LEMMA LimitsSpread ==
    ASSUME NEW f, isLimits(f), NEW g, isLimits(g)
    PROVE  isLimits(spread(f, g))
<1>1. isFunction(spread(f, g))
    BY SpreadFunction DEF isLimits, isFunction
<1>2. \A x \in DOMAIN spread(f, g) : spread(f, g)[x] \in Nat
    BY DEF isLimits, spread
<1>3. QED
    BY <1>1, <1>2 DEF isLimits

LEMMA LimitsOfLimits ==
    ASSUME NEW body, isLimits(body.limits)
    PROVE  isLimits(limitsOf(body))
<1>1. isLimits(<< >>)
    <2>1. DOMAIN << >> = {} /\ << >> = [x \in DOMAIN << >> |-> << >>[x]]
        OBVIOUS
    <2>2. QED
        BY <2>1, FS_EmptySet DEF isLimits, isFunction
<1>2. QED
    BY <1>1 DEF limitsOf

ownFields == {"sources", "validators", "coercionRules", "limits"}

LEMMA ProfileDeclared ==
    ASSUME NEW p, isRecord(p), isJson(p)
    PROVE  LET d == profileToDeclaration(p)
           IN  /\ d.object = p.object /\ d.sources = p.sources /\ d.validators = p.validators /\ d.rules = p.rules
               /\ d.limits = p.limits /\ d.profiles = p.profiles /\ isRecord(d) /\ isJson(d)
               /\ DOMAIN d.fields = (DOMAIN p.fields \cap ownFields) \cup {"sources"}
               /\ \A f \in DOMAIN p.fields \cap ownFields : d.fields[f] = p.fields[f]
               /\ "sources" \notin DOMAIN p.fields => d.fields["sources"] = "good"
<1>. DEFINE kept == DOMAIN p.fields \cap ownFields
            G == [f \in kept \cup {"sources"} |-> IF f \in kept THEN p.fields[f] ELSE "good"]
            d == [object |-> p.object, fields |-> G, sources |-> p.sources, validators |-> p.validators,
                  rules |-> p.rules, limits |-> p.limits, profiles |-> p.profiles]
<1>1. profileToDeclaration(p) = d
    <2>1. profileToDeclaration(p) = [p EXCEPT !.fields = G]
        BY DEF profileToDeclaration, ownFields
    <2>. HIDE DEF G
    <2>2. QED
        BY <2>1 DEF isRecord
<1>2. IsFiniteSet(kept \cup {"sources"})
    <2>1. IsFiniteSet(DOMAIN p.fields) /\ kept \in SUBSET DOMAIN p.fields
        BY DEF isJson, isFunction
    <2>2. IsFiniteSet(kept)
        BY <2>1, FS_Subset
    <2>. HIDE DEF kept
    <2>3. QED
        BY <2>2, FS_AddElement
<1>3. DOMAIN G = kept \cup {"sources"} /\ G = [f \in DOMAIN G |-> G[f]]
    OBVIOUS
<1>4. /\ \A f \in kept : G[f] = p.fields[f]
      /\ "sources" \notin DOMAIN p.fields => G["sources"] = "good"
    OBVIOUS
<1>. HIDE DEF G
<1>5. /\ d.object = p.object /\ d.sources = p.sources /\ d.validators = p.validators /\ d.rules = p.rules
      /\ d.limits = p.limits /\ d.profiles = p.profiles /\ d.fields = G /\ isRecord(d)
    BY DEF isRecord
<1>6. isJson(d)
    <2>. HIDE DEF kept, d
    <2>1. isFunction(d.fields)
        BY <1>2, <1>3, <1>5 DEF isFunction
    <2>2. QED
        BY <1>5, <2>1 DEF isJson
<1>. HIDE DEF d
<1>7. QED
    BY <1>1, <1>3, <1>4, <1>5, <1>6

(* What is checked of a profile: its lists, and the limits of both. *)
LEMMA NestedShape ==
    ASSUME NEW p, isRecord(p), isBody(p), NEW base, isLimits(base)
    PROVE  LET n == withLimits(profileToDeclaration(p), base)
           IN  /\ n.sources = p.sources /\ n.validators = p.validators /\ n.rules = p.rules /\ isBody(n)
               /\ ~malformed(p, "limits") => n.limits = spread(base, p.limits)
               /\ DOMAIN n.fields \subseteq topFields
               /\ lacks(n, "sources") <=> malformed(p, "sources")
               /\ malformed(n, "validators") <=> malformed(p, "validators")
               /\ malformed(n, "coercionRules") <=> malformed(p, "coercionRules")
               /\ malformed(n, "limits") <=> malformed(p, "limits")
<1>. DEFINE d == profileToDeclaration(p)
            n == withLimits(d, base)
<1>0. isJson(p) /\ isLimits(p.limits) /\ (lacks(p, "limits") => DOMAIN p.limits = {})
    BY DEF isBody
<1>1. /\ d.object = p.object /\ d.sources = p.sources /\ d.validators = p.validators /\ d.rules = p.rules
      /\ d.limits = p.limits /\ d.profiles = p.profiles /\ isRecord(d) /\ isJson(d)
      /\ DOMAIN d.fields = (DOMAIN p.fields \cap ownFields) \cup {"sources"}
      /\ \A f \in DOMAIN p.fields \cap ownFields : d.fields[f] = p.fields[f]
      /\ "sources" \notin DOMAIN p.fields => d.fields["sources"] = "good"
    BY <1>0, ProfileDeclared
<1>. HIDE DEF d
<1>2. /\ "sources" \in DOMAIN d.fields
      /\ malformed(d, "sources") <=> malformed(p, "sources")
      /\ malformed(d, "validators") <=> malformed(p, "validators")
      /\ malformed(d, "coercionRules") <=> malformed(p, "coercionRules")
      /\ malformed(d, "limits") <=> malformed(p, "limits")
      /\ has(d, "limits") <=> has(p, "limits")
      /\ DOMAIN d.fields \subseteq ownFields
    BY <1>1 DEF malformed, has, ownFields
<1>3. CASE malformed(d, "limits")
    <2>1. n = d
        BY <1>3 DEF withLimits
    <2>2. lacks(d, "limits") /\ lacks(p, "limits")
        BY <1>2, <1>3 DEF lacks
    <2>3. isBody(d)
        BY <1>0, <1>1, <2>2 DEF isBody
    <2>4. (lacks(d, "sources") <=> malformed(p, "sources")) /\ DOMAIN d.fields \subseteq topFields
        BY <1>2 DEF lacks, has, topFields, ownFields
    <2>. HIDE DEF n
    <2>5. QED
        BY <1>1, <1>2, <1>3, <2>1, <2>3, <2>4 DEF n, d
<1>4. CASE ~malformed(d, "limits")
    <2>. DEFINE F == spread(d.fields, [limits |-> "good"])
                L == spread(base, limitsOf(d))
                m == [object |-> d.object, fields |-> F, sources |-> d.sources, validators |-> d.validators,
                      rules |-> d.rules, limits |-> L, profiles |-> d.profiles]
    <2>1. n = m
        <3>1. n = [d EXCEPT !.fields = F, !.limits = L]
            BY <1>4 DEF withLimits
        <3>. HIDE DEF F, L
        <3>2. QED
            BY <1>1, <3>1 DEF isRecord
    <2>2. /\ DOMAIN F = DOMAIN d.fields \cup {"limits"} /\ F["limits"] = "good"
          /\ \A f \in DOMAIN d.fields \ {"limits"} : F[f] = d.fields[f]
        BY DEF spread
    <2>3. isFunction(F)
        <3>1. IsFiniteSet(DOMAIN d.fields) /\ IsFiniteSet({"limits"}) /\ DOMAIN [limits |-> "good"] = {"limits"}
            BY <1>1, FS_Singleton DEF isJson, isFunction
        <3>2. QED
            BY <3>1, SpreadFunction
    <2>4. isLimits(L) /\ L = spread(base, p.limits)
        <3>1. isLimits(limitsOf(d))
            BY <1>0, <1>1, LimitsOfLimits
        <3>2. lacks(d, "limits") => DOMAIN d.limits = {}
            BY <1>0, <1>1, <1>2 DEF lacks
        <3>3. DOMAIN limitsOf(d) = DOMAIN d.limits /\ \A f \in DOMAIN d.limits : limitsOf(d)[f] = d.limits[f]
            BY <3>2, LimitsSame
        <3>4. L = spread(base, p.limits)
            BY <1>1, <3>3, SpreadSame
        <3>5. QED
            BY <3>1, <3>4, LimitsSpread
    <2>. HIDE DEF F, L
    <2>5. /\ m.object = p.object /\ m.fields = F /\ m.sources = p.sources /\ m.validators = p.validators
          /\ m.rules = p.rules /\ m.limits = L
        BY <1>1
    <2>. HIDE DEF m
    <2>6. /\ ~lacks(m, "limits") /\ ~malformed(m, "limits")
          /\ malformed(m, "sources") <=> malformed(d, "sources")
          /\ malformed(m, "validators") <=> malformed(d, "validators")
          /\ malformed(m, "coercionRules") <=> malformed(d, "coercionRules")
          /\ has(m, "sources")
        BY <1>2, <2>2, <2>5 DEF malformed, has, lacks
    <2>7. isBody(m)
        BY <1>0, <2>3, <2>4, <2>5, <2>6 DEF isBody, isJson
    <2>8. DOMAIN m.fields \subseteq topFields
        BY <1>2, <2>2, <2>5 DEF topFields, ownFields
    <2>9. lacks(m, "sources") <=> malformed(p, "sources")
        BY <1>2, <2>6 DEF lacks
    <2>. HIDE DEF n
    <2>10. QED
        BY <1>2, <1>4, <2>1, <2>4, <2>5, <2>6, <2>7, <2>8, <2>9 DEF n, d
<1>5. QED
    BY <1>3, <1>4 DEF d

soundLists(ss, vs, rs, limits) ==
    LET ids == [i \in DOMAIN ss |-> ss[i].id] \o [i \in DOMAIN vs |-> vs[i].id]
    IN  /\ \A i \in DOMAIN ss : ss[i].object /\ soundSource(ss[i])
        /\ \A i \in DOMAIN vs : vs[i].id # "" /\ sound(vs[i], {"kind", "schema"}, {"includeConstraints"})
        /\ \A i \in DOMAIN rs : sound(rs[i], {"path", "from", "to", "onFailure"}, {})
        /\ \A i, j \in DOMAIN ids : i # j => ids[i] # ids[j]
        /\ DOMAIN limits \subseteq RESOURCE_LIMIT_FIELDS /\ \A f \in DOMAIN limits : limits[f] > 0
        /\ "maxReportBytes" \in DOMAIN limits => limits.maxReportBytes >= MinReportBytes
        /\ Len(ss) <= IF "maxSources" \in DOMAIN limits THEN limits.maxSources ELSE DefaultSources
        /\ Len(vs) <= IF "maxProvenanceEvents" \in DOMAIN limits THEN limits.maxProvenanceEvents ELSE DefaultEvents

LEMMA SoundBodyLists ==
    ASSUME NEW body, NEW limits
    PROVE  soundBody(body, limits) <=> soundLists(body.sources, body.validators, body.rules, limits)
BY DEF soundBody, soundLists

LEMMA SoundBodySame ==
    ASSUME NEW b, NEW c, b.sources = c.sources, b.validators = c.validators, b.rules = c.rules, NEW limits
    PROVE  soundBody(b, limits) <=> soundBody(c, limits)
BY SoundBodyLists

LEMMA SoundBodyLimits ==
    ASSUME NEW body, NEW limits, soundBody(body, limits)
    PROVE  LimitsSound(limits) /\ Len(body.sources) <= boundOf(limits, "maxSources", DefaultSources)
BY DEF soundBody, LimitsSound, boundOf

ProfileSound(name, p, base) ==
    name \in ProfileNames /\ sound(p, {}, ownFields) /\ soundBody(p, spread(base, p.limits))

LEMMA ProfileQuiet ==
    ASSUME NEW name, NEW p, isRecord(p), isBody(p), NEW base, isLimits(base)
    PROVE  /\ isSteps(profileSteps(name, p, base))
           /\ Quiet(profileSteps(name, p, base)) <=> ProfileSound(name, p, base)
<1>. DEFINE n == withLimits(profileToDeclaration(p), base)
            extra == DOMAIN p.fields \ ownFields # {}
            over == Len(p.sources) > limitOr(limitsOf(n), "maxSources", DefaultSources)
            issues_ == Collect(bodySteps(n))
            a == if(extra, Append_(<<"pipeline_profile_unknown_field">>))
            b == IF over THEN Append_(<<"max_sources_exceeded">>) ELSE Append_(issues_)
<1>1. /\ n.sources = p.sources /\ n.validators = p.validators /\ n.rules = p.rules /\ isBody(n)
      /\ ~malformed(p, "limits") => n.limits = spread(base, p.limits)
      /\ DOMAIN n.fields \subseteq topFields
      /\ lacks(n, "sources") <=> malformed(p, "sources")
      /\ malformed(n, "validators") <=> malformed(p, "validators")
      /\ malformed(n, "coercionRules") <=> malformed(p, "coercionRules")
      /\ malformed(n, "limits") <=> malformed(p, "limits")
    BY NestedShape
<1>2. profileSteps(name, p, base)
         = IF name \notin ProfileNames THEN Append_(<<"pipeline_profile_name_invalid">>)
           ELSE IF ~p.object THEN Append_(<<"pipeline_profile_invalid">>)
           ELSE a \o b
    BY DEF profileSteps, ownFields
<1>. HIDE DEF n
<1>3. isSteps(a) /\ (Quiet(a) <=> DOMAIN p.fields \subseteq ownFields)
    <2>1. isSteps(Append_(<<"pipeline_profile_unknown_field">>)) /\ ~Quiet(Append_(<<"pipeline_profile_unknown_field">>))
        BY AppendQuiet, OneIsList
    <2>2. extra \in BOOLEAN /\ (extra <=> ~(DOMAIN p.fields \subseteq ownFields))
        OBVIOUS
    <2>. HIDE DEF extra
    <2>3. QED
        BY <2>1, <2>2, IfQuiet
<1>4. /\ isSteps(bodySteps(n))
      /\ Quiet(bodySteps(n))
            <=> /\ DOMAIN n.fields \subseteq topFields /\ ~lacks(n, "sources")
                /\ ~malformed(n, "validators") /\ ~malformed(n, "coercionRules") /\ ~malformed(n, "limits")
                /\ soundBody(n, n.limits)
    BY <1>1, BodyQuiet
<1>5. /\ isList(issues_)
      /\ issues_ = << >> <=> Quiet(bodySteps(n))
    BY <1>4, ValidationQuiet DEF Collect
<1>6. soundBody(n, n.limits) => ~over
    <2>. SUFFICES ASSUME soundBody(n, n.limits) PROVE ~over
        OBVIOUS
    <2>1. LimitsSound(n.limits) /\ Len(n.sources) <= boundOf(n.limits, "maxSources", DefaultSources)
        BY SoundBodyLimits
    <2>2. lacks(n, "limits") => DOMAIN n.limits = {}
        BY <1>1 DEF isBody
    <2>3. limitOr(limitsOf(n), "maxSources", DefaultSources) = boundOf(n.limits, "maxSources", DefaultSources)
        BY <2>1, <2>2, LimitOr
    <2>4. boundOf(n.limits, "maxSources", DefaultSources) \in Nat
        BY <1>1, InputConstants DEF InputConstants, boundOf, isBody, isLimits
    <2>5. Len(p.sources) \in Nat
        BY ListLength DEF isBody
    <2>6. QED
        BY <1>1, <2>1, <2>3, <2>4, <2>5
<1>. HIDE DEF issues_, over
<1>7. isSteps(b) /\ (Quiet(b) <=> ~over /\ issues_ = << >>)
    <2>1. isSteps(Append_(<<"max_sources_exceeded">>)) /\ ~Quiet(Append_(<<"max_sources_exceeded">>))
        BY AppendQuiet, OneIsList
    <2>2. isSteps(Append_(issues_)) /\ (Quiet(Append_(issues_)) <=> issues_ = << >>)
        BY <1>5, AppendQuiet
    <2>3. over \in BOOLEAN
        BY DEF over
    <2>4. QED
        BY <2>1, <2>2, <2>3
<1>. HIDE DEF a, b
<1>8. isSteps(a \o b) /\ (Quiet(a \o b) <=> Quiet(a) /\ Quiet(b))
    BY <1>3, <1>7, ConcatQuiet
<1>9. sound(p, {}, ownFields)
         <=> /\ p.object /\ DOMAIN p.fields \subseteq ownFields
             /\ ~malformed(p, "sources") /\ ~malformed(p, "validators") /\ ~malformed(p, "coercionRules") /\ ~malformed(p, "limits")
    <2>1. \A f : f \in ({} \cup ownFields) \ {"value"} <=> f \in {"sources", "validators", "coercionRules", "limits"}
        BY DEF ownFields
    <2>2. {} \cup ownFields = ownFields
        OBVIOUS
    <2>3. QED
        BY <2>1, <2>2, FieldsSound
<1>10. ~malformed(p, "limits") => (soundBody(n, n.limits) <=> soundBody(p, spread(base, p.limits)))
    BY <1>1, SoundBodySame
<1>11. /\ isSteps(Append_(<<"pipeline_profile_name_invalid">>)) /\ ~Quiet(Append_(<<"pipeline_profile_name_invalid">>))
       /\ isSteps(Append_(<<"pipeline_profile_invalid">>)) /\ ~Quiet(Append_(<<"pipeline_profile_invalid">>))
    BY AppendQuiet, OneIsList
<1>12. isSteps(profileSteps(name, p, base))
    BY <1>2, <1>8, <1>11
<1>13. p.object \in BOOLEAN
    BY DEF isBody, isJson
<1>14. Quiet(profileSteps(name, p, base))
          <=> name \in ProfileNames /\ p.object /\ Quiet(a) /\ Quiet(b)
    BY <1>2, <1>8, <1>11, <1>13
<1>15. Quiet(b)
          <=> /\ ~malformed(p, "sources") /\ ~malformed(p, "validators") /\ ~malformed(p, "coercionRules") /\ ~malformed(p, "limits")
              /\ soundBody(p, spread(base, p.limits))
    BY <1>1, <1>4, <1>5, <1>6, <1>7, <1>10
<1>16. QED
    BY <1>3, <1>9, <1>12, <1>14, <1>15 DEF ProfileSound

(* A finite set listed: each element stands in the list. *)
LEMMA Listed ==
    ASSUME NEW S, IsFiniteSet(S)
    PROVE  isList(SetToSeq(S)) /\ \A x : x \in S <=> \E i \in DOMAIN SetToSeq(S) : SetToSeq(S)[i] = x
<1>. DEFINE n == Cardinality(S)
            f == SetToSeq(S)
<1>1. n \in Nat /\ ExistsBijection(1..n, S)
    BY FS_CardinalityType
<1>. HIDE DEF n
<1>2. \E g \in [1..n -> S] : IsInjective(g)
    BY <1>1 DEF ExistsBijection, Bijection, Injection, IsInjective
<1>3. f \in [1..n -> S] /\ IsInjective(f)
    <2>1. f = CHOOSE g \in [1..n -> S] : IsInjective(g)
        BY DEF SetToSeq, n
    <2>. HIDE DEF f
    <2>2. QED
        BY <1>2, <2>1
<1>. HIDE DEF f
<1>4. f \in Injection(1..n, S)
    BY <1>3 DEF Injection, IsInjective
<1>5. IsFiniteSet(1..n) /\ Cardinality(1..n) = n
    BY <1>1, FS_Interval
<1>6. f \in Surjection(1..n, S)
    BY <1>4, <1>5, FS_Injection DEF n
<1>7. \A x \in S : \E i \in 1..n : f[i] = x
    BY <1>6 DEF Surjection
<1>8. f \in Seq(S) /\ DOMAIN f = 1..n
    BY <1>1, <1>3
<1>9. isList(f)
    BY <1>8, SeqIsList
<1>10. QED
    BY <1>3, <1>7, <1>8, <1>9 DEF f

LEMMA ParsedIsBody ==
    ASSUME NEW body, isParsedBody(body)
    PROVE  isRecord(body) /\ isBody(body) /\ isLimits(body.limits)
BY DEF isParsedBody, isRecord, isBody, isLimits

LEMMA ProfilesEmpty ==
    ASSUME NEW body, isParsedDeclaration(body)
    PROVE  /\ isList(validateProfiles(body))
           /\ validateProfiles(body) = << >>
                 <=> /\ ~malformed(body, "profiles") /\ Cardinality(DOMAIN body.profiles) <= MaxProfiles
                     /\ \A n \in DOMAIN body.profiles : ProfileSound(n, body.profiles[n], body.limits)
<1>. DEFINE ps == body.profiles
            base == limitsOf(body)
            names == SetToSeq(DOMAIN ps)
            ss == [i \in DOMAIN names |-> profileSteps(names[i], ps[names[i]], base)]
            all == FlattenSeq(ss)
            many == Cardinality(DOMAIN ps) > MaxProfiles
<1>1. isBody(body) /\ isLimits(body.limits) /\ isLimits(base)
    <2>1. isBody(body) /\ isLimits(body.limits)
        BY ParsedIsBody DEF isParsedDeclaration
    <2>2. QED
        BY <2>1, LimitsOfLimits
<1>2. IsFiniteSet(DOMAIN ps) /\ \A n \in DOMAIN ps : isRecord(ps[n]) /\ isBody(ps[n]) /\ isLimits(ps[n].limits)
    BY ParsedIsBody DEF isParsedDeclaration, isFunction
<1>3. \A n : spread(base, ps[n].limits) = spread(body.limits, ps[n].limits)
    <2>1. lacks(body, "limits") => DOMAIN body.limits = {}
        BY <1>1 DEF isBody
    <2>2. DOMAIN base = DOMAIN body.limits /\ \A f \in DOMAIN body.limits : base[f] = body.limits[f]
        BY <2>1, LimitsSame
    <2>3. QED
        BY <2>2, SpreadSame
<1>4. \A n \in DOMAIN ps : /\ isSteps(profileSteps(n, ps[n], base))
                           /\ Quiet(profileSteps(n, ps[n], base)) <=> ProfileSound(n, ps[n], body.limits)
    <2>1. \A n \in DOMAIN ps : ProfileSound(n, ps[n], base) <=> ProfileSound(n, ps[n], body.limits)
        BY <1>3 DEF ProfileSound
    <2>. HIDE DEF ps, base
    <2>2. QED
        BY <1>1, <1>2, <2>1, ProfileQuiet
<1>5. each(SetToSeq(DOMAIN ps), LAMBDA n : profileSteps(n, ps[n], base)) = all
    <2>1. all = FlattenSeq([i \in DOMAIN names |-> profileSteps(names[i], ps[names[i]], base)])
        OBVIOUS
    <2>. HIDE DEF all
    <2>2. QED
        BY <2>1 DEF each
<1>6. validateProfiles(body)
         = IF malformed(body, "profiles") THEN <<"pipeline_profiles_invalid">>
           ELSE IF many THEN <<"max_profiles_exceeded">> ELSE Collect(all)
    BY <1>5 DEF validateProfiles
<1>. HIDE DEF all, base
<1>7. isList(names) /\ \A x : x \in DOMAIN ps <=> \E i \in DOMAIN names : names[i] = x
    BY <1>2, Listed
<1>. HIDE DEF names, ps
<1>8. /\ DOMAIN ss = DOMAIN names /\ isList(ss)
      /\ \A i \in DOMAIN ss : isSteps(ss[i]) /\ (Quiet(ss[i]) <=> ProfileSound(names[i], ps[names[i]], body.limits))
    <2>1. DOMAIN ss = DOMAIN names /\ ss = [i \in DOMAIN names |-> ss[i]]
        OBVIOUS
    <2>2. \A i \in DOMAIN names : names[i] \in DOMAIN ps /\ ss[i] = profileSteps(names[i], ps[names[i]], base)
        BY <1>7
    <2>. HIDE DEF ss
    <2>3. isList(ss)
        BY <1>7, <2>1, ListOf
    <2>4. QED
        BY <1>4, <2>1, <2>2, <2>3
<1>. HIDE DEF ss
<1>9. /\ isSteps(all)
      /\ Quiet(all) <=> \A i \in DOMAIN names : ProfileSound(names[i], ps[names[i]], body.limits)
    BY <1>8, FlattenQuiet DEF all
<1>10. (\A i \in DOMAIN names : ProfileSound(names[i], ps[names[i]], body.limits))
          <=> \A n \in DOMAIN ps : ProfileSound(n, ps[n], body.limits)
    BY <1>7
<1>11. isList(Collect(all)) /\ (Collect(all) = << >> <=> Quiet(all))
    BY <1>9, ValidationQuiet DEF Collect
<1>12. many <=> ~(Cardinality(DOMAIN ps) <= MaxProfiles)
    <2>1. Cardinality(DOMAIN ps) \in Nat /\ MaxProfiles \in Nat
        BY <1>2, FS_CardinalityType, InputConstants DEF InputConstants
    <2>2. QED
        BY <2>1
<1>. HIDE DEF many
<1>13. /\ isList(<<"pipeline_profiles_invalid">>) /\ <<"pipeline_profiles_invalid">> # << >>
       /\ isList(<<"max_profiles_exceeded">>) /\ <<"max_profiles_exceeded">> # << >>
    BY OneIsList
<1>14. /\ isList(validateProfiles(body))
       /\ validateProfiles(body) = << >>
             <=> /\ ~malformed(body, "profiles") /\ ~many
                 /\ \A n \in DOMAIN ps : ProfileSound(n, ps[n], body.limits)
    BY <1>6, <1>9, <1>10, <1>11, <1>13
<1>15. QED
    BY <1>12, <1>14 DEF ps

(* The verdict of validation: nothing is reported of the declarations that are   *)
(* well formed, and of no other.                                                 *)
THEOREM ValidationExact ==
    ASSUME NEW body, isParsedDeclaration(body)
    PROVE  validatePipelineDeclaration(body) = << >> <=> WellFormed(body)
<1>. DEFINE a == bodySteps(body)
            profileIssues == validateProfiles(body)
            b == if(has(body, "profiles"), Append_(profileIssues))
            extendsIssues == when(malformed(body, "extends"), "pipeline_extends_invalid")
            c == Append_(extendsIssues)
            Profiles == Cardinality(DOMAIN body.profiles) <= MaxProfiles
                        /\ \A n \in DOMAIN body.profiles : ProfileSound(n, body.profiles[n], body.limits)
<1>1. isBody(body) /\ body.object \in BOOLEAN
    BY ParsedIsBody DEF isParsedDeclaration, isBody, isJson
<1>2. sound(body, {"sources"}, {"validators", "coercionRules", "limits", "profiles", "extends"})
         <=> /\ body.object /\ DOMAIN body.fields \subseteq topFields /\ ~lacks(body, "sources")
             /\ ~malformed(body, "validators") /\ ~malformed(body, "coercionRules") /\ ~malformed(body, "limits")
             /\ ~malformed(body, "profiles") /\ ~malformed(body, "extends")
    <2>1. {"sources"} \cup {"validators", "coercionRules", "limits", "profiles", "extends"} = topFields
        BY DEF topFields
    <2>2. \A f : f \in topFields \ {"value"} <=> f \in {"sources", "validators", "coercionRules", "limits", "profiles", "extends"}
        BY DEF topFields
    <2>3. QED
        BY <2>1, <2>2, FieldsSound DEF lacks
<1>3. WellFormed(body)
         <=> /\ sound(body, {"sources"}, {"validators", "coercionRules", "limits", "profiles", "extends"})
             /\ soundBody(body, body.limits) /\ Profiles
    BY DEF WellFormed, ProfileSound, ownFields
<1>4. CASE ~body.object
    <2>. DEFINE t == Push(<<"pipeline_declaration_invalid">>)
    <2>1. isSteps(t) /\ ~Quiet(t)
        BY PushQuiet, OneIsList
    <2>2. validatePipelineDeclaration(body) = Validation(t).issues
        BY <1>4 DEF validatePipelineDeclaration, validation
    <2>. HIDE DEF t
    <2>3. validatePipelineDeclaration(body) # << >>
        BY <2>1, <2>2, ValidationQuiet
    <2>4. QED
        BY <1>2, <1>3, <1>4, <2>3
<1>5. CASE body.object
    <2>1. /\ isSteps(a)
          /\ Quiet(a) <=> /\ DOMAIN body.fields \subseteq topFields /\ ~lacks(body, "sources")
                          /\ ~malformed(body, "validators") /\ ~malformed(body, "coercionRules") /\ ~malformed(body, "limits")
                          /\ soundBody(body, body.limits)
        BY <1>1, BodyQuiet
    <2>2. isList(profileIssues) /\ (profileIssues = << >> <=> ~malformed(body, "profiles") /\ Profiles)
        BY ProfilesEmpty
    <2>3. isList(extendsIssues) /\ (extendsIssues = << >> <=> ~malformed(body, "extends"))
        BY MalformedEmpty
    <2>4. validatePipelineDeclaration(body) = Validation(a \o b \o c).issues
        BY <1>5 DEF validatePipelineDeclaration, validation
    <2>. HIDE DEF profileIssues, extendsIssues, a
    <2>5. isSteps(b) /\ (Quiet(b) <=> (has(body, "profiles") => profileIssues = << >>))
        <3>1. isSteps(Append_(profileIssues)) /\ (Quiet(Append_(profileIssues)) <=> profileIssues = << >>)
            BY <2>2, AppendQuiet
        <3>2. has(body, "profiles") \in BOOLEAN
            BY DEF has
        <3>3. QED
            BY <3>1, <3>2, IfQuiet
    <2>6. isSteps(c) /\ (Quiet(c) <=> extendsIssues = << >>)
        BY <2>3, AppendQuiet
    <2>. HIDE DEF b, c
    <2>7. isSteps(a \o b \o c) /\ (Quiet(a \o b \o c) <=> Quiet(a) /\ Quiet(b) /\ Quiet(c))
        <3>1. isSteps(a \o b) /\ (Quiet(a \o b) <=> Quiet(a) /\ Quiet(b))
            BY <2>1, <2>5, ConcatQuiet
        <3>2. QED
            BY <2>6, <3>1, ConcatQuiet
    <2>8. validatePipelineDeclaration(body) = << >> <=> Quiet(a) /\ Quiet(b) /\ Quiet(c)
        BY <2>4, <2>7, ValidationQuiet
    <2>9. ~has(body, "profiles") => ~malformed(body, "profiles") /\ Profiles
        <3>. SUFFICES ASSUME ~has(body, "profiles") PROVE ~malformed(body, "profiles") /\ Profiles
            OBVIOUS
        <3>1. ~malformed(body, "profiles")
            BY DEF malformed
        <3>2. DOMAIN body.profiles = {}
            BY DEF isParsedDeclaration
        <3>3. Cardinality(DOMAIN body.profiles) = 0 /\ MaxProfiles \in Nat
            BY <3>2, FS_EmptySet, InputConstants DEF InputConstants
        <3>4. QED
            BY <3>1, <3>2, <3>3
    <2>. HIDE DEF Profiles
    <2>10. QED
        BY <1>2, <1>3, <1>5, <2>1, <2>2, <2>3, <2>5, <2>6, <2>8, <2>9
<1>6. QED
    BY <1>1, <1>4, <1>5

-----------------------------------------------------------------------------
(***************************************************************************)
(* Normalisation of what is well formed.                                   *)
(***************************************************************************)
LEMMA SoundCommon ==
    ASSUME NEW s, s.object, soundSource(s)
    PROVE  CommonSound(s)
<1>1. s.kind \in {"object", "file", "adapter", "env", "argv"}
    BY DEF soundSource, Kinds
<1>2. QED
    BY <1>1, ObjectSound, FileSound, AdapterSound, EnvSound, ArgvSound

LEMMA NotWrong ==
    ASSUME NEW r, NEW names, \A f \in names : ~malformed(r, f)
    PROVE  ~wrong(r, names)
BY DEF wrong, malformed, has

LEMMA MappingAccepted ==
    ASSUME NEW q, NEW kind, soundMapping(q, kind)
    PROVE  ~mappingThrows(q)
<1>1. q.object /\ \A f \in {"parseAs", "secret"} : ~malformed(q, f)
    BY FieldsSound DEF soundMapping
<1>2. ~wrong(q, {"parseAs", "secret"})
    BY <1>1, NotWrong
<1>3. q.name # ""
    BY DEF soundMapping
<1>4. QED
    BY <1>1, <1>2, <1>3 DEF mappingThrows

LEMMA SourceAccepted ==
    ASSUME NEW s, s.object, soundSource(s)
    PROVE  ~sourceThrows(s)
<1>1. CommonSound(s)
    BY SoundCommon
<1>2. /\ s.kind \in Kinds /\ s.id # "" /\ has(s, "priority")
      /\ ~malformed(s, "priority") /\ ~malformed(s, "displayName") /\ ~malformed(s, "redaction")
      /\ has(s, "redaction") => sound(s.policy, {}, PolicyFields)
    BY <1>1 DEF CommonSound, lacks, has
<1>3. ~wrong(s, {"priority", "displayName"})
    BY <1>2, NotWrong
<1>4. has(s, "redaction") => ~policyThrows(s.policy)
    <2>. SUFFICES ASSUME has(s, "redaction") PROVE ~policyThrows(s.policy)
        OBVIOUS
    <2>1. \A f \in {"secretSource", "secretPaths", "secretNamePatterns"} : ~malformed(s.policy, f)
        BY <1>2, FieldsSound DEF PolicyFields
    <2>2. QED
        BY <2>1, NotWrong DEF policyThrows
<1>5. s.kind \in {"file", "adapter"} => has(s, "path") /\ ~wrong(s, {"path", "maxFileBytes"})
    <2>. SUFFICES ASSUME s.kind \in {"file", "adapter"} PROVE has(s, "path") /\ ~wrong(s, {"path", "maxFileBytes"})
        OBVIOUS
    <2>1. ~lacks(s, "path") /\ ~malformed(s, "maxFileBytes")
        BY FileSound, AdapterSound
    <2>2. QED
        BY <2>1, NotWrong DEF lacks
<1>6. s.kind = "adapter" => has(s, "format") /\ ~wrong(s, {"format", "allowTrailingComma"})
    <2>. SUFFICES ASSUME s.kind = "adapter" PROVE has(s, "format") /\ ~wrong(s, {"format", "allowTrailingComma"})
        OBVIOUS
    <2>1. ~lacks(s, "format") /\ (has(s, "allowTrailingComma") => ~malformed(s, "allowTrailingComma"))
        BY AdapterSound
    <2>2. ~malformed(s, "allowTrailingComma") /\ ~malformed(s, "format") /\ has(s, "format")
        BY <2>1 DEF lacks, malformed
    <2>3. QED
        BY <2>2, NotWrong
<1>7. ASSUME s.kind \in {"env", "argv"}
      PROVE  /\ has(s, "mappings") /\ ~wrong(s, {"mappings", limitField(s.kind)})
             /\ \A i \in DOMAIN s.mappings : ~mappingThrows(s.mappings[i])
             /\ s.kind = "env" => ~wrong(s, {"unmappedPrefix"})
    <2>1. OverrideSound(s)
        BY <1>7, EnvSound, ArgvSound
    <2>2. ~lacks(s, "mappings") /\ ~malformed(s, limitField(s.kind)) /\ (s.kind = "env" => ~malformed(s, "unmappedPrefix"))
        BY <2>1 DEF OverrideSound
    <2>3. \A i \in DOMAIN s.mappings : ~mappingThrows(s.mappings[i])
        BY <2>1, MappingAccepted DEF OverrideSound
    <2>4. ~wrong(s, {"mappings", limitField(s.kind)})
        BY <2>2, NotWrong DEF lacks
    <2>5. s.kind = "env" => ~wrong(s, {"unmappedPrefix"})
        BY <2>2, NotWrong
    <2>6. QED
        BY <2>2, <2>3, <2>4, <2>5 DEF lacks
<1>8. s.kind = "env" => s.kind \in {"env", "argv"}
    OBVIOUS
<1>9. QED
    BY <1>2, <1>3, <1>4, <1>5, <1>6, <1>7, <1>8 DEF sourceThrows

LEMMA ListSame ==
    ASSUME NEW s, isList(s), NEW f, DOMAIN f = DOMAIN s, f = [i \in DOMAIN s |-> f[i]], \A i \in DOMAIN s : f[i] = s[i]
    PROVE  f = s
<1>1. s = [i \in DOMAIN s |-> s[i]]
    BY DEF isList
<1>2. QED
    BY <1>1

LEMMA CopiedFields ==
    ASSUME NEW g, isFunction(g), NEW names, DOMAIN g \subseteq names
    PROVE  [f \in names \cap DOMAIN g |-> g[f]] = g
<1>1. names \cap DOMAIN g = DOMAIN g
    OBVIOUS
<1>2. QED
    BY <1>1 DEF isFunction

LEMMA CopyKept ==
    ASSUME NEW r, isFunction(r.fields), NEW names, DOMAIN r.fields \subseteq names
    PROVE  [f \in names \cap DOMAIN r.fields |-> r.fields[f]] = r.fields
<1>1. ASSUME NEW g, isFunction(g), DOMAIN g \subseteq names
      PROVE  [f \in names \cap DOMAIN g |-> g[f]] = g
    BY <1>1, CopiedFields
<1>2. QED
    BY <1>1

LEMMA Copied ==
    ASSUME NEW r, isFunction(r.fields), NEW names, DOMAIN r.fields \subseteq names
    PROVE  copy(r, names) = [r EXCEPT !.fields = r.fields]
BY CopyKept DEF copy

LEMMA MappingKept ==
    ASSUME NEW q, isParsedMapping(q), NEW kind, soundMapping(q, kind)
    PROVE  normalizeOverrideMapping(q, kind) = q
<1>. DEFINE names == {"parseAs", "numberFormat", "emptyValue", "secret"}
            G == [f \in names \cap DOMAIN q.fields |-> q.fields[f]]
<1>1. DOMAIN q.fields \subseteq names /\ q.kind = kind
    BY FieldsSound, {} \cup names = names DEF soundMapping
<1>2. G = q.fields
    BY <1>1, CopiedFields DEF isParsedMapping, isJson
<1>3. normalizeOverrideMapping(q, kind) = [[q EXCEPT !.fields = G] EXCEPT !.kind = kind]
    BY DEF normalizeOverrideMapping, copy
<1>. HIDE DEF G
<1>4. QED
    BY <1>1, <1>2, <1>3 DEF isParsedMapping

LEMMA SourceKept ==
    ASSUME NEW s, isParsedSource(s), s.object, soundSource(s)
    PROVE  normalizeSourceDeclaration(s) = s
<1>. DEFINE names == BASE_SOURCE_FIELDS \cup copied[s.kind]
            G == [f \in names \cap DOMAIN s.fields |-> s.fields[f]]
            t == [s EXCEPT !.fields = G]
            P == copy(s.policy, PolicyFields)
            M == [i \in DOMAIN s.mappings |-> normalizeOverrideMapping(s.mappings[i], s.kind)]
<1>1. CommonSound(s)
    BY SoundCommon
<1>2. G = s.fields
    <2>1. copied[s.kind] = SOURCE_KIND_FIELDS[s.kind]
        BY <1>1 DEF CommonSound, Kinds, copied, SOURCE_KIND_FIELDS
    <2>2. DOMAIN s.fields \subseteq names
        BY <1>1, <2>1 DEF CommonSound
    <2>3. isFunction(s.fields)
        BY DEF isParsedSource, isJson
    <2>. HIDE DEF names
    <2>4. [f \in names \cap DOMAIN s.fields |-> s.fields[f]] = s.fields
        BY <2>2, <2>3, CopyKept
    <2>5. QED
        BY <2>4
<1>3. P = s.policy
    <2>1. isFunction(s.policy.fields)
        BY DEF isParsedSource, isJson
    <2>2. DOMAIN s.policy.fields \subseteq PolicyFields
        <3>1. CASE has(s, "redaction")
            <4>1. sound(s.policy, {}, PolicyFields)
                BY <1>1, <3>1 DEF CommonSound, has
            <4>2. QED
                BY <4>1, FieldsSound, {} \cup PolicyFields = PolicyFields
        <3>2. CASE ~has(s, "redaction")
            BY <3>2 DEF isParsedSource
        <3>3. QED
            BY <3>1, <3>2
    <2>3. P = [s.policy EXCEPT !.fields = s.policy.fields]
        BY <2>1, <2>2, Copied
    <2>4. \E h : s.policy = [object |-> TRUE, fields |-> h]
        BY DEF isParsedSource
    <2>. HIDE DEF P
    <2>5. QED
        BY <2>3, <2>4
<1>4. M = s.mappings
    <2>1. \A i \in DOMAIN s.mappings : soundMapping(s.mappings[i], s.kind) /\ isParsedMapping(s.mappings[i])
        <3>1. CASE s.kind \in {"env", "argv"}
            <4>1. OverrideSound(s)
                BY <3>1, EnvSound, ArgvSound
            <4>2. QED
                BY <4>1 DEF OverrideSound, isParsedSource
        <3>2. CASE s.kind \notin {"env", "argv"}
            <4>1. s.mappings = << >>
                BY <3>2 DEF isParsedSource
            <4>2. DOMAIN s.mappings = {}
                BY <4>1
            <4>3. QED
                BY <4>2
        <3>3. QED
            BY <3>1, <3>2
    <2>2. \A i \in DOMAIN s.mappings : normalizeOverrideMapping(s.mappings[i], s.kind) = s.mappings[i]
        BY <2>1, MappingKept
    <2>3. /\ DOMAIN M = DOMAIN s.mappings /\ M = [i \in DOMAIN s.mappings |-> M[i]]
          /\ \A i \in DOMAIN s.mappings : M[i] = s.mappings[i]
        BY <2>2
    <2>4. isList(s.mappings)
        BY DEF isParsedSource
    <2>. HIDE DEF M
    <2>5. QED
        BY <2>3, <2>4, ListSame
<1>. DEFINE isShaped(x) == x = [object |-> x.object, id |-> x.id, kind |-> x.kind, fields |-> x.fields, mappings |-> x.mappings, policy |-> x.policy]
<1>5. t = s
    <2>1. isShaped(s)
        BY DEF isParsedSource
    <2>. HIDE DEF G
    <2>2. QED
        BY <1>2, <2>1
<1>6. normalizeSourceDeclaration(s)
         = [t EXCEPT !.policy = copy(t.policy, PolicyFields),
                     !.mappings = [i \in DOMAIN t.mappings |-> normalizeOverrideMapping(t.mappings[i], s.kind)]]
    BY DEF normalizeSourceDeclaration, copy, PolicyFields
<1>. HIDE DEF t, G
<1>7. normalizeSourceDeclaration(s) = [s EXCEPT !.policy = P, !.mappings = M]
    BY <1>5, <1>6
<1>. HIDE DEF P, M
<1>8. isShaped(s)
    BY DEF isParsedSource
<1>9. QED
    BY <1>3, <1>4, <1>7, <1>8

LEMMA ValidatorKept ==
    ASSUME NEW v, isParsedValidator(v), validatorSound(v)
    PROVE  copy(v, {"kind", "schema", "includeConstraints"}) = v
<1>1. isFunction(v.fields)
    BY DEF isParsedValidator, isJson
<1>2. DOMAIN v.fields \subseteq {"kind", "schema", "includeConstraints"}
    BY FieldsSound, {"kind", "schema"} \cup {"includeConstraints"} = {"kind", "schema", "includeConstraints"} DEF validatorSound
<1>3. copy(v, {"kind", "schema", "includeConstraints"}) = [v EXCEPT !.fields = v.fields]
    BY <1>1, <1>2, Copied
<1>4. QED
    BY <1>3 DEF isParsedValidator

LEMMA RuleKept ==
    ASSUME NEW r, isParsedRule(r), ruleSound(r)
    PROVE  copy(r, {"path", "from", "to", "onFailure"}) = r
<1>1. isFunction(r.fields)
    BY DEF isParsedRule, isJson
<1>2. DOMAIN r.fields \subseteq {"path", "from", "to", "onFailure"}
    BY FieldsSound, {"path", "from", "to", "onFailure"} \cup {} = {"path", "from", "to", "onFailure"} DEF ruleSound
<1>3. copy(r, {"path", "from", "to", "onFailure"}) = [r EXCEPT !.fields = r.fields]
    BY <1>1, <1>2, Copied
<1>4. QED
    BY <1>3 DEF isParsedRule

LEMMA ListKept ==
    ASSUME NEW s, isList(s), NEW f, f = [i \in DOMAIN s |-> f[i]], \A i \in DOMAIN s : f[i] = s[i]
    PROVE  f = s
BY ListSame

LEMMA SoundParts ==
    ASSUME NEW b, NEW limits, soundBody(b, limits)
    PROVE  /\ \A i \in DOMAIN b.sources : sourceSound(b.sources[i])
           /\ \A i \in DOMAIN b.validators : validatorSound(b.validators[i])
           /\ \A i \in DOMAIN b.rules : ruleSound(b.rules[i])
BY DEF soundBody, sourceSound, validatorSound, ruleSound

(* A body of known, well formed fields is what its normalisation makes of it. *)
LEMMA BodyKept ==
    ASSUME NEW b, isRecord(b), isBody(b), DOMAIN b.fields \subseteq topFields, \A f \in topFields : ~malformed(b, f),
           NEW limits, soundBody(b, limits), DOMAIN b.limits \subseteq RESOURCE_LIMIT_FIELDS
    PROVE  normalizeBody(b) = b
<1>. DEFINE names == {f \in topFields : ~malformed(b, f)}
            S == [i \in DOMAIN b.sources |-> normalizeSourceDeclaration(b.sources[i])]
            V == [i \in DOMAIN b.validators |-> copy(b.validators[i], {"kind", "schema", "includeConstraints"})]
            R == [i \in DOMAIN b.rules |-> copy(b.rules[i], {"path", "from", "to", "onFailure"})]
            L == [f \in DOMAIN b.limits \cap RESOURCE_LIMIT_FIELDS |-> b.limits[f]]
            t == copy(b, names)
<1>1. t = b
    <2>1. DOMAIN b.fields \subseteq names /\ isFunction(b.fields)
        BY DEF isBody, isJson
    <2>. HIDE DEF names
    <2>2. t = [b EXCEPT !.fields = b.fields]
        BY <2>1, Copied
    <2>. HIDE DEF t
    <2>3. QED
        BY <2>2 DEF isRecord
<1>2. S = b.sources
    <2>1. \A i \in DOMAIN b.sources : normalizeSourceDeclaration(b.sources[i]) = b.sources[i]
        BY SoundParts, SourceKept DEF isBody, sourceSound
    <2>2. S = [i \in DOMAIN b.sources |-> S[i]] /\ \A i \in DOMAIN b.sources : S[i] = b.sources[i]
        BY <2>1
    <2>. HIDE DEF S
    <2>3. QED
        BY <2>2, ListKept DEF isBody
<1>3. V = b.validators
    <2>1. \A i \in DOMAIN b.validators : copy(b.validators[i], {"kind", "schema", "includeConstraints"}) = b.validators[i]
        BY SoundParts, ValidatorKept DEF isBody
    <2>2. V = [i \in DOMAIN b.validators |-> V[i]] /\ \A i \in DOMAIN b.validators : V[i] = b.validators[i]
        BY <2>1
    <2>. HIDE DEF V
    <2>3. QED
        BY <2>2, ListKept DEF isBody
<1>4. R = b.rules
    <2>1. \A i \in DOMAIN b.rules : copy(b.rules[i], {"path", "from", "to", "onFailure"}) = b.rules[i]
        BY SoundParts, RuleKept DEF isBody
    <2>2. R = [i \in DOMAIN b.rules |-> R[i]] /\ \A i \in DOMAIN b.rules : R[i] = b.rules[i]
        BY <2>1
    <2>. HIDE DEF R
    <2>3. QED
        BY <2>2, ListKept DEF isBody
<1>5. L = b.limits
    <2>1. ASSUME NEW g, isFunction(g), DOMAIN g \subseteq RESOURCE_LIMIT_FIELDS
          PROVE  [f \in DOMAIN g \cap RESOURCE_LIMIT_FIELDS |-> g[f]] = g
        <3>1. DOMAIN g \cap RESOURCE_LIMIT_FIELDS = DOMAIN g
            BY <2>1
        <3>2. QED
            BY <2>1, <3>1 DEF isFunction
    <2>2. QED
        BY <2>1 DEF isBody, isLimits
<1>6. normalizeBody(b)
         = [t EXCEPT !.sources = [i \in DOMAIN t.sources |-> normalizeSourceDeclaration(t.sources[i])],
                     !.validators = [i \in DOMAIN t.validators |-> copy(t.validators[i], {"kind", "schema", "includeConstraints"})],
                     !.rules = [i \in DOMAIN t.rules |-> copy(t.rules[i], {"path", "from", "to", "onFailure"})],
                     !.limits = [f \in DOMAIN t.limits \cap RESOURCE_LIMIT_FIELDS |-> t.limits[f]]]
    BY DEF normalizeBody, topFields, copy
<1>. HIDE DEF t
<1>7. normalizeBody(b) = [b EXCEPT !.sources = S, !.validators = V, !.rules = R, !.limits = L]
    BY <1>1, <1>6
<1>. HIDE DEF S, V, R, L
<1>8. QED
    BY <1>2, <1>3, <1>4, <1>5, <1>7 DEF isRecord

LEMMA BodyAccepted ==
    ASSUME NEW b, ~lacks(b, "sources"), NEW limits, soundBody(b, limits),
           isBody(b), \A f \in DOMAIN b.limits : b.limits[f] > 0
    PROVE  ~bodyThrows(b)
<1>1. \A i \in DOMAIN b.sources : ~sourceThrows(b.sources[i])
    BY SoundParts, SourceAccepted DEF sourceSound
<1>2. \A i \in DOMAIN b.validators :
         b.validators[i].object /\ b.validators[i].id # "" /\ ~wrong(b.validators[i], {"includeConstraints"})
    <2>1. ASSUME NEW v, validatorSound(v) PROVE v.object /\ v.id # "" /\ ~wrong(v, {"includeConstraints"})
        <3>1. v.object /\ v.id # "" /\ ~malformed(v, "includeConstraints")
            BY <2>1, FieldsSound DEF validatorSound
        <3>2. QED
            BY <3>1, NotWrong
    <2>2. QED
        BY <2>1, SoundParts
<1>3. \A i \in DOMAIN b.rules : b.rules[i].object /\ ~lacks(b.rules[i], "path") /\ ~lacks(b.rules[i], "to")
    <2>1. ASSUME NEW r, ruleSound(r) PROVE r.object /\ ~lacks(r, "path") /\ ~lacks(r, "to")
        BY <2>1, FieldsSound DEF ruleSound, lacks
    <2>2. QED
        BY <2>1, SoundParts
<1>4. \A f \in DOMAIN limitsOf(b) \cap RESOURCE_LIMIT_FIELDS : b.limits[f] # 0
    <2>1. DOMAIN limitsOf(b) = DOMAIN b.limits
        BY LimitsSame DEF isBody
    <2>2. \A f \in DOMAIN b.limits : b.limits[f] \in Nat
        BY DEF isBody, isLimits
    <2>3. QED
        BY <2>1, <2>2
<1>5. QED
    BY <1>1, <1>2, <1>3, <1>4 DEF bodyThrows

(* A profile of a well formed declaration, as a declaration of its own. *)
LEMMA ProfileKept ==
    ASSUME NEW p, isParsedBody(p), sound(p, {}, ownFields), NEW base, isLimits(base), soundBody(p, spread(base, p.limits))
    PROVE  LET d == profileToDeclaration(p)
           IN  /\ p.object /\ ~bodyThrows(d) /\ normalizeBody(d) = d
               /\ isParsedBody(d) /\ sound(d, {}, ownFields) /\ d.profiles = p.profiles
               /\ d.sources = p.sources /\ d.validators = p.validators /\ d.rules = p.rules /\ d.limits = p.limits
               /\ "sources" \in DOMAIN d.fields /\ DOMAIN d.fields \subseteq ownFields
               /\ DOMAIN p.fields \subseteq DOMAIN d.fields
               /\ \A f \in DOMAIN p.fields : d.fields[f] = p.fields[f]
               /\ \A f \in DOMAIN d.fields : f \in DOMAIN p.fields \/ f = "sources"
<1>. DEFINE d == profileToDeclaration(p)
<1>1. isRecord(p) /\ isBody(p) /\ isLimits(p.limits) /\ isJson(p)
    BY ParsedIsBody DEF isBody
<1>2. /\ d.object = p.object /\ d.sources = p.sources /\ d.validators = p.validators /\ d.rules = p.rules
      /\ d.limits = p.limits /\ d.profiles = p.profiles /\ isRecord(d) /\ isJson(d)
      /\ DOMAIN d.fields = (DOMAIN p.fields \cap ownFields) \cup {"sources"}
      /\ \A f \in DOMAIN p.fields \cap ownFields : d.fields[f] = p.fields[f]
      /\ "sources" \notin DOMAIN p.fields => d.fields["sources"] = "good"
    BY <1>1, ProfileDeclared
<1>. HIDE DEF d
<1>3. /\ p.object /\ DOMAIN p.fields \subseteq ownFields
      /\ \A f \in ownFields : ~malformed(p, f)
    <2>1. {} \cup ownFields = ownFields /\ ownFields \ {"value"} = ownFields
        BY DEF ownFields
    <2>2. QED
        BY <2>1, FieldsSound
<1>4. DOMAIN d.fields \subseteq ownFields /\ "sources" \in DOMAIN d.fields
    BY <1>2 DEF ownFields
<1>5. \A f \in topFields : ~malformed(d, f)
    BY <1>2, <1>3 DEF malformed, has
<1>6. sound(d, {}, ownFields)
    <2>1. {} \cup ownFields = ownFields /\ \A f \in ownFields : f \in topFields
        BY DEF ownFields, topFields
    <2>2. QED
        BY <1>2, <1>3, <1>4, <1>5, <2>1, FieldsSound
<1>7. lacks(d, "limits") => DOMAIN d.limits = {}
    <2>1. lacks(d, "limits") => lacks(p, "limits")
        BY <1>2, <1>3, <1>5 DEF lacks, has, malformed, topFields, ownFields
    <2>2. QED
        BY <1>1, <1>2, <2>1 DEF isBody
<1>8. isBody(d)
    BY <1>1, <1>2, <1>7 DEF isBody
<1>9. isParsedBody(d)
    BY <1>2, <1>8 DEF isParsedBody, isRecord, isBody, isLimits
<1>10. DOMAIN p.limits \subseteq RESOURCE_LIMIT_FIELDS /\ \A f \in DOMAIN p.limits : p.limits[f] > 0
    <2>1. LimitsSound(spread(base, p.limits))
        BY SoundBodyLimits
    <2>2. DOMAIN p.limits \subseteq DOMAIN spread(base, p.limits) /\ \A f \in DOMAIN p.limits : spread(base, p.limits)[f] = p.limits[f]
        BY DEF spread
    <2>3. QED
        BY <2>1, <2>2 DEF LimitsSound
<1>11. soundBody(d, spread(base, p.limits))
    BY <1>2, SoundBodySame
<1>12. ~lacks(d, "sources")
    BY <1>4, <1>5 DEF lacks, has, topFields
<1>13. ~bodyThrows(d)
    BY <1>2, <1>8, <1>10, <1>11, <1>12, BodyAccepted
<1>14. normalizeBody(d) = d
    <2>1. DOMAIN d.fields \subseteq topFields
        BY <1>4 DEF topFields, ownFields
    <2>2. QED
        BY <1>2, <1>5, <1>8, <1>10, <1>11, <2>1, BodyKept
<1>15. QED
    BY <1>2, <1>3, <1>4, <1>6, <1>9, <1>13, <1>14 DEF d

(* Of its fields and the list of its sources, nothing is added a second time. *)
LEMMA DeclaredOnce ==
    ASSUME NEW p, isRecord(p), isJson(p), DOMAIN p.fields \subseteq ownFields, "sources" \in DOMAIN p.fields
    PROVE  profileToDeclaration(p) = p
<1>. DEFINE kept == DOMAIN p.fields \cap ownFields
            G == [f \in kept \cup {"sources"} |-> IF f \in kept THEN p.fields[f] ELSE "good"]
<1>1. G = p.fields
    <2>1. kept \cup {"sources"} = DOMAIN p.fields /\ kept = DOMAIN p.fields
        BY DEF ownFields
    <2>2. G = [f \in DOMAIN p.fields |-> p.fields[f]]
        BY <2>1
    <2>. HIDE DEF G
    <2>3. QED
        BY <2>2 DEF isJson, isFunction
<1>2. profileToDeclaration(p) = [p EXCEPT !.fields = G]
    BY DEF profileToDeclaration, ownFields
<1>. HIDE DEF G
<1>3. QED
    BY <1>1, <1>2 DEF isRecord

(* What a declaration that is well formed is normalised to: the same, with its   *)
(* profiles as declarations of their own.                                        *)
LEMMA Normalised ==
    ASSUME NEW b, isParsedDeclaration(b), WellFormed(b)
    PROVE  /\ ~declarationThrows(b)
           /\ normalizePipelineDeclaration(b)
                 = [b EXCEPT !.profiles = [n \in DOMAIN b.profiles |-> profileToDeclaration(b.profiles[n])]]
<1>. DEFINE P == [n \in DOMAIN b.profiles |-> profileToDeclaration(b.profiles[n])]
            Q == [n \in DOMAIN b.profiles |-> normalizeBody(profileToDeclaration(b.profiles[n]))]
<1>1. isParsedBody(b) /\ isRecord(b) /\ isBody(b) /\ isLimits(b.limits)
    BY ParsedIsBody DEF isParsedDeclaration
<1>2. /\ DOMAIN b.fields \subseteq topFields /\ ~lacks(b, "sources") /\ \A f \in topFields : ~malformed(b, f)
    <2>1. {"sources"} \cup {"validators", "coercionRules", "limits", "profiles", "extends"} = topFields /\ topFields \ {"value"} = topFields
        BY DEF topFields
    <2>2. QED
        BY <2>1, FieldsSound DEF WellFormed, lacks, topFields
<1>3. soundBody(b, b.limits)
    BY DEF WellFormed
<1>4. DOMAIN b.limits \subseteq RESOURCE_LIMIT_FIELDS /\ \A f \in DOMAIN b.limits : b.limits[f] > 0
    BY <1>3, SoundBodyLimits DEF LimitsSound
<1>5. ~bodyThrows(b)
    BY <1>1, <1>2, <1>3, <1>4, BodyAccepted
<1>6. normalizeBody(b) = b
    BY <1>1, <1>2, <1>3, <1>4, BodyKept
<1>7. \A n \in DOMAIN b.profiles :
         /\ isParsedBody(b.profiles[n]) /\ sound(b.profiles[n], {}, ownFields)
         /\ soundBody(b.profiles[n], spread(b.limits, b.profiles[n].limits))
    BY DEF WellFormed, isParsedDeclaration, ownFields
<1>8. \A n \in DOMAIN b.profiles :
         /\ b.profiles[n].object /\ ~bodyThrows(profileToDeclaration(b.profiles[n]))
         /\ normalizeBody(profileToDeclaration(b.profiles[n])) = profileToDeclaration(b.profiles[n])
    <2>1. ASSUME NEW p, isParsedBody(p), sound(p, {}, ownFields), soundBody(p, spread(b.limits, p.limits))
          PROVE  p.object /\ ~bodyThrows(profileToDeclaration(p)) /\ normalizeBody(profileToDeclaration(p)) = profileToDeclaration(p)
        BY <1>1, <2>1, ProfileKept
    <2>2. QED
        BY <1>7, <2>1
<1>9. ~declarationThrows(b)
    BY <1>5, <1>8 DEF declarationThrows
<1>10. Q = P
    BY <1>8
<1>11. normalizePipelineDeclaration(b) = [b EXCEPT !.profiles = Q]
    <2>1. normalizePipelineDeclaration(b)
             = [normalizeBody(b) EXCEPT !.profiles = [n \in DOMAIN normalizeBody(b).profiles |-> normalizeBody(profileToDeclaration(normalizeBody(b).profiles[n]))]]
        BY DEF normalizePipelineDeclaration
    <2>2. QED
        BY <1>6, <2>1
<1>. HIDE DEF P, Q
<1>12. QED
    BY <1>9, <1>10, <1>11 DEF P

LEMMA NormalisedKept ==
    ASSUME NEW b, isParsedDeclaration(b), WellFormed(b)
    PROVE  LET d == normalizePipelineDeclaration(b)
           IN  isParsedDeclaration(d) /\ WellFormed(d) /\ normalizePipelineDeclaration(d) = d
<1>. DEFINE d == normalizePipelineDeclaration(b)
            P == [n \in DOMAIN b.profiles |-> profileToDeclaration(b.profiles[n])]
<1>1. d = [b EXCEPT !.profiles = P]
    BY Normalised
<1>2. isParsedBody(b) /\ isRecord(b) /\ isBody(b) /\ isLimits(b.limits) /\ isFunction(b.profiles)
    BY ParsedIsBody DEF isParsedDeclaration
<1>3. DOMAIN P = DOMAIN b.profiles /\ P = [n \in DOMAIN b.profiles |-> P[n]] /\ \A n \in DOMAIN b.profiles : P[n] = profileToDeclaration(b.profiles[n])
    OBVIOUS
<1>. HIDE DEF P, d
<1>4. /\ d = [object |-> d.object, fields |-> d.fields, sources |-> d.sources, validators |-> d.validators,
              rules |-> d.rules, limits |-> d.limits, profiles |-> d.profiles]
      /\ d.object = b.object /\ d.fields = b.fields /\ d.sources = b.sources /\ d.validators = b.validators
      /\ d.rules = b.rules /\ d.limits = b.limits /\ d.profiles = P
    BY <1>1, <1>2 DEF isRecord
<1>5. \A n \in DOMAIN b.profiles :
         /\ isParsedBody(P[n]) /\ sound(P[n], {}, ownFields) /\ P[n].profiles = b.profiles[n].profiles
         /\ soundBody(P[n], spread(b.limits, P[n].limits)) /\ profileToDeclaration(P[n]) = P[n]
    <2>1. \A n \in DOMAIN b.profiles :
             /\ isParsedBody(b.profiles[n]) /\ sound(b.profiles[n], {}, ownFields)
             /\ soundBody(b.profiles[n], spread(b.limits, b.profiles[n].limits))
        BY DEF WellFormed, isParsedDeclaration, ownFields
    <2>2. ASSUME NEW p, isParsedBody(p), sound(p, {}, ownFields), soundBody(p, spread(b.limits, p.limits))
          PROVE  LET c == profileToDeclaration(p)
                 IN  /\ isParsedBody(c) /\ sound(c, {}, ownFields) /\ c.profiles = p.profiles
                     /\ soundBody(c, spread(b.limits, c.limits)) /\ profileToDeclaration(c) = c
        <3>. DEFINE c == profileToDeclaration(p)
        <3>1. /\ isParsedBody(c) /\ sound(c, {}, ownFields) /\ c.profiles = p.profiles
              /\ c.sources = p.sources /\ c.validators = p.validators /\ c.rules = p.rules /\ c.limits = p.limits
              /\ "sources" \in DOMAIN c.fields /\ DOMAIN c.fields \subseteq ownFields
            BY <1>2, <2>2, ProfileKept
        <3>. HIDE DEF c
        <3>2. soundBody(c, spread(b.limits, c.limits))
            BY <2>2, <3>1, SoundBodySame
        <3>3. isRecord(c) /\ isJson(c)
            BY <3>1, ParsedIsBody DEF isBody
        <3>4. profileToDeclaration(c) = c
            BY <3>1, <3>3, DeclaredOnce
        <3>5. QED
            BY <3>1, <3>2, <3>4 DEF c
    <2>3. QED
        BY <1>3, <2>1, <2>2
<1>6. isParsedDeclaration(d)
    <2>1. isParsedBody(d)
        BY <1>2, <1>4 DEF isParsedBody, isJson, lacks, has, malformed
    <2>2. isFunction(d.profiles)
        BY <1>2, <1>3, <1>4 DEF isFunction
    <2>3. has(d, "profiles") \/ DOMAIN d.profiles = {}
        BY <1>3, <1>4 DEF isParsedDeclaration, has
    <2>4. \A n \in DOMAIN d.profiles : isParsedBody(d.profiles[n]) /\ DOMAIN d.profiles[n].profiles = {}
        BY <1>3, <1>4, <1>5 DEF isParsedDeclaration
    <2>5. QED
        BY <2>1, <2>2, <2>3, <2>4 DEF isParsedDeclaration
<1>7. WellFormed(d)
    <2>1. sound(d, {"sources"}, {"validators", "coercionRules", "limits", "profiles", "extends"})
        BY <1>4 DEF WellFormed, sound
    <2>2. soundBody(d, d.limits)
        BY <1>4, SoundBodySame DEF WellFormed
    <2>3. Cardinality(DOMAIN d.profiles) <= MaxProfiles /\ \A n \in DOMAIN d.profiles : n \in ProfileNames
        BY <1>3, <1>4 DEF WellFormed
    <2>4. \A n \in DOMAIN d.profiles : sound(d.profiles[n], {}, ownFields) /\ soundBody(d.profiles[n], spread(d.limits, d.profiles[n].limits))
        BY <1>3, <1>4, <1>5
    <2>5. QED
        BY <2>1, <2>2, <2>3, <2>4 DEF WellFormed, ownFields
<1>8. normalizePipelineDeclaration(d) = d
    <2>. DEFINE R == [n \in DOMAIN d.profiles |-> profileToDeclaration(d.profiles[n])]
    <2>1. normalizePipelineDeclaration(d) = [d EXCEPT !.profiles = R]
        BY <1>6, <1>7, Normalised
    <2>2. R = d.profiles
        BY <1>3, <1>4, <1>5
    <2>. HIDE DEF R
    <2>3. QED
        BY <1>4, <2>1, <2>2
<1>9. QED
    BY <1>6, <1>7, <1>8 DEF d

(* The declaration and one of its profiles as one. *)
ownOf(x) == [f \in DOMAIN x.fields \cap ownFields |-> x.fields[f]]
compiledOf(b, s) ==
    [object |-> b.object, fields |-> spread(ownOf(s), ownOf(b)), sources |-> b.sources \o s.sources,
     validators |-> b.validators \o s.validators, rules |-> b.rules \o s.rules,
     limits |-> spread(limitsOf(b), limitsOf(s)), profiles |-> << >>]

LEMMA CompiledForm ==
    ASSUME NEW b, isRecord(b), NEW p, p # NoProfile
    PROVE  compiled(b, p) = compiledOf(b, b.profiles[p])
<1>. DEFINE s == b.profiles[p]
            F == spread(ownOf(s), ownOf(b))
            S == b.sources \o s.sources
            V == b.validators \o s.validators
            R == b.rules \o s.rules
            L == spread(limitsOf(b), limitsOf(s))
            E == << >>
<1>1. compiled(b, p) = [b EXCEPT !.fields = F, !.sources = S, !.validators = V, !.rules = R, !.limits = L, !.profiles = E]
    BY DEF compiled, ownOf, ownFields
<1>. HIDE DEF F, S, V, R, L, E
<1>2. compiled(b, p) = [object |-> b.object, fields |-> F, sources |-> S, validators |-> V, rules |-> R, limits |-> L, profiles |-> E]
    BY <1>1 DEF isRecord
<1>3. QED
    BY <1>2 DEF compiledOf, F, S, V, R, L, E

ofEither(u, s, t) == \A i \in DOMAIN u : (\E k \in DOMAIN s : u[i] = s[k]) \/ (\E k \in DOMAIN t : u[i] = t[k])

LEMMA OfEither ==
    ASSUME NEW s, isList(s), NEW t, isList(t)
    PROVE  isList(s \o t) /\ ofEither(s \o t, s, t)
<1>1. isList(s \o t)
    BY ConcatEmpty
<1>2. ASSUME NEW i \in DOMAIN (s \o t)
      PROVE  (\E k \in DOMAIN s : (s \o t)[i] = s[k]) \/ (\E k \in DOMAIN t : (s \o t)[i] = t[k])
    <2>1. i \in DOMAIN s => (s \o t)[i] = s[i]
        BY Joined
    <2>2. i \notin DOMAIN s => i - Len(s) \in DOMAIN t /\ (s \o t)[i] = t[i - Len(s)]
        BY <1>2, Joined
    <2>3. QED
        BY <2>1, <2>2
<1>3. QED
    BY <1>1, <1>2 DEF ofEither

LEMMA OwnOf ==
    ASSUME NEW x, isJson(x)
    PROVE  /\ DOMAIN ownOf(x) = DOMAIN x.fields \cap ownFields /\ isFunction(ownOf(x))
           /\ \A f \in DOMAIN ownOf(x) : ownOf(x)[f] = x.fields[f]
<1>1. DOMAIN ownOf(x) = DOMAIN x.fields \cap ownFields /\ ownOf(x) = [f \in DOMAIN ownOf(x) |-> ownOf(x)[f]]
    BY DEF ownOf
<1>2. IsFiniteSet(DOMAIN x.fields \cap ownFields)
    <2>1. IsFiniteSet(DOMAIN x.fields) /\ DOMAIN x.fields \cap ownFields \in SUBSET DOMAIN x.fields
        BY DEF isJson, isFunction
    <2>2. QED
        BY <2>1, FS_Subset
<1>3. \A f \in DOMAIN ownOf(x) : ownOf(x)[f] = x.fields[f]
    BY DEF ownOf
<1>4. QED
    BY <1>1, <1>2, <1>3 DEF isFunction

LEMMA LimitsLacking ==
    ASSUME NEW b, isBody(b), ~malformed(b, "limits"), "limits" \notin DOMAIN b.fields
    PROVE  DOMAIN limitsOf(b) = {}
BY DEF limitsOf, lacks, has

LEMMA CompiledParsed ==
    ASSUME NEW b, isParsedDeclaration(b), WellFormed(b), NEW p \in DOMAIN b.profiles, p # NoProfile
    PROVE  isParsedDeclaration(compiled(b, p))
<1>. DEFINE s == b.profiles[p]
            c == compiled(b, p)
<1>1. isParsedBody(b) /\ isRecord(b) /\ isBody(b) /\ isLimits(b.limits) /\ isJson(b)
    BY ParsedIsBody DEF isParsedDeclaration, isBody
<1>2. isParsedBody(s) /\ isRecord(s) /\ isBody(s) /\ isLimits(s.limits) /\ isJson(s)
    BY ParsedIsBody DEF isParsedDeclaration, isBody
<1>3. ~malformed(b, "limits") /\ ~malformed(s, "limits")
    <2>1. ~malformed(b, "limits")
        BY FieldsSound DEF WellFormed
    <2>2. sound(s, {}, ownFields)
        BY DEF WellFormed, ownFields
    <2>3. "limits" \in ({} \cup ownFields) \ {"value"}
        BY DEF ownFields
    <2>4. ~malformed(s, "limits")
        BY <2>2, <2>3, FieldsSound
    <2>5. QED
        BY <2>1, <2>4
<1>4. c = compiledOf(b, s)
    BY <1>1, CompiledForm
<1>. HIDE DEF s, c
<1>. DEFINE F == spread(ownOf(s), ownOf(b))
            S == b.sources \o s.sources
            V == b.validators \o s.validators
            R == b.rules \o s.rules
            L == spread(limitsOf(b), limitsOf(s))
            E == << >>
<1>5. c = [object |-> b.object, fields |-> F, sources |-> S, validators |-> V, rules |-> R, limits |-> L, profiles |-> E]
    BY <1>4 DEF compiledOf
<1>6. isList(S) /\ \A i \in DOMAIN S : isParsedSource(S[i])
    <2>1. /\ isList(b.sources) /\ \A i \in DOMAIN b.sources : isParsedSource(b.sources[i])
          /\ isList(s.sources) /\ \A i \in DOMAIN s.sources : isParsedSource(s.sources[i])
        BY <1>1, <1>2 DEF isBody
    <2>2. isList(S) /\ ofEither(S, b.sources, s.sources)
        BY <2>1, OfEither
    <2>. HIDE DEF S
    <2>3. QED
        BY <2>1, <2>2 DEF ofEither
<1>7. isList(V) /\ \A i \in DOMAIN V : isParsedValidator(V[i])
    <2>1. /\ isList(b.validators) /\ \A i \in DOMAIN b.validators : isParsedValidator(b.validators[i])
          /\ isList(s.validators) /\ \A i \in DOMAIN s.validators : isParsedValidator(s.validators[i])
        BY <1>1, <1>2 DEF isBody
    <2>2. isList(V) /\ ofEither(V, b.validators, s.validators)
        BY <2>1, OfEither
    <2>. HIDE DEF V
    <2>3. QED
        BY <2>1, <2>2 DEF ofEither
<1>8. isList(R) /\ \A i \in DOMAIN R : isParsedRule(R[i])
    <2>1. /\ isList(b.rules) /\ \A i \in DOMAIN b.rules : isParsedRule(b.rules[i])
          /\ isList(s.rules) /\ \A i \in DOMAIN s.rules : isParsedRule(s.rules[i])
        BY <1>1, <1>2 DEF isBody
    <2>2. isList(R) /\ ofEither(R, b.rules, s.rules)
        BY <2>1, OfEither
    <2>. HIDE DEF R
    <2>3. QED
        BY <2>1, <2>2 DEF ofEither
<1>9. isLimits(L)
    BY <1>1, <1>2, LimitsOfLimits, LimitsSpread
<1>10. /\ isFunction(F) /\ DOMAIN F = DOMAIN ownOf(s) \cup DOMAIN ownOf(b)
       /\ \A f \in DOMAIN ownOf(b) : F[f] = ownOf(b)[f]
       /\ \A f \in DOMAIN ownOf(s) \ DOMAIN ownOf(b) : F[f] = ownOf(s)[f]
    <2>1. isFunction(ownOf(s)) /\ isFunction(ownOf(b))
        BY <1>1, <1>2, OwnOf
    <2>2. QED
        BY <2>1, Spread, SpreadFunction DEF isFunction
<1>11. isFunction(E) /\ DOMAIN E = {}
    BY FS_EmptySet DEF isFunction
<1>12. DOMAIN L = DOMAIN limitsOf(b) \cup DOMAIN limitsOf(s)
    BY DEF spread
<1>. HIDE DEF F, S, V, R, L, E
<1>13. /\ c.object = b.object /\ c.fields = F /\ c.sources = S /\ c.validators = V /\ c.rules = R
       /\ c.limits = L /\ c.profiles = E /\ isRecord(c)
    BY <1>5 DEF isRecord
<1>14. lacks(c, "limits") => DOMAIN c.limits = {}
    <2>. SUFFICES ASSUME lacks(c, "limits") PROVE DOMAIN L = {}
        BY <1>13
    <2>1. "limits" \in ownFields
        BY DEF ownFields
    <2>2. "limits" \notin DOMAIN b.fields /\ "limits" \notin DOMAIN s.fields
        <3>1. CASE "limits" \in DOMAIN b.fields
            <4>1. "limits" \in DOMAIN F /\ F["limits"] = b.fields["limits"]
                BY <1>1, <1>10, <2>1, <3>1, OwnOf
            <4>2. QED
                BY <1>3, <1>13, <3>1, <4>1 DEF lacks, has, malformed
        <3>2. CASE "limits" \notin DOMAIN b.fields /\ "limits" \in DOMAIN s.fields
            <4>1. "limits" \in DOMAIN F /\ F["limits"] = s.fields["limits"]
                BY <1>1, <1>2, <1>10, <2>1, <3>2, OwnOf
            <4>2. QED
                BY <1>3, <1>13, <3>2, <4>1 DEF lacks, has, malformed
        <3>3. QED
            BY <3>1, <3>2
    <2>3. QED
        BY <1>1, <1>2, <1>3, <1>12, <2>2, LimitsLacking
<1>15. isJson(c)
    BY <1>1, <1>10, <1>13 DEF isJson
<1>16. isBody(c)
    BY <1>6, <1>7, <1>8, <1>9, <1>13, <1>14, <1>15 DEF isBody
<1>17. isParsedBody(c)
    BY <1>13, <1>16 DEF isParsedBody, isRecord, isBody, isLimits
<1>18. QED
    BY <1>11, <1>13, <1>17 DEF isParsedDeclaration, c

(* A profile selected of the normalised declaration is the one the document has. *)
LEMMA CompiledSame ==
    ASSUME NEW b, isParsedDeclaration(b), WellFormed(b), NEW p \in DOMAIN b.profiles, p # NoProfile
    PROVE  compiled(normalizePipelineDeclaration(b), p) = compiled(b, p)
<1>. DEFINE s == b.profiles[p]
            d == normalizePipelineDeclaration(b)
            t == profileToDeclaration(s)
            P == [n \in DOMAIN b.profiles |-> profileToDeclaration(b.profiles[n])]
<1>1. isRecord(b) /\ isJson(b) /\ isLimits(b.limits)
    BY ParsedIsBody DEF isParsedDeclaration, isBody
<1>2. d = [b EXCEPT !.profiles = P]
    BY Normalised
<1>3. P[p] = t
    OBVIOUS
<1>. HIDE DEF P, d
<1>4. /\ d.object = b.object /\ d.fields = b.fields /\ d.sources = b.sources /\ d.validators = b.validators
      /\ d.rules = b.rules /\ d.limits = b.limits /\ d.profiles = P /\ isRecord(d)
    BY <1>1, <1>2 DEF isRecord
<1>5. /\ isParsedBody(s) /\ sound(s, {}, ownFields) /\ soundBody(s, spread(b.limits, s.limits))
    BY DEF WellFormed, isParsedDeclaration, ownFields
<1>. HIDE DEF s
<1>6. /\ t.sources = s.sources /\ t.validators = s.validators /\ t.rules = s.rules /\ t.limits = s.limits
      /\ isParsedBody(t) /\ "sources" \in DOMAIN t.fields /\ DOMAIN t.fields \subseteq ownFields
      /\ DOMAIN s.fields \subseteq DOMAIN t.fields
      /\ \A f \in DOMAIN s.fields : t.fields[f] = s.fields[f]
      /\ \A f \in DOMAIN t.fields : f \in DOMAIN s.fields \/ f = "sources"
    BY <1>1, <1>5, ProfileKept
<1>. HIDE DEF t
<1>7. isJson(s) /\ isJson(t) /\ isJson(d)
    BY <1>1, <1>4, <1>5, <1>6, ParsedIsBody DEF isBody, isJson
<1>8. "sources" \in DOMAIN ownOf(b)
    <2>1. "sources" \in DOMAIN b.fields
        BY FieldsSound DEF WellFormed, has
    <2>2. QED
        BY <1>1, <2>1, OwnOf DEF ownFields
<1>9. ownOf(d) = ownOf(b)
    BY <1>4 DEF ownOf
<1>10. spread(ownOf(t), ownOf(b)) = spread(ownOf(s), ownOf(b))
    <2>1. /\ DOMAIN ownOf(s) \subseteq DOMAIN ownOf(t)
          /\ DOMAIN ownOf(t) \subseteq DOMAIN ownOf(s) \cup {"sources"}
          /\ \A f \in DOMAIN ownOf(s) : ownOf(t)[f] = ownOf(s)[f]
        BY <1>6, <1>7, OwnOf
    <2>2. ASSUME NEW f, NEW g, NEW h, "sources" \in DOMAIN h, DOMAIN g \subseteq DOMAIN f,
                 DOMAIN f \subseteq DOMAIN g \cup {"sources"}, \A x \in DOMAIN g : f[x] = g[x]
          PROVE  spread(f, h) = spread(g, h)
        <3>1. DOMAIN f \cup DOMAIN h = DOMAIN g \cup DOMAIN h
            BY <2>2
        <3>2. \A x \in DOMAIN f \cup DOMAIN h : (IF x \in DOMAIN h THEN h[x] ELSE f[x]) = (IF x \in DOMAIN h THEN h[x] ELSE g[x])
            BY <2>2
        <3>3. QED
            BY <3>1, <3>2 DEF spread
    <2>3. QED
        BY <1>8, <2>1, <2>2
<1>11. limitsOf(d) = limitsOf(b)
    BY <1>4 DEF limitsOf, lacks, has, malformed
<1>12. limitsOf(t) = limitsOf(s)
    <2>1. lacks(t, "limits") <=> lacks(s, "limits")
        BY <1>6 DEF lacks, has, malformed
    <2>2. QED
        BY <1>6, <2>1 DEF limitsOf
<1>13. compiled(b, p) = compiledOf(b, s) /\ compiled(d, p) = compiledOf(d, t)
    BY <1>1, <1>3, <1>4, CompiledForm DEF s
<1>14. compiledOf(d, t) = compiledOf(b, s)
    BY <1>4, <1>6, <1>9, <1>10, <1>11, <1>12 DEF compiledOf
<1>15. QED
    BY <1>13, <1>14 DEF d

-----------------------------------------------------------------------------
(***************************************************************************)
(* From the document to the declared sources.                              *)
(***************************************************************************)

(* A declaration that is worked on is parsed, well formed and normalised; the    *)
(* one that was read is what normalisation made of the document.                 *)
Settled(d) == isParsedDeclaration(d) /\ WellFormed(d) /\ normalizePipelineDeclaration(d) = d
InputInv ==
    /\ document \in ParsedDocuments
    /\ stage \in {"parsed", "read", "selected", "loaded", "rejected"}
    /\ stage \in {"read", "selected", "loaded"} => Settled(declaration)
    /\ stage = "read" => WellFormed(document) /\ declaration = normalizePipelineDeclaration(document)

(* What Settle does with a declaration: it goes on exactly when it is well formed. *)
LEMMA SettleExact ==
    ASSUME NEW body, isParsedDeclaration(body), NEW next, next # "rejected", Settle(body, next)
    PROVE  /\ WellFormed(body) => stage' = next /\ declaration' = normalizePipelineDeclaration(body)
           /\ ~WellFormed(body) => stage' = "rejected"
<1>1. validatePipelineDeclaration(body) = << >> <=> WellFormed(body)
    BY ValidationExact
<1>2. WellFormed(body) => ~declarationThrows(body)
    BY Normalised
<1>3. QED
    BY <1>1, <1>2 DEF Settle, reject

LEMMA SelectExact ==
    ASSUME InputInv, Select, profile # NoProfile
    PROVE  /\ stage' = "selected" => Settled(declaration')
           /\ stage' \in {"selected", "rejected"}
           /\ profile \in DOMAIN document.profiles => (stage' = "selected" <=> WellFormed(compiled(document, profile)))
<1>1. /\ stage = "read" /\ isParsedDeclaration(document) /\ WellFormed(document)
      /\ declaration = normalizePipelineDeclaration(document)
    BY InputConstants DEF InputInv, Select, InputConstants
<1>2. isParsedDeclaration(declaration) /\ WellFormed(declaration)
    BY <1>1 DEF InputInv, Settled
<1>3. validatePipelineDeclaration(declaration) = << >>
    BY <1>2, ValidationExact
<1>4. DOMAIN declaration.profiles = DOMAIN document.profiles
    <2>. DEFINE P == [n \in DOMAIN document.profiles |-> profileToDeclaration(document.profiles[n])]
    <2>1. declaration = [document EXCEPT !.profiles = P]
        BY <1>1, Normalised
    <2>2. isRecord(document)
        BY <1>1, ParsedIsBody DEF isParsedDeclaration
    <2>3. DOMAIN P = DOMAIN document.profiles
        OBVIOUS
    <2>. HIDE DEF P
    <2>4. QED
        BY <2>1, <2>2, <2>3 DEF isRecord
<1>5. CASE profile \notin ProfileNames \cap DOMAIN declaration.profiles
    <2>1. stage' = "rejected"
        BY <1>3, <1>5 DEF Select, reject
    <2>2. profile \notin DOMAIN document.profiles
        BY <1>1, <1>4, <1>5 DEF WellFormed
    <2>3. QED
        BY <2>1, <2>2
<1>6. CASE profile \in ProfileNames \cap DOMAIN declaration.profiles
    <2>1. Settle(compiled(declaration, profile), "selected")
        BY <1>3, <1>6 DEF Select
    <2>2. isParsedDeclaration(compiled(declaration, profile))
        BY <1>2, <1>6, CompiledParsed
    <2>3. compiled(declaration, profile) = compiled(document, profile)
        BY <1>1, <1>4, <1>6, CompiledSame
    <2>4. WellFormed(compiled(declaration, profile)) =>
             stage' = "selected" /\ declaration' = normalizePipelineDeclaration(compiled(declaration, profile))
        BY <2>1, <2>2, SettleExact
    <2>5. ~WellFormed(compiled(declaration, profile)) => stage' = "rejected"
        BY <2>1, <2>2, SettleExact
    <2>6. WellFormed(compiled(declaration, profile)) => Settled(declaration')
        BY <2>2, <2>4, NormalisedKept DEF Settled
    <2>7. QED
        BY <2>3, <2>4, <2>5, <2>6
<1>7. QED
    BY <1>5, <1>6

LEMMA ReadExact ==
    ASSUME InputInv, Read
    PROVE  /\ WellFormed(document) => /\ stage' = "read" /\ declaration' = normalizePipelineDeclaration(document)
                                      /\ Settled(declaration')
           /\ ~WellFormed(document) => stage' = "rejected"
<1>1. isParsedDeclaration(document) /\ Settle(document, "read")
    BY InputConstants DEF InputInv, Read, InputConstants
<1>2. WellFormed(document) => stage' = "read" /\ declaration' = normalizePipelineDeclaration(document)
    BY <1>1, SettleExact
<1>3. ~WellFormed(document) => stage' = "rejected"
    BY <1>1, SettleExact
<1>4. WellFormed(document) => Settled(declaration')
    BY <1>1, <1>2, NormalisedKept DEF Settled
<1>5. QED
    BY <1>2, <1>3, <1>4

LEMMA InputInductive ==
    /\ InputInit => InputInv
    /\ InputInv /\ [InputNext]_inputVars => InputInv'
<1>1. InputInit => InputInv
    BY DEF InputInit, InputInv
<1>2. ASSUME InputInv, [InputNext]_inputVars PROVE InputInv'
    <2>1. CASE Read
        <3>1. document' = document
            BY <2>1 DEF Read
        <3>2. CASE WellFormed(document)
            <4>1. stage' = "read" /\ declaration' = normalizePipelineDeclaration(document) /\ Settled(declaration')
                BY <1>2, <2>1, <3>2, ReadExact
            <4>2. QED
                BY <1>2, <3>1, <3>2, <4>1 DEF InputInv
        <3>3. CASE ~WellFormed(document)
            <4>1. stage' = "rejected"
                BY <1>2, <2>1, <3>3, ReadExact
            <4>2. QED
                BY <1>2, <3>1, <4>1 DEF InputInv
        <3>4. QED
            BY <3>2, <3>3
    <2>2. CASE Select
        <3>1. document' = document
            BY <2>2 DEF Select
        <3>2. CASE profile = NoProfile
            BY <1>2, <2>2, <3>1, <3>2 DEF Select, InputInv
        <3>3. CASE profile # NoProfile
            <4>1. stage' = "selected" => Settled(declaration')
                BY <1>2, <2>2, <3>3, SelectExact
            <4>2. stage' \in {"selected", "rejected"}
                BY <1>2, <2>2, <3>3, SelectExact
            <4>3. QED
                BY <1>2, <3>1, <4>1, <4>2 DEF InputInv
        <3>4. QED
            BY <3>2, <3>3
    <2>3. CASE Load
        BY <1>2, <2>3 DEF Load, InputInv
    <2>4. CASE UNCHANGED inputVars
        BY <1>2, <2>4 DEF inputVars, InputInv
    <2>5. QED
        BY <1>2, <2>1, <2>2, <2>3, <2>4 DEF InputNext
<1>3. QED
    BY <1>1, <1>2

LEMMA InputInvariant == InputSpec => []InputInv
BY InputInductive, PTL DEF InputSpec

(* What validation lets through, normalisation neither refuses with an error of  *)
(* its own nor turns into a declaration that validation would refuse.            *)
THEOREM NormalisedIsValidHolds == InputSpec => []NormalisedIsValid
<1>1. InputInv => NormalisedIsValid
    <2>. SUFFICES ASSUME InputInv PROVE NormalisedIsValid
        OBVIOUS
    <2>1. Settled(declaration) => validatePipelineDeclaration(declaration) = << >>
        BY ValidationExact DEF Settled
    <2>2. QED
        BY <2>1 DEF InputInv, NormalisedIsValid, Settled
<1>2. QED
    BY <1>1, InputInvariant, PTL

(* A document is read, and a profile it has is selected, exactly when it is well *)
(* formed: the bound on diagnostics and the early returns of                     *)
(* validatePipelineDeclaration decide no verdict.                                *)
THEOREM VerdictIsExactHolds == InputSpec => VerdictIsExact
<1>. DEFINE A == /\ stage = "parsed" => (stage' = "read" <=> WellFormed(document))
                 /\ stage = "read" /\ profile \in DOMAIN document.profiles =>
                       (stage' = "selected" <=> WellFormed(compiled(document, profile)))
<1>1. InputInv /\ [InputNext]_inputVars => [A]_inputVars
    <2>. SUFFICES ASSUME InputInv, InputNext PROVE A
        OBVIOUS
    <2>1. CASE Read
        <3>1. stage = "parsed" /\ stage # "read"
            BY <2>1 DEF Read
        <3>2. stage' = "read" <=> WellFormed(document)
            BY <2>1, ReadExact
        <3>3. QED
            BY <3>1, <3>2
    <2>2. CASE Select
        <3>1. stage = "read" /\ stage # "parsed"
            BY <2>2 DEF Select
        <3>2. profile \in DOMAIN document.profiles => profile # NoProfile
            BY <3>1, InputConstants DEF InputInv, InputConstants, WellFormed
        <3>3. profile \in DOMAIN document.profiles => (stage' = "selected" <=> WellFormed(compiled(document, profile)))
            BY <2>2, <3>2, SelectExact
        <3>4. QED
            BY <3>1, <3>3
    <2>3. CASE Load
        BY <2>3 DEF Load
    <2>4. QED
        BY <2>1, <2>2, <2>3 DEF InputNext
<1>2. QED
    BY <1>1, InputInvariant, PTL DEF InputSpec, VerdictIsExact

-----------------------------------------------------------------------------
(***************************************************************************)
(* The mapping loop: what it makes of each mapping.                        *)
(***************************************************************************)

(* A mapping leaves everything as it is, or sets its target; the others are reported. *)
silentIn(q, values) == q.name \notin DOMAIN values \/ (values[q.name] = Blank /\ setting(q, "emptyValue", "parse") = "ignore")
setBy(q, values) ==
    /\ q.name \in DOMAIN values /\ (values[q.name] = Blank => setting(q, "emptyValue", "parse") = "parse")
    /\ parseMappedValue(values[q.name], q) /\ \A i \in DOMAIN q.target : q.target[i] \notin UnsafeSegments

MappingCodes == {"mapping_policy_invalid", "mapping_empty_value", "unsafe_mapping_path", "mapping_parse_failed"}

LEMMA PolicySound ==
    ASSUME NEW q, isParsedMapping(q), NEW kind, soundMapping(q, kind)
    PROVE  validMappingPolicy(q) /\ setting(q, "emptyValue", "parse") \in {"parse", "ignore", "error"}
<1>1. \A f \in DOMAIN q.fields \ {"value"} : q.fields[f] \notin {"bad", "empty"}
    BY DEF soundMapping, sound
<1>2. ~malformed(q, "emptyValue")
    BY <1>1 DEF malformed, has
<1>3. has(q, "numberFormat") => ~malformed(q, "numberFormat") /\ word(q, "parseAs", {"number"})
    BY <1>1 DEF malformed, has, word, soundMapping, setting
<1>4. setting(q, "emptyValue", "parse") \in {"parse", "ignore", "error"}
    BY <1>2 DEF isParsedMapping, setting, malformed
<1>5. QED
    BY <1>2, <1>3, <1>4 DEF validMappingPolicy

state_(value, codes, trie) == [value |-> value, issues |-> codes, trie |-> trie]

LEMMA StateParts ==
    ASSUME NEW x, NEW v, NEW i, NEW u, x = state_(v, i, u)
    PROVE  x.value = v /\ x.issues = i /\ x.trie = u
BY DEF state_

LEMMA StateIssues ==
    ASSUME NEW x, NEW v, NEW i, NEW u, x = state_(v, i, u), NEW c
    PROVE  [x EXCEPT !.issues = Append(@, c)] = state_(v, Append(i, c), u)
<1>1. [x EXCEPT !.issues = Append(i, c)] = state_(v, Append(i, c), u)
    BY DEF state_
<1>2. QED
    BY <1>1, StateParts

LEMMA StateTrie ==
    ASSUME NEW x, NEW v, NEW i, NEW u, x = state_(v, i, u), NEW t
    PROVE  [x EXCEPT !.trie = addPath(@, t)] = state_(v, i, addPath(u, t))
<1>1. [x EXCEPT !.trie = addPath(u, t)] = state_(v, i, addPath(u, t))
    BY DEF state_
<1>2. QED
    BY <1>1, StateParts

LEMMA StateValue ==
    ASSUME NEW x, NEW v, NEW i, NEW u, x = state_(v, i, u), NEW t, NEW w
    PROVE  [x EXCEPT !.value = put(@, t, w)] = state_(put(v, t, w), i, u)
<1>1. [x EXCEPT !.value = put(v, t, w)] = state_(put(v, t, w), i, u)
    BY DEF state_
<1>2. QED
    BY <1>1, StateParts

applied_(v, i, u, q, values) == state_(put(v, q.target, parsedValue(values[q.name], q)), i, addPath(u, q.target))

LEMMA MappingApplied ==
    ASSUME NEW q, isParsedMapping(q), NEW kind, soundMapping(q, kind), NEW values,
           NEW x, NEW v, NEW i, NEW u, x = state_(v, i, u),
           conflictWith(u, q.target) = "none"
    PROVE  /\ silentIn(q, values) => applyMapping(x, q, values) = x /\ ~setBy(q, values)
           /\ setBy(q, values) => applyMapping(x, q, values) = applied_(v, i, u, q, values)
           /\ ~silentIn(q, values) /\ ~setBy(q, values) =>
                 \E code \in MappingCodes, trie \in {u, addPath(u, q.target)} :
                    applyMapping(x, q, values) = state_(v, Append(i, code), trie)
<1>. DEFINE empty == setting(q, "emptyValue", "parse")
            raw == values[q.name]
            good == parseMappedValue(raw, q)
            entered == [x EXCEPT !.trie = addPath(@, q.target)]
            report(y, code) == [y EXCEPT !.issues = Append(@, code)]
            unsafe == \E k \in DOMAIN q.target : q.target[k] \in UnsafeSegments
<1>0. x.value = v /\ x.issues = i /\ x.trie = u
    BY StateParts
<1>1. validMappingPolicy(q) /\ empty \in {"parse", "ignore", "error"}
    BY PolicySound
<1>2. applyMapping(x, q, values) =
         IF q.name \notin DOMAIN values THEN x
         ELSE IF raw = Blank /\ empty = "ignore" THEN x
         ELSE IF raw = Blank /\ empty = "error" THEN report(x, "mapping_empty_value")
         ELSE IF unsafe THEN report(entered, "unsafe_mapping_path")
         ELSE IF ~good THEN report(entered, "mapping_parse_failed")
         ELSE [entered EXCEPT !.value = put(@, q.target, parsedValue(raw, q))]
    BY <1>0, <1>1 DEF applyMapping
<1>3. entered = state_(v, i, addPath(u, q.target))
    BY StateTrie
<1>4. \A code : /\ report(x, code) = state_(v, Append(i, code), u)
                /\ report(entered, code) = state_(v, Append(i, code), addPath(u, q.target))
    <2>. HIDE DEF entered
    <2>1. QED
        BY <1>3, StateIssues
<1>5. [entered EXCEPT !.value = put(@, q.target, parsedValue(raw, q))] = applied_(v, i, u, q, values)
    <2>. HIDE DEF entered
    <2>1. QED
        BY <1>3, StateValue DEF applied_
<1>6. /\ silentIn(q, values) <=> q.name \notin DOMAIN values \/ (raw = Blank /\ empty = "ignore")
      /\ setBy(q, values) <=> /\ q.name \in DOMAIN values /\ (raw = Blank => empty = "parse") /\ good /\ ~unsafe
    BY DEF silentIn, setBy
<1>7. {"mapping_empty_value", "unsafe_mapping_path", "mapping_parse_failed"} \subseteq MappingCodes
    BY DEF MappingCodes
<1>. HIDE DEF empty, raw, good, unsafe, entered, report
<1>8. silentIn(q, values) => applyMapping(x, q, values) = x /\ ~setBy(q, values)
    BY <1>1, <1>2, <1>6
<1>9. setBy(q, values) => applyMapping(x, q, values) = applied_(v, i, u, q, values)
    BY <1>1, <1>2, <1>5, <1>6
<1>10. ASSUME ~silentIn(q, values), ~setBy(q, values)
       PROVE  \E code \in MappingCodes, trie \in {u, addPath(u, q.target)} :
                 applyMapping(x, q, values) = state_(v, Append(i, code), trie)
    <2>1. \/ applyMapping(x, q, values) = report(x, "mapping_empty_value")
          \/ applyMapping(x, q, values) = report(entered, "unsafe_mapping_path")
          \/ applyMapping(x, q, values) = report(entered, "mapping_parse_failed")
        BY <1>1, <1>2, <1>6, <1>10
    <2>2. QED
        BY <1>4, <1>7, <2>1
<1>11. QED
    BY <1>8, <1>9, <1>10

Texts_(T, W) == UNION {[D -> W] : D \in SUBSET T}
Tries(P) == [terminal : SUBSET P, first : SUBSET P]
LoopCodes == MappingCodes \cup {"none", "overlap", "exact"}
Applying(T, W, P) == [value : Texts_(T, W), issues : Seq(LoopCodes), trie : Tries(P)]

LEMMA PutOne ==
    ASSUME NEW T, NEW W, NEW f \in Texts_(T, W), NEW t \in T, NEW w \in W
    PROVE  put(f, t, w) \in Texts_(T, W)
<1>1. PICK D \in SUBSET T : f \in [D -> W]
    BY DEF Texts_
<1>2. put(f, t, w) \in [D \cup {t} -> W]
    BY <1>1 DEF put
<1>3. D \cup {t} \in SUBSET T
    OBVIOUS
<1>4. QED
    BY <1>2, <1>3 DEF Texts_

LEMMA ApplyType ==
    ASSUME NEW T, NEW W, NEW P, NEW x \in Applying(T, W, P), NEW values, NEW q,
           q.target \in T, parsedValue(values[q.name], q) \in W, prefixesOf(q.target) \cup {q.target} \subseteq P
    PROVE  applyMapping(x, q, values) \in Applying(T, W, P)
<1>1. PICK v \in Texts_(T, W), i \in Seq(LoopCodes), u \in Tries(P) : x = state_(v, i, u)
    BY DEF Applying, state_
<1>. DEFINE conflict == conflictWith(u, q.target)
            more == put(v, q.target, parsedValue(values[q.name], q))
            trie == addPath(u, q.target)
<1>0. x.value = v /\ x.issues = i /\ x.trie = u
    BY <1>1, StateParts
<1>2. more \in Texts_(T, W)
    BY <1>1, PutOne
<1>3. trie \in Tries(P)
    BY <1>1 DEF addPath, Tries
<1>4. conflict \in LoopCodes
    BY DEF conflictWith, LoopCodes
<1>5. \A f \in Texts_(T, W), j \in Seq(LoopCodes), w \in Tries(P) : state_(f, j, w) \in Applying(T, W, P)
    BY DEF Applying, state_
<1>6. applyMapping(x, q, values) \in Applying(T, W, P)
    <2>. DEFINE entered == [x EXCEPT !.trie = addPath(@, q.target)]
                report(y, code) == [y EXCEPT !.issues = Append(@, code)]
    <2>1. entered = state_(v, i, trie)
        BY <1>1, StateTrie
    <2>2. \A c : report(x, c) = state_(v, Append(i, c), u) /\ report(entered, c) = state_(v, Append(i, c), trie)
        <3>. HIDE DEF entered, trie
        <3>1. QED
            BY <1>1, <2>1, StateIssues
    <2>3. [entered EXCEPT !.value = put(@, q.target, parsedValue(values[q.name], q))] = state_(more, i, trie)
        <3>. HIDE DEF entered, trie
        <3>1. QED
            BY <2>1, StateValue
    <2>4. applyMapping(x, q, values) \in
             {report(x, "mapping_policy_invalid"), x, report(x, "mapping_empty_value"), report(x, conflict), report(entered, "unsafe_mapping_path"),
              report(entered, "mapping_parse_failed"), [entered EXCEPT !.value = put(@, q.target, parsedValue(values[q.name], q))]}
        <3>. DEFINE raw == values[q.name]
                    empty == setting(q, "emptyValue", "parse")
                    policy == validMappingPolicy(q)
                    unsafe == \E k \in DOMAIN q.target : q.target[k] \in UnsafeSegments
                    good == parseMappedValue(raw, q)
                    done == [entered EXCEPT !.value = put(@, q.target, parsedValue(values[q.name], q))]
        <3>1. applyMapping(x, q, values) =
                 IF ~policy THEN report(x, "mapping_policy_invalid")
                 ELSE IF q.name \notin DOMAIN values THEN x
                 ELSE IF raw = Blank /\ empty = "ignore" THEN x
                 ELSE IF raw = Blank /\ empty = "error" THEN report(x, "mapping_empty_value")
                 ELSE IF conflict # "none" THEN report(x, conflict)
                 ELSE IF unsafe THEN report(entered, "unsafe_mapping_path")
                 ELSE IF ~good THEN report(entered, "mapping_parse_failed")
                 ELSE done
            BY <1>0 DEF applyMapping
        <3>. HIDE DEF raw, empty, policy, unsafe, good, done, report, entered, conflict
        <3>2. QED
            BY <3>1 DEF done
    <2>5. {"mapping_policy_invalid", "mapping_empty_value", "unsafe_mapping_path", "mapping_parse_failed"} \subseteq LoopCodes
        BY DEF LoopCodes, MappingCodes
    <2>. DEFINE done == [entered EXCEPT !.value = put(@, q.target, parsedValue(values[q.name], q))]
    <2>. HIDE DEF entered, report, conflict, more, trie
    <2>6. ASSUME NEW c \in LoopCodes PROVE report(x, c) \in Applying(T, W, P) /\ report(entered, c) \in Applying(T, W, P)
        <3>1. Append(i, c) \in Seq(LoopCodes)
            BY <1>1
        <3>2. QED
            BY <1>1, <1>3, <1>5, <2>2, <3>1
    <2>7. done \in Applying(T, W, P)
        BY <1>1, <1>2, <1>3, <1>5, <2>3
    <2>. HIDE DEF done
    <2>8. applyMapping(x, q, values) \in
             {report(x, "mapping_policy_invalid"), x, report(x, "mapping_empty_value"), report(x, conflict), report(entered, "unsafe_mapping_path"),
              report(entered, "mapping_parse_failed"), done}
        BY <2>4 DEF done
    <2>9. QED
        BY <1>4, <2>5, <2>6, <2>7, <2>8
<1>7. QED
    BY <1>6

mappingStep(x, q, kind, values) == IF q.kind = kind THEN applyMapping(x, q, values) ELSE x
NoMappings == [value |-> << >>, issues |-> << >>, trie |-> emptyTrie]

(* The mappings applied one after the other. *)
LEMMA MappingsRun ==
    ASSUME NEW ms, isList(ms), NEW kind, NEW values
    PROVE  \E run, T, W, P :
              /\ run[0] = NoMappings /\ \A i \in 0..Len(ms) : run[i] \in Applying(T, W, P)
              /\ \A i \in 1..Len(ms) : run[i] = mappingStep(run[i - 1], ms[i], kind, values)
              /\ createMappedOverrideSource(kind, values, ms) = run[Len(ms)]
<1>. DEFINE n == Len(ms)
            T == {ms[i].target : i \in 1..n}
            W == {parsedValue(values[ms[i].name], ms[i]) : i \in 1..n}
            P == T \cup UNION {prefixesOf(ms[i].target) : i \in 1..n}
            S == Applying(T, W, P)
<1>1. n \in Nat /\ DOMAIN ms = 1..n
    BY DEF isList
<1>2. ASSUME NEW i \in 1..n
      PROVE  ms[i].target \in T /\ parsedValue(values[ms[i].name], ms[i]) \in W /\ prefixesOf(ms[i].target) \cup {ms[i].target} \subseteq P
    OBVIOUS
<1>3. NoMappings \in S
    <2>1. << >> \in Texts_(T, W)
        <3>1. << >> \in [{} -> W]
            OBVIOUS
        <3>2. QED
            BY <3>1 DEF Texts_
    <2>. HIDE DEF T, W, P
    <2>2. QED
        BY <2>1 DEF NoMappings, Applying, Tries, emptyTrie
<1>. HIDE DEF n, T, W, P
<1>4. ASSUME NEW i \in 1..n, NEW x \in S PROVE mappingStep(x, ms[i], kind, values) \in S
    BY <1>2, ApplyType DEF mappingStep
<1>. HIDE DEF S
<1>. DEFINE Iter(it) == it = [s \in SUBSET (DOMAIN ms) |-> IF s = {} THEN NoMappings ELSE mappingStep(it[s \ {Max(s)}], ms[Max(s)], kind, values)]
            step == [p \in (1..n) \X S |-> mappingStep(p[2], ms[p[1]], kind, values)]
            chosen == CHOOSE it : Iter(it)
            run == [i \in 0..n |-> chosen[1..i]]
            Typed == {i \in 0..n : chosen[1..i] \in S}
<1>5. createMappedOverrideSource(kind, values, ms) = chosen[DOMAIN ms]
    BY DEF createMappedOverrideSource, FoldLeft, MapThenFoldSet, NoMappings, mappingStep
<1>6. \E it : Iter(it)
    <2>1. step \in [(1..n) \X S -> S]
        BY <1>1, <1>4
    <2>. HIDE DEF step
    <2>2. PICK it \in [SUBSET (1..n) -> S] : Folds_(it, n, NoMappings, step)
        BY <1>1, <1>3, <2>1, FoldExists
    <2>3. ASSUME NEW s \in SUBSET (1..n), s # {}
          PROVE  it[s] = mappingStep(it[s \ {Max(s)}], ms[Max(s)], kind, values)
        <3>1. Max(s) \in s
            BY <1>1, <2>3, MaxIsIn
        <3>2. <<Max(s), it[s \ {Max(s)}]>> \in (1..n) \X S
            BY <3>1
        <3>3. QED
            BY <2>2, <2>3, <3>2 DEF Folds_, step
    <2>4. Iter(it)
        BY <1>1, <2>2, <2>3 DEF Folds_
    <2>5. QED
        BY <2>4
<1>7. Iter(chosen)
    BY <1>6
<1>. HIDE DEF step, chosen
<1>8. chosen[1..0] = NoMappings /\ \A i \in 1..n : chosen[1..i] = mappingStep(chosen[1..(i - 1)], ms[i], kind, values)
    <2>1. ASSUME NEW i \in 1..n PROVE chosen[1..i] = mappingStep(chosen[1..(i - 1)], ms[i], kind, values)
        <3>1. 1..i \in SUBSET (1..n) /\ 1..i # {} /\ (1..i) \ {i} = 1..(i - 1) /\ Max(1..i) = i
            BY <1>1, UpTo
        <3>2. QED
            BY <1>1, <1>7, <3>1
    <2>2. 1..0 = {} /\ {} \in SUBSET (1..n)
        OBVIOUS
    <2>3. QED
        BY <1>1, <1>7, <2>1, <2>2
<1>9. 0 \in Typed
    BY <1>1, <1>3, <1>8
<1>10. ASSUME NEW i \in 1..n, i - 1 \in Typed PROVE i \in Typed
    BY <1>1, <1>4, <1>8, <1>10
<1>11. \A i \in 0..n : i \in Typed
    <2>. HIDE DEF Typed
    <2>1. QED
        BY <1>1, <1>9, <1>10, CountUp
<1>12. /\ run[0] = NoMappings /\ \A i \in 0..n : run[i] \in S
       /\ \A i \in 1..n : run[i] = mappingStep(run[i - 1], ms[i], kind, values)
       /\ createMappedOverrideSource(kind, values, ms) = run[n]
    BY <1>1, <1>5, <1>8, <1>11
<1>. HIDE DEF run
<1>13. QED
    BY <1>12 DEF n, S

LEMMA NoConflict ==
    ASSUME NEW U, NEW T \in SUBSET Seq(U), NEW p \in Seq(U), \A t \in T : ~overlap(t, p),
           NEW trie, trie.terminal \subseteq T, trie.first \subseteq UNION {prefixesOf(t) : t \in T}
    PROVE  conflictWith(trie, p) = "none" /\ p \notin T
<1>1. \A t \in T : (t \in prefixesOf(p) <=> isPathPrefix(t, p)) /\ (p \in prefixesOf(t) <=> isPathPrefix(p, t))
    BY PrefixesArePrefixes
<1>2. \A t \in T : t \notin prefixesOf(p) /\ p \notin prefixesOf(t)
    BY <1>1 DEF overlap
<1>3. p \notin trie.first
    BY <1>2
<1>4. p \notin T
    <2>1. isPathPrefix(p, p)
        BY DEF isPathPrefix
    <2>2. QED
        BY <2>1 DEF overlap
<1>5. QED
    BY <1>2, <1>3, <1>4 DEF conflictWith

(* Paths entered in the tree come from a list of targets. *)
Within(trie, T) == trie.terminal \subseteq T /\ trie.first \subseteq UNION {prefixesOf(t) : t \in T}

LEMMA PathWithin ==
    ASSUME NEW T, NEW trie, Within(trie, T), NEW p
    PROVE  Within(trie, T \cup {p}) /\ Within(addPath(trie, p), T \cup {p})
<1>1. UNION {prefixesOf(t) : t \in T \cup {p}} = (UNION {prefixesOf(t) : t \in T}) \cup prefixesOf(p)
    OBVIOUS
<1>2. Within(trie, T \cup {p})
    BY <1>1 DEF Within
<1>3. CASE conflictWith(trie, p) # "none"
    BY <1>2, <1>3 DEF addPath
<1>4. CASE conflictWith(trie, p) = "none"
    <2>1. addPath(trie, p) = [terminal |-> trie.terminal \cup {p}, first |-> trie.first \cup prefixesOf(p)]
        BY <1>4 DEF addPath
    <2>2. QED
        BY <1>1, <1>2, <2>1 DEF Within
<1>5. QED
    BY <1>3, <1>4

LEMMA CountOneMore ==
    ASSUME NEW S, IsFiniteSet(S), NEW x, x \notin S
    PROVE  IsFiniteSet(S \cup {x}) /\ Cardinality(S \cup {x}) = Cardinality(S) + 1 /\ Cardinality(S) \in Nat
BY FS_AddElement, FS_CardinalityType

setters(ms, values, i) == {j \in 1..i : setBy(ms[j], values)}
reported(ms, values, i) == {j \in 1..i : ~silentIn(ms[j], values) /\ ~setBy(ms[j], values)}
targets(ms, i) == {ms[j].target : j \in 1..i}

(* What the loop has done after its first i mappings. *)
Mapped(x, ms, values, i) ==
    /\ DOMAIN x.value = {ms[j].target : j \in setters(ms, values, i)}
    /\ \A j \in setters(ms, values, i) : x.value[ms[j].target] = parsedValue(values[ms[j].name], ms[j])
    /\ x.issues \in Seq(MappingCodes) /\ Len(x.issues) = Cardinality(reported(ms, values, i))
    /\ Within(x.trie, targets(ms, i))

LEMMA MappedNext ==
    ASSUME NEW ms, isList(ms), NEW kind, NEW values,
           \A j \in DOMAIN ms : isParsedMapping(ms[j]) /\ soundMapping(ms[j], kind),
           \A j, k \in DOMAIN ms : j # k => ~overlap(ms[j].target, ms[k].target),
           NEW i \in 1..Len(ms), NEW v, NEW c, NEW u, Mapped(state_(v, c, u), ms, values, i - 1)
    PROVE  Mapped(mappingStep(state_(v, c, u), ms[i], kind, values), ms, values, i)
<1>. DEFINE x == state_(v, c, u)
            q == ms[i]
            y == mappingStep(x, q, kind, values)
            old == targets(ms, i - 1)
            U == UNION {ToSet(ms[j].target) : j \in DOMAIN ms}
<1>1. DOMAIN ms = 1..Len(ms) /\ Len(ms) \in Nat
    BY DEF isList
<1>2. isParsedMapping(q) /\ soundMapping(q, kind) /\ q.kind = kind
    BY <1>1 DEF soundMapping
<1>3. /\ x.value = v /\ x.issues = c /\ x.trie = u
    BY StateParts
<1>4. /\ DOMAIN v = {ms[j].target : j \in setters(ms, values, i - 1)}
      /\ \A j \in setters(ms, values, i - 1) : v[ms[j].target] = parsedValue(values[ms[j].name], ms[j])
      /\ c \in Seq(MappingCodes) /\ Len(c) = Cardinality(reported(ms, values, i - 1))
      /\ Within(u, old)
    <2>. HIDE DEF old
    <2>1. QED
        BY <1>3 DEF Mapped, old
<1>5. conflictWith(u, q.target) = "none" /\ q.target \notin old
    <2>1. \A j \in 1..Len(ms) : ms[j].target \in Seq(U)
        <3>1. ASSUME NEW j \in 1..Len(ms) PROVE ms[j].target \in Seq(U)
            <4>1. ms[j].target \in Seq(ToSet(ms[j].target)) /\ ToSet(ms[j].target) \subseteq U
                BY <1>1 DEF isParsedMapping, isList
            <4>. HIDE DEF U
            <4>2. QED
                BY <4>1
        <3>2. QED
            BY <3>1
    <2>2. \A j \in 1..(i - 1) : j \in 1..Len(ms) /\ j # i
        BY <1>1
    <2>3. old \in SUBSET Seq(U) /\ q.target \in Seq(U)
        <3>. HIDE DEF U
        <3>1. QED
            BY <2>1, <2>2 DEF targets
    <2>4. \A t \in old : ~overlap(t, q.target)
        BY <1>1, <2>2 DEF targets
    <2>5. u.terminal \subseteq old /\ u.first \subseteq UNION {prefixesOf(t) : t \in old}
        BY <1>4 DEF Within
    <2>. HIDE DEF old, U
    <2>6. QED
        BY <2>3, <2>4, <2>5, NoConflict
<1>6. /\ silentIn(q, values) => y = x /\ ~setBy(q, values)
      /\ setBy(q, values) => y = applied_(v, c, u, q, values)
      /\ ~silentIn(q, values) /\ ~setBy(q, values) =>
            \E code \in MappingCodes, trie \in {u, addPath(u, q.target)} : y = state_(v, Append(c, code), trie)
    <2>1. y = applyMapping(x, q, values)
        BY <1>2 DEF mappingStep
    <2>. HIDE DEF y, x, q
    <2>2. QED
        BY <1>2, <1>5, <2>1, MappingApplied DEF x
<1>7. targets(ms, i) = old \cup {q.target}
    BY <1>1 DEF targets
<1>8. Within(u, targets(ms, i)) /\ Within(addPath(u, q.target), targets(ms, i))
    BY <1>4, <1>7, PathWithin
<1>9. IsFiniteSet(reported(ms, values, i - 1)) /\ i \notin reported(ms, values, i - 1)
    <2>1. IsFiniteSet(1..(i - 1)) /\ reported(ms, values, i - 1) \subseteq 1..(i - 1)
        BY <1>1, FS_Interval DEF reported
    <2>2. QED
        BY <1>1, <2>1, FS_Subset
<1>10. /\ setters(ms, values, i) = IF setBy(q, values) THEN setters(ms, values, i - 1) \cup {i} ELSE setters(ms, values, i - 1)
       /\ reported(ms, values, i) = IF ~silentIn(q, values) /\ ~setBy(q, values) THEN reported(ms, values, i - 1) \cup {i}
                                    ELSE reported(ms, values, i - 1)
    BY <1>1 DEF setters, reported
<1>. HIDE DEF y
<1>11. ASSUME silentIn(q, values) PROVE Mapped(y, ms, values, i)
    <2>1. y.value = v /\ y.issues = c /\ y.trie = u
        BY <1>3, <1>6, <1>11
    <2>2. setters(ms, values, i) = setters(ms, values, i - 1) /\ reported(ms, values, i) = reported(ms, values, i - 1)
        BY <1>6, <1>10, <1>11
    <2>3. QED
        BY <1>4, <1>8, <2>1, <2>2 DEF Mapped
<1>12. ASSUME setBy(q, values) PROVE Mapped(y, ms, values, i)
    <2>. DEFINE w == parsedValue(values[q.name], q)
    <2>1. y.value = put(v, q.target, w) /\ y.issues = c /\ y.trie = addPath(u, q.target)
        BY <1>6, <1>12, StateParts DEF applied_
    <2>2. DOMAIN y.value = {ms[j].target : j \in setters(ms, values, i)}
        BY <1>4, <1>10, <1>12, <2>1 DEF put
    <2>3. ASSUME NEW j \in setters(ms, values, i) PROVE y.value[ms[j].target] = parsedValue(values[ms[j].name], ms[j])
        <3>1. CASE j = i
            BY <2>1, <3>1 DEF put
        <3>2. CASE j \in setters(ms, values, i - 1)
            <4>1. ms[j].target \in old
                BY <3>2 DEF setters, targets
            <4>2. ms[j].target \in DOMAIN v /\ ms[j].target # q.target
                BY <1>4, <1>5, <3>2, <4>1
            <4>3. QED
                BY <1>4, <2>1, <3>2, <4>2 DEF put
        <3>3. QED
            BY <1>10, <1>12, <3>1, <3>2
    <2>4. reported(ms, values, i) = reported(ms, values, i - 1)
        BY <1>6, <1>10, <1>12
    <2>5. QED
        BY <1>4, <1>8, <2>1, <2>2, <2>3, <2>4 DEF Mapped
<1>13. ASSUME ~silentIn(q, values) /\ ~setBy(q, values) PROVE Mapped(y, ms, values, i)
    <2>1. PICK code \in MappingCodes, trie \in {u, addPath(u, q.target)} : y = state_(v, Append(c, code), trie)
        BY <1>6, <1>13
    <2>2. y.value = v /\ y.issues = Append(c, code) /\ y.trie = trie
        BY <2>1, StateParts
    <2>3. reported(ms, values, i) = reported(ms, values, i - 1) \cup {i} /\ setters(ms, values, i) = setters(ms, values, i - 1)
        BY <1>10, <1>13
    <2>4. y.issues \in Seq(MappingCodes) /\ Len(y.issues) = Cardinality(reported(ms, values, i))
        <3>1. Cardinality(reported(ms, values, i)) = Cardinality(reported(ms, values, i - 1)) + 1
            BY <1>9, <2>3, CountOneMore
        <3>2. QED
            BY <1>4, <2>2, <3>1
    <2>5. Within(y.trie, targets(ms, i))
        BY <1>8, <2>1, <2>2
    <2>6. QED
        BY <1>4, <2>2, <2>3, <2>4, <2>5 DEF Mapped
<1>14. QED
    BY <1>11, <1>12, <1>13 DEF y

(* The mappings of a sound source set the targets of those that have a text, and *)
(* each of the others is ignored or reported once.                               *)
LEMMA MappingsExact ==
    ASSUME NEW ms, isList(ms), NEW kind, NEW values,
           \A j \in DOMAIN ms : isParsedMapping(ms[j]) /\ soundMapping(ms[j], kind),
           \A j, k \in DOMAIN ms : j # k => ~overlap(ms[j].target, ms[k].target)
    PROVE  Mapped(createMappedOverrideSource(kind, values, ms), ms, values, Len(ms))
<1>. DEFINE n == Len(ms)
<1>1. n \in Nat /\ DOMAIN ms = 1..n
    BY DEF isList
<1>2. PICK run, T, W, P :
              /\ run[0] = NoMappings /\ \A i \in 0..n : run[i] \in Applying(T, W, P)
              /\ \A i \in 1..n : run[i] = mappingStep(run[i - 1], ms[i], kind, values)
              /\ createMappedOverrideSource(kind, values, ms) = run[n]
    BY MappingsRun
<1>. DEFINE Good == {i \in 0..n : Mapped(run[i], ms, values, i)}
<1>3. 0 \in Good
    <2>1. setters(ms, values, 0) = {} /\ reported(ms, values, 0) = {} /\ targets(ms, 0) = {}
        BY DEF setters, reported, targets
    <2>2. run[0].value = << >> /\ run[0].issues = << >> /\ run[0].trie.terminal = {} /\ run[0].trie.first = {}
        BY <1>2 DEF NoMappings, emptyTrie
    <2>3. Len(run[0].issues) = Cardinality(reported(ms, values, 0)) /\ run[0].issues \in Seq(MappingCodes)
        BY <2>1, <2>2, FS_EmptySet
    <2>4. DOMAIN run[0].value = {}
        BY <2>2
    <2>5. Within(run[0].trie, targets(ms, 0))
        BY <2>1, <2>2 DEF Within
    <2>6. Mapped(run[0], ms, values, 0)
        BY <2>1, <2>3, <2>4, <2>5 DEF Mapped
    <2>7. QED
        BY <1>1, <2>6
<1>4. ASSUME NEW i \in 1..n, i - 1 \in Good PROVE i \in Good
    <2>1. i \in 0..n /\ i - 1 \in 0..n
        BY <1>1
    <2>2. PICK v, c, u : run[i - 1] = state_(v, c, u)
        BY <1>2, <2>1 DEF Applying, state_
    <2>3. Mapped(state_(v, c, u), ms, values, i - 1)
        BY <1>4, <2>2
    <2>4. Mapped(mappingStep(state_(v, c, u), ms[i], kind, values), ms, values, i)
        <3>. HIDE DEF Good
        <3>1. QED
            BY <2>3, MappedNext
    <2>5. run[i] = mappingStep(state_(v, c, u), ms[i], kind, values)
        BY <1>2, <2>2
    <2>6. QED
        BY <2>1, <2>4, <2>5
<1>5. n \in Good
    <2>. HIDE DEF Good
    <2>1. \A i \in 0..n : i \in Good
        BY <1>1, <1>3, <1>4, CountUp
    <2>2. QED
        BY <1>1, <2>1
<1>6. QED
    BY <1>2, <1>5

-----------------------------------------------------------------------------
(***************************************************************************)
(* The scan of the arguments.                                              *)
(***************************************************************************)

(* Which arguments are taken as values, each told by the one before it. *)
LEMMA TakenExact ==
    ASSUME NEW argv, isList(argv), NEW names
    PROVE  \A i \in 0..Len(argv) :
              /\ takenIn(argv, names)[i] \in BOOLEAN
              /\ takenIn(argv, names)[i] <=>
                    i > 1 /\ ~takenIn(argv, names)[i - 1] /\ argv[i - 1] \in names /\ argv[i] \in ValueTokens
<1>. DEFINE n == Len(argv)
            value == valueOf(argv, names)
            isTaken(t, k) == t = [i \in 0..k |-> i > 1 /\ ~t[i - 1] /\ value[i]]
            Good == {k \in 0..n : \E t : isTaken(t, k)}
            taken == takenIn(argv, names)
<1>0. n \in Nat
    BY DEF isList
<1>1. \A i \in 1..n : value[i] = (i > 1 /\ argv[i - 1] \in names /\ argv[i] \in ValueTokens)
    BY DEF valueOf
<1>2. 0 \in Good
    <2>. DEFINE t == [i \in 0..0 |-> FALSE]
    <2>1. \A i \in 0..0 : (i > 1 /\ ~t[i - 1] /\ value[i]) = FALSE
        <3>. HIDE DEF value, t
        <3>1. QED
            OBVIOUS
    <2>2. t = [i \in 0..0 |-> i > 1 /\ ~t[i - 1] /\ value[i]]
        <3>1. [i \in 0..0 |-> i > 1 /\ ~t[i - 1] /\ value[i]] = [i \in 0..0 |-> FALSE]
            <4>. HIDE DEF value, t
            <4>1. QED
                BY <2>1
        <3>2. QED
            BY <3>1
    <2>. HIDE DEF t, value
    <2>3. QED
        BY <1>0, <2>2
<1>3. ASSUME NEW k \in 1..n, k - 1 \in Good PROVE k \in Good
    <2>1. PICK t : isTaken(t, k - 1)
        BY <1>3
    <2>. DEFINE more == [i \in 0..k |-> IF i = k THEN k > 1 /\ ~t[k - 1] /\ value[k] ELSE t[i]]
    <2>2. ASSUME NEW i \in 0..k PROVE more[i] = (i > 1 /\ ~more[i - 1] /\ value[i])
        <3>1. CASE i = k
            <4>1. k > 1 => more[k - 1] = t[k - 1]
                OBVIOUS
            <4>2. QED
                BY <3>1, <4>1
        <3>2. CASE i # k
            <4>1. i \in 0..(k - 1) /\ (i > 1 => more[i - 1] = t[i - 1])
                BY <3>2
            <4>2. t[i] = (i > 1 /\ ~t[i - 1] /\ value[i])
                <5>. HIDE DEF value
                <5>1. QED
                    BY <2>1, <4>1
            <4>3. more[i] = t[i]
                BY <3>2
            <4>4. CASE i > 1
                <5>. HIDE DEF value, more
                <5>1. QED
                    BY <4>1, <4>2, <4>3, <4>4
            <4>5. CASE ~(i > 1)
                <5>. HIDE DEF value, more
                <5>1. QED
                    BY <4>2, <4>3, <4>5
            <4>6. QED
                BY <4>4, <4>5
        <3>3. QED
            BY <3>1, <3>2
    <2>3. isTaken(more, k)
        <3>1. more = [i \in 0..k |-> more[i]]
            OBVIOUS
        <3>. HIDE DEF value, more
        <3>2. [i \in 0..k |-> more[i]] = [i \in 0..k |-> i > 1 /\ ~more[i - 1] /\ value[i]]
            BY <2>2
        <3>3. QED
            BY <3>1, <3>2
    <2>. HIDE DEF isTaken, more
    <2>4. QED
        BY <1>0, <2>3
<1>4. \E t : isTaken(t, n)
    <2>. HIDE DEF isTaken
    <2>1. \A k \in 0..n : k \in Good
        <3>. HIDE DEF Good
        <3>1. QED
            BY <1>0, <1>2, <1>3, CountUp
    <2>2. QED
        BY <1>0, <2>1
<1>5. isTaken(taken, n)
    <2>1. taken = CHOOSE t : isTaken(t, n)
        BY DEF takenIn
    <2>. HIDE DEF taken, isTaken
    <2>2. QED
        BY <1>4, <2>1
<1>. HIDE DEF taken, value
<1>6. \A i \in 0..n : taken[i] = (i > 1 /\ ~taken[i - 1] /\ value[i])
    BY <1>0, <1>5
<1>7. \A i \in 0..n : i > 1 => i \in 1..n
    BY <1>0
<1>8. QED
    BY <1>1, <1>6, <1>7 DEF taken

placesOf(argv, names, m, i) == {j \in occurrences(argv, names, m) : j <= i}

(* What is known of a name from the places where it was seen. *)
Observed(o, where, argv, names) ==
    /\ o.matchCount = Cardinality(where)
    /\ o.hasInvalidMatch <=> \E j \in where : textAt(argv, names, j) = "none"
    /\ \A j \in where : where = {j} /\ textAt(argv, names, j) # "none" => o.value = textAt(argv, names, j)
ObservedAll(obs, argv, names, i) ==
    /\ DOMAIN obs = {m \in names : placesOf(argv, names, m, i) # {}}
    /\ \A m \in DOMAIN obs : Observed(obs[m], placesOf(argv, names, m, i), argv, names)

LEMMA SeenNext ==
    ASSUME NEW argv, isList(argv), NEW names, NEW m, NEW i \in 1..Len(argv)
    PROVE  /\ i \notin placesOf(argv, names, m, i - 1) /\ IsFiniteSet(placesOf(argv, names, m, i - 1))
           /\ i \in occurrences(argv, names, m) => placesOf(argv, names, m, i) = placesOf(argv, names, m, i - 1) \cup {i}
           /\ i \notin occurrences(argv, names, m) => placesOf(argv, names, m, i) = placesOf(argv, names, m, i - 1)
<1>1. Len(argv) \in Nat
    BY DEF isList
<1>2. occurrences(argv, names, m) \subseteq 1..Len(argv)
    BY DEF occurrences
<1>3. IsFiniteSet(placesOf(argv, names, m, i - 1))
    <2>1. placesOf(argv, names, m, i - 1) \subseteq 1..Len(argv)
        BY <1>2 DEF placesOf
    <2>2. IsFiniteSet(1..Len(argv))
        BY <1>1, FS_Interval
    <2>3. QED
        BY <2>1, <2>2, FS_Subset
<1>4. QED
    BY <1>1, <1>2, <1>3 DEF placesOf

LEMMA ObservationAdded ==
    ASSUME NEW argv, isList(argv), NEW names, NEW i \in 1..Len(argv), NEW m0 \in names, NEW hasText \in BOOLEAN, NEW text,
           \A m \in names : i \in occurrences(argv, names, m) <=> m = m0,
           textAt(argv, names, i) = IF hasText THEN text ELSE "none", hasText => text # "none",
           NEW obs, ObservedAll(obs, argv, names, i - 1)
    PROVE  ObservedAll(recordArgObservation(obs, m0, hasText, text), argv, names, i)
<1>. DEFINE old == IF m0 \in DOMAIN obs THEN obs[m0] ELSE [matchCount |-> 0, hasInvalidMatch |-> FALSE, value |-> Blank]
            new == [matchCount |-> old.matchCount + 1, hasInvalidMatch |-> old.hasInvalidMatch \/ ~hasText,
                    value |-> IF hasText THEN text ELSE old.value]
            next == recordArgObservation(obs, m0, hasText, text)
            before == placesOf(argv, names, m0, i - 1)
            now == placesOf(argv, names, m0, i)
<1>1. next = put(obs, m0, new)
    BY DEF recordArgObservation
<1>2. now = before \cup {i} /\ i \notin before /\ IsFiniteSet(before)
    BY SeenNext
<1>3. Cardinality(now) = Cardinality(before) + 1 /\ Cardinality(before) \in Nat
    BY <1>2, CountOneMore
<1>4. \A m \in names \ {m0} : placesOf(argv, names, m, i) = placesOf(argv, names, m, i - 1)
    BY SeenNext
<1>5. /\ DOMAIN obs = {m \in names : placesOf(argv, names, m, i - 1) # {}}
      /\ \A m \in DOMAIN obs : Observed(obs[m], placesOf(argv, names, m, i - 1), argv, names)
    BY DEF ObservedAll
<1>6. /\ old.matchCount = Cardinality(before)
      /\ old.hasInvalidMatch <=> \E j \in before : textAt(argv, names, j) = "none"
    <2>1. CASE m0 \in DOMAIN obs
        BY <1>5, <2>1 DEF Observed
    <2>2. CASE m0 \notin DOMAIN obs
        <3>1. before = {}
            BY <1>5, <2>2
        <3>2. QED
            BY <2>2, <3>1, FS_EmptySet
    <2>3. QED
        BY <2>1, <2>2
<1>. HIDE DEF old, before, now
<1>7. Observed(new, now, argv, names)
    <2>1. new.matchCount = Cardinality(now)
        BY <1>3, <1>6
    <2>2. new.hasInvalidMatch <=> \E j \in now : textAt(argv, names, j) = "none"
        BY <1>2, <1>6
    <2>3. ASSUME NEW j \in now, now = {j}, textAt(argv, names, j) # "none" PROVE new.value = textAt(argv, names, j)
        <3>1. j = i
            BY <1>2, <2>3
        <3>2. QED
            BY <2>3, <3>1
    <2>4. QED
        BY <2>1, <2>2, <2>3 DEF Observed
<1>. HIDE DEF new
<1>8. DOMAIN next = {m \in names : placesOf(argv, names, m, i) # {}}
    BY <1>1, <1>2, <1>4, <1>5 DEF put, now
<1>9. ASSUME NEW m \in DOMAIN next PROVE Observed(next[m], placesOf(argv, names, m, i), argv, names)
    <2>1. CASE m = m0
        BY <1>1, <1>7, <2>1 DEF put, now
    <2>2. CASE m # m0
        <3>1. m \in DOMAIN obs /\ next[m] = obs[m] /\ m \in names \ {m0}
            BY <1>1, <1>8, <2>2 DEF put
        <3>2. QED
            BY <1>4, <1>5, <3>1
    <2>3. QED
        BY <2>1, <2>2
<1>10. QED
    BY <1>8, <1>9 DEF ObservedAll

scan_(taken, observations, unmapped) == [taken |-> taken, observations |-> observations, unmapped |-> unmapped]
valueFollows(argv, i) == i < Len(argv) /\ argv[i + 1] \in ValueTokens

LEMMA ScanParts ==
    ASSUME NEW x, NEW t, NEW o, NEW u, x = scan_(t, o, u)
    PROVE  x.taken = t /\ x.observations = o /\ x.unmapped = u
BY DEF scan_

afterToken(t, o, u, i, argv, names) ==
    LET follows == valueFollows(argv, i)
    IN  IF t = i THEN scan_(t, o, u)
        ELSE IF argv[i] \in names
        THEN scan_(IF follows THEN i + 1 ELSE t, recordArgObservation(o, argv[i], follows, IF follows THEN argv[i + 1] ELSE Blank), u)
        ELSE IF matchAssignmentPrefixes(names, argv[i])
        THEN scan_(t, recordArgObservation(o, Assigned[argv[i]].name, TRUE, Assigned[argv[i]].value), u)
        ELSE scan_(t, o, u \cup {i})

LEMMA TokenForm ==
    ASSUME NEW x, NEW t, NEW o, NEW u, x = scan_(t, o, u), NEW i, NEW argv, NEW names
    PROVE  scanToken(x, i, argv, names) = afterToken(t, o, u, i, argv, names)
<1>. DEFINE follows == valueFollows(argv, i)
            isNamed == recordArgObservation(o, argv[i], follows, IF follows THEN argv[i + 1] ELSE Blank)
            assigned == recordArgObservation(o, Assigned[argv[i]].name, TRUE, Assigned[argv[i]].value)
<1>1. x.taken = t /\ x.observations = o /\ x.unmapped = u
    BY ScanParts
<1>2. ASSUME NEW a, NEW b PROVE [x EXCEPT !.taken = a, !.observations = b] = scan_(a, b, u)
    <2>. DEFINE y == [x EXCEPT !.taken = a]
    <2>1. y = scan_(a, o, u)
        BY DEF scan_
    <2>2. [x EXCEPT !.taken = a, !.observations = b] = [y EXCEPT !.observations = b]
        OBVIOUS
    <2>. HIDE DEF y
    <2>3. [y EXCEPT !.observations = b] = scan_(a, b, u)
        BY <2>1 DEF scan_
    <2>4. QED
        BY <2>2, <2>3
<1>3. \A b : [x EXCEPT !.observations = b] = scan_(t, b, u)
    BY DEF scan_
<1>4. \A c : [x EXCEPT !.unmapped = c] = scan_(t, o, c)
    BY DEF scan_
<1>5. scanToken(x, i, argv, names) =
         IF t = i THEN x
         ELSE IF argv[i] \in names THEN [x EXCEPT !.taken = IF follows THEN i + 1 ELSE t, !.observations = isNamed]
         ELSE IF matchAssignmentPrefixes(names, argv[i]) THEN [x EXCEPT !.observations = assigned]
         ELSE [x EXCEPT !.unmapped = u \cup {i}]
    BY <1>1 DEF scanToken, valueFollows
<1>. HIDE DEF follows, isNamed, assigned
<1>6. QED
    BY <1>2, <1>3, <1>4, <1>5 DEF follows, isNamed, assigned, afterToken

Sightings(X) == [matchCount : Nat, hasInvalidMatch : BOOLEAN, value : X]
Scans(N, X) == [taken : Nat, observations : Texts_(N, Sightings(X)), unmapped : SUBSET Nat]

LEMMA ObservationType ==
    ASSUME NEW N, NEW X, Blank \in X, NEW obs \in Texts_(N, Sightings(X)), NEW m \in N, NEW hasText \in BOOLEAN, NEW text \in X
    PROVE  recordArgObservation(obs, m, hasText, text) \in Texts_(N, Sightings(X))
<1>. DEFINE old == IF m \in DOMAIN obs THEN obs[m] ELSE [matchCount |-> 0, hasInvalidMatch |-> FALSE, value |-> Blank]
            new == [matchCount |-> old.matchCount + 1, hasInvalidMatch |-> old.hasInvalidMatch \/ ~hasText,
                    value |-> IF hasText THEN text ELSE old.value]
<1>1. old \in Sightings(X)
    <2>1. m \in DOMAIN obs => obs[m] \in Sightings(X)
        BY DEF Texts_
    <2>2. [matchCount |-> 0, hasInvalidMatch |-> FALSE, value |-> Blank] \in Sightings(X)
        BY DEF Sightings
    <2>3. QED
        BY <2>1, <2>2
<1>2. recordArgObservation(obs, m, hasText, text) = put(obs, m, new)
    BY DEF recordArgObservation
<1>. HIDE DEF old
<1>3. new \in Sightings(X)
    BY <1>1 DEF Sightings
<1>. HIDE DEF new
<1>4. QED
    BY <1>2, <1>3, PutOne

LEMMA TokenType ==
    ASSUME NEW argv, isList(argv), NEW names, NEW X, Blank \in X, ToSet(argv) \subseteq X,
           \A a \in DOMAIN Assigned : Assigned[a].value \in X,
           NEW x \in Scans(names, X), NEW i \in 1..Len(argv)
    PROVE  scanToken(x, i, argv, names) \in Scans(names, X)
<1>1. PICK t \in Nat, o \in Texts_(names, Sightings(X)), u \in SUBSET Nat : x = scan_(t, o, u)
    BY DEF Scans, scan_
<1>. DEFINE follows == valueFollows(argv, i)
            isNamed == recordArgObservation(o, argv[i], follows, IF follows THEN argv[i + 1] ELSE Blank)
            assigned == recordArgObservation(o, Assigned[argv[i]].name, TRUE, Assigned[argv[i]].value)
<1>2. \A a \in Nat, b \in Texts_(names, Sightings(X)), c \in SUBSET Nat : scan_(a, b, c) \in Scans(names, X)
    BY DEF Scans, scan_
<1>3. i \in Nat /\ i + 1 \in Nat
    BY DEF isList
<1>4. ASSUME argv[i] \in names PROVE isNamed \in Texts_(names, Sightings(X))
    <2>1. follows \in BOOLEAN
        BY DEF valueFollows
    <2>2. follows => argv[i + 1] \in X
        BY DEF valueFollows, isList, ToSet
    <2>. HIDE DEF follows
    <2>3. QED
        BY <1>4, <2>1, <2>2, ObservationType
<1>5. ASSUME matchAssignmentPrefixes(names, argv[i]) PROVE assigned \in Texts_(names, Sightings(X))
    BY <1>5, ObservationType DEF matchAssignmentPrefixes
<1>6. scanToken(x, i, argv, names) =
         IF t = i THEN scan_(t, o, u)
         ELSE IF argv[i] \in names THEN scan_(IF follows THEN i + 1 ELSE t, isNamed, u)
         ELSE IF matchAssignmentPrefixes(names, argv[i]) THEN scan_(t, assigned, u)
         ELSE scan_(t, o, u \cup {i})
    <2>1. scanToken(x, i, argv, names) = afterToken(t, o, u, i, argv, names)
        BY <1>1, TokenForm
    <2>2. QED
        BY <2>1 DEF afterToken
<1>. HIDE DEF follows, isNamed, assigned
<1>7. u \cup {i} \in SUBSET Nat /\ (IF follows THEN i + 1 ELSE t) \in Nat
    BY <1>3
<1>8. QED
    BY <1>2, <1>4, <1>5, <1>6, <1>7

NoTokens == [taken |-> 0, observations |-> << >>, unmapped |-> {}]

(* The tokens scanned one after the other. *)
LEMMA ScanRun ==
    ASSUME NEW argv, isList(argv), NEW names
    PROVE  \E run, X :
              /\ run[0] = NoTokens /\ \A i \in 0..Len(argv) : run[i] \in Scans(names, X)
              /\ \A i \in 1..Len(argv) : run[i] = scanToken(run[i - 1], i, argv, names)
              /\ scanArgv(argv, names) = run[Len(argv)]
<1>. DEFINE n == Len(argv)
            X == ToSet(argv) \cup {Assigned[a].value : a \in DOMAIN Assigned} \cup {Blank}
            S == Scans(names, X)
            where == [i \in DOMAIN argv |-> i]
<1>1. n \in Nat /\ DOMAIN argv = 1..n
    BY DEF isList
<1>2. Blank \in X /\ ToSet(argv) \subseteq X /\ \A a \in DOMAIN Assigned : Assigned[a].value \in X
    OBVIOUS
<1>. HIDE DEF X
<1>3. NoTokens \in S
    <2>1. << >> \in Texts_(names, Sightings(X))
        <3>1. << >> \in [{} -> Sightings(X)]
            OBVIOUS
        <3>2. QED
            BY <3>1 DEF Texts_
    <2>2. QED
        BY <2>1 DEF NoTokens, Scans
<1>. HIDE DEF n
<1>4. ASSUME NEW i \in 1..n, NEW x \in S PROVE scanToken(x, i, argv, names) \in S
    BY <1>2, TokenType DEF n
<1>. HIDE DEF S
<1>. DEFINE Iter(it) == it = [s \in SUBSET (DOMAIN where) |-> IF s = {} THEN NoTokens ELSE scanToken(it[s \ {Max(s)}], where[Max(s)], argv, names)]
            step == [p \in (1..n) \X S |-> scanToken(p[2], p[1], argv, names)]
            chosen == CHOOSE it : Iter(it)
            run == [i \in 0..n |-> chosen[1..i]]
            Typed == {i \in 0..n : chosen[1..i] \in S}
<1>5. scanArgv(argv, names) = chosen[DOMAIN where]
    BY DEF scanArgv, FoldLeftDomain, FoldLeft, MapThenFoldSet, NoTokens
<1>6. DOMAIN where = 1..n /\ \A i \in 1..n : where[i] = i
    BY <1>1
<1>. HIDE DEF where
<1>7. \E it : Iter(it)
    <2>1. step \in [(1..n) \X S -> S]
        BY <1>1, <1>4
    <2>. HIDE DEF step
    <2>2. PICK it \in [SUBSET (1..n) -> S] : Folds_(it, n, NoTokens, step)
        BY <1>1, <1>3, <2>1, FoldExists
    <2>3. ASSUME NEW s \in SUBSET (1..n), s # {}
          PROVE  it[s] = scanToken(it[s \ {Max(s)}], where[Max(s)], argv, names)
        <3>1. Max(s) \in s
            BY <1>1, <2>3, MaxIsIn
        <3>2. <<Max(s), it[s \ {Max(s)}]>> \in (1..n) \X S /\ where[Max(s)] = Max(s)
            BY <1>6, <3>1
        <3>3. QED
            BY <2>2, <2>3, <3>2 DEF Folds_, step
    <2>4. Iter(it)
        BY <1>6, <2>2, <2>3 DEF Folds_
    <2>5. QED
        BY <2>4
<1>8. \A s \in SUBSET (1..n) : chosen[s] = IF s = {} THEN NoTokens ELSE scanToken(chosen[s \ {Max(s)}], where[Max(s)], argv, names)
    <2>1. Iter(chosen)
        BY <1>7
    <2>. HIDE DEF chosen
    <2>2. QED
        BY <1>6, <2>1
<1>. HIDE DEF step, chosen
<1>9. chosen[1..0] = NoTokens /\ \A i \in 1..n : chosen[1..i] = scanToken(chosen[1..(i - 1)], i, argv, names)
    <2>1. ASSUME NEW i \in 1..n PROVE chosen[1..i] = scanToken(chosen[1..(i - 1)], i, argv, names)
        <3>1. 1..i \in SUBSET (1..n) /\ 1..i # {} /\ (1..i) \ {i} = 1..(i - 1) /\ Max(1..i) = i
            BY <1>1, UpTo
        <3>2. chosen[1..i] = scanToken(chosen[(1..i) \ {i}], where[i], argv, names)
            BY <1>8, <3>1
        <3>3. QED
            BY <1>6, <3>1, <3>2
    <2>2. 1..0 = {} /\ {} \in SUBSET (1..n)
        OBVIOUS
    <2>3. QED
        BY <1>6, <1>8, <2>1, <2>2
<1>10. 0 \in Typed
    BY <1>1, <1>3, <1>9
<1>11. ASSUME NEW i \in 1..n, i - 1 \in Typed PROVE i \in Typed
    BY <1>1, <1>4, <1>9, <1>11
<1>12. \A i \in 0..n : i \in Typed
    <2>. HIDE DEF Typed
    <2>1. QED
        BY <1>1, <1>10, <1>11, CountUp
<1>13. /\ run[0] = NoTokens /\ \A i \in 0..n : run[i] \in S
       /\ \A i \in 1..n : run[i] = scanToken(run[i - 1], i, argv, names)
       /\ scanArgv(argv, names) = run[n]
    BY <1>1, <1>5, <1>6, <1>9, <1>12
<1>. HIDE DEF run
<1>14. QED
    BY <1>13 DEF n, S

unseen(argv, names, i) == {j \in 1..i : ~takenIn(argv, names)[j] /\ \A m \in names : j \notin occurrences(argv, names, m)}

(* What the scan knows after its first i arguments. *)
Scanned(x, argv, names, i) ==
    /\ x.taken \in 0..(i + 1)
    /\ i < Len(argv) => (x.taken = i + 1 <=> takenIn(argv, names)[i + 1])
    /\ ObservedAll(x.observations, argv, names, i)
    /\ x.unmapped = unseen(argv, names, i)

LEMMA ScannedNext ==
    ASSUME NEW argv, isList(argv), "none" \notin ToSet(argv), NEW names,
           \A a \in DOMAIN Assigned : a \notin names /\ Assigned[a].value # "none",
           NEW i \in 1..Len(argv), NEW t, NEW o, NEW u, Scanned(scan_(t, o, u), argv, names, i - 1)
    PROVE  Scanned(afterToken(t, o, u, i, argv, names), argv, names, i)
<1>. DEFINE n == Len(argv)
            taken == takenIn(argv, names)
            token == argv[i]
            follows == valueFollows(argv, i)
            y == afterToken(t, o, u, i, argv, names)
<1>1. n \in Nat /\ DOMAIN argv = 1..n /\ i \in 1..n
    BY DEF isList
<1>2. /\ t \in 0..i /\ (t = i <=> taken[i])
      /\ ObservedAll(o, argv, names, i - 1) /\ u = unseen(argv, names, i - 1)
    <2>1. scan_(t, o, u).taken = t /\ scan_(t, o, u).observations = o /\ scan_(t, o, u).unmapped = u
        BY ScanParts
    <2>2. i - 1 < n /\ (i - 1) + 1 = i
        BY <1>1
    <2>. HIDE DEF taken
    <2>3. QED
        BY <2>1, <2>2 DEF Scanned, taken
<1>3. /\ taken[i] \in BOOLEAN
      /\ i < n => (taken[i + 1] <=> ~taken[i] /\ token \in names /\ argv[i + 1] \in ValueTokens)
    <2>1. taken[i] \in BOOLEAN
        BY <1>1, TakenExact
    <2>2. ASSUME i < n PROVE taken[i + 1] <=> ~taken[i] /\ token \in names /\ argv[i + 1] \in ValueTokens
        <3>1. i + 1 \in 0..n /\ i + 1 > 1 /\ (i + 1) - 1 = i
            BY <1>1, <2>2
        <3>2. taken[i + 1] <=> i + 1 > 1 /\ ~taken[(i + 1) - 1] /\ argv[(i + 1) - 1] \in names /\ argv[i + 1] \in ValueTokens
            BY <3>1, TakenExact
        <3>3. QED
            BY <3>1, <3>2
    <2>3. QED
        BY <2>1, <2>2
<1>4. \A m : i \in occurrences(argv, names, m) <=>
                 ~taken[i] /\ (token = m \/ (token \in DOMAIN Assigned /\ Assigned[token].name = m))
    BY <1>1 DEF occurrences
<1>5. unseen(argv, names, i) = IF ~taken[i] /\ \A m \in names : i \notin occurrences(argv, names, m)
                               THEN unseen(argv, names, i - 1) \cup {i} ELSE unseen(argv, names, i - 1)
    BY <1>1 DEF unseen
<1>6. ASSUME \A m \in names : i \notin occurrences(argv, names, m) PROVE ObservedAll(o, argv, names, i)
    <2>1. \A m \in names : placesOf(argv, names, m, i) = placesOf(argv, names, m, i - 1)
        BY <1>6, SeenNext
    <2>2. QED
        BY <1>2, <2>1 DEF ObservedAll
<1>7. y = IF t = i THEN scan_(t, o, u)
          ELSE IF token \in names
          THEN scan_(IF follows THEN i + 1 ELSE t, recordArgObservation(o, token, follows, IF follows THEN argv[i + 1] ELSE Blank), u)
          ELSE IF matchAssignmentPrefixes(names, token)
          THEN scan_(t, recordArgObservation(o, Assigned[token].name, TRUE, Assigned[token].value), u)
          ELSE scan_(t, o, u \cup {i})
    BY DEF afterToken
<1>8. follows <=> i < n /\ argv[i + 1] \in ValueTokens
    BY DEF valueFollows
<1>9. \A a, b, c : /\ a \in 0..(i + 1) /\ (i < n => (a = i + 1 <=> taken[i + 1]))
                   /\ ObservedAll(b, argv, names, i) /\ c = unseen(argv, names, i)
                   => Scanned(scan_(a, b, c), argv, names, i)
    BY ScanParts DEF Scanned
<1>10. textAt(argv, names, i) = IF token \in names THEN IF i < n /\ taken[i + 1] THEN argv[i + 1] ELSE "none" ELSE Assigned[token].value
    BY DEF textAt
<1>. HIDE DEF y, taken, follows, token
<1>11. CASE taken[i]
    <2>1. y = scan_(t, o, u) /\ t \in 0..(i + 1) /\ t # i + 1
        BY <1>1, <1>2, <1>7, <1>11
    <2>2. \A m \in names : i \notin occurrences(argv, names, m)
        BY <1>4, <1>11
    <2>3. Scanned(y, argv, names, i)
        BY <1>2, <1>3, <1>5, <1>6, <1>9, <1>11, <2>1, <2>2
    <2>4. QED
        BY <2>3 DEF y
<1>12. CASE ~taken[i] /\ token \in names
    <2>. DEFINE text == IF follows THEN argv[i + 1] ELSE Blank
                b == recordArgObservation(o, token, follows, text)
    <2>1. \A m \in names : i \in occurrences(argv, names, m) <=> m = token
        BY <1>4, <1>12
    <2>2. i < n => (taken[i + 1] <=> follows)
        BY <1>3, <1>8, <1>12
    <2>3. follows => text # "none"
        BY <1>1, <1>8 DEF ToSet
    <2>4. textAt(argv, names, i) = IF follows THEN text ELSE "none"
        BY <1>8, <1>10, <1>12, <2>2
    <2>5. follows \in BOOLEAN
        BY DEF follows, valueFollows
    <2>6. ObservedAll(b, argv, names, i)
        <3>. HIDE DEF text
        <3>1. QED
            BY <1>2, <1>12, <2>1, <2>3, <2>4, <2>5, ObservationAdded
    <2>. HIDE DEF b
    <2>7. y = scan_(IF follows THEN i + 1 ELSE t, b, u)
        BY <1>2, <1>7, <1>12 DEF b
    <2>8. unseen(argv, names, i) = u
        BY <1>2, <1>5, <1>12, <2>1
    <2>9. (IF follows THEN i + 1 ELSE t) \in 0..(i + 1) /\ (i < n => ((IF follows THEN i + 1 ELSE t) = i + 1 <=> taken[i + 1]))
        BY <1>1, <1>2, <2>2
    <2>10. Scanned(y, argv, names, i)
        BY <1>9, <2>6, <2>7, <2>8, <2>9
    <2>11. QED
        BY <2>10 DEF y
<1>13. CASE ~taken[i] /\ token \notin names /\ matchAssignmentPrefixes(names, token)
    <2>. DEFINE m0 == Assigned[token].name
                text == Assigned[token].value
                b == recordArgObservation(o, m0, TRUE, text)
    <2>1. token \in DOMAIN Assigned /\ m0 \in names
        BY <1>13 DEF matchAssignmentPrefixes
    <2>2. \A m \in names : i \in occurrences(argv, names, m) <=> m = m0
        BY <1>4, <1>13, <2>1
    <2>3. text # "none" /\ textAt(argv, names, i) = text
        BY <1>10, <1>13, <2>1
    <2>4. ObservedAll(b, argv, names, i)
        <3>1. textAt(argv, names, i) = IF TRUE THEN text ELSE "none"
            BY <2>3
        <3>. HIDE DEF text, m0
        <3>2. QED
            BY <1>2, <2>1, <2>2, <2>3, <3>1, ObservationAdded
    <2>5. y = scan_(t, b, u)
        BY <1>2, <1>7, <1>13
    <2>6. unseen(argv, names, i) = u
        BY <1>2, <1>5, <2>1, <2>2
    <2>7. t \in 0..(i + 1) /\ (i < n => (t = i + 1 <=> taken[i + 1]))
        BY <1>1, <1>2, <1>3, <1>13
    <2>. HIDE DEF b
    <2>8. Scanned(y, argv, names, i)
        BY <1>9, <2>4, <2>5, <2>6, <2>7
    <2>9. QED
        BY <2>8 DEF y
<1>14. CASE ~taken[i] /\ token \notin names /\ ~matchAssignmentPrefixes(names, token)
    <2>1. \A m \in names : i \notin occurrences(argv, names, m)
        BY <1>4, <1>14 DEF matchAssignmentPrefixes
    <2>2. y = scan_(t, o, u \cup {i}) /\ unseen(argv, names, i) = u \cup {i}
        BY <1>2, <1>5, <1>7, <1>14, <2>1
    <2>3. t \in 0..(i + 1) /\ (i < n => (t = i + 1 <=> taken[i + 1]))
        BY <1>1, <1>2, <1>3, <1>14
    <2>4. Scanned(y, argv, names, i)
        BY <1>6, <1>9, <2>1, <2>2, <2>3
    <2>5. QED
        BY <2>4 DEF y
<1>15. QED
    BY <1>3, <1>11, <1>12, <1>13, <1>14

LEMMA ScanExact ==
    ASSUME NEW argv, isList(argv), "none" \notin ToSet(argv), NEW names,
           \A a \in DOMAIN Assigned : a \notin names /\ Assigned[a].value # "none"
    PROVE  Scanned(scanArgv(argv, names), argv, names, Len(argv))
<1>. DEFINE n == Len(argv)
<1>1. n \in Nat
    BY DEF isList
<1>2. PICK run, X :
              /\ run[0] = NoTokens /\ \A i \in 0..n : run[i] \in Scans(names, X)
              /\ \A i \in 1..n : run[i] = scanToken(run[i - 1], i, argv, names)
              /\ scanArgv(argv, names) = run[n]
    BY ScanRun
<1>. DEFINE Good == {i \in 0..n : Scanned(run[i], argv, names, i)}
<1>3. 0 \in Good
    <2>1. run[0].taken = 0 /\ run[0].observations = << >> /\ run[0].unmapped = {}
        BY <1>2 DEF NoTokens
    <2>2. unseen(argv, names, 0) = {} /\ \A m \in names : placesOf(argv, names, m, 0) = {}
        BY DEF unseen, placesOf, occurrences
    <2>3. ObservedAll(run[0].observations, argv, names, 0)
        BY <2>1, <2>2 DEF ObservedAll
    <2>4. ASSUME 0 < n PROVE ~takenIn(argv, names)[0 + 1]
        <3>1. 1 \in 0..n
            BY <1>1, <2>4
        <3>2. ~takenIn(argv, names)[1]
            BY <3>1, TakenExact
        <3>3. QED
            BY <3>2
    <2>5. Scanned(run[0], argv, names, 0)
        BY <2>1, <2>2, <2>3, <2>4 DEF Scanned
    <2>6. QED
        BY <1>1, <2>5
<1>4. ASSUME NEW i \in 1..n, i - 1 \in Good PROVE i \in Good
    <2>1. i \in 0..n /\ i - 1 \in 0..n
        BY <1>1
    <2>2. PICK t, o, u : run[i - 1] = scan_(t, o, u)
        BY <1>2, <2>1 DEF Scans, scan_
    <2>3. Scanned(scan_(t, o, u), argv, names, i - 1)
        BY <1>4, <2>2
    <2>4. Scanned(afterToken(t, o, u, i, argv, names), argv, names, i)
        <3>. HIDE DEF Good
        <3>1. QED
            BY <2>3, ScannedNext
    <2>5. run[i] = afterToken(t, o, u, i, argv, names)
        <3>. HIDE DEF Good
        <3>1. QED
            BY <1>2, <2>2, TokenForm
    <2>6. QED
        BY <2>1, <2>4, <2>5
<1>5. n \in Good
    <2>. HIDE DEF Good
    <2>1. \A i \in 0..n : i \in Good
        BY <1>1, <1>3, <1>4, CountUp
    <2>2. QED
        BY <1>1, <2>1
<1>6. QED
    BY <1>2, <1>5

(* The one text the arguments give a name, or "none". *)
textOf(argv, names, m) ==
    LET where == occurrences(argv, names, m)
    IN  IF Cardinality(where) = 1 THEN textAt(argv, names, CHOOSE i \in where : TRUE) ELSE "none"

(* The status of a name is found exactly when it has one text, which is then its *)
(* value; a name that occurs without one is refused.                             *)
LEMMA StatusExact ==
    ASSUME NEW argv, isList(argv), "none" \notin ToSet(argv), NEW names,
           \A a \in DOMAIN Assigned : a \notin names /\ Assigned[a].value # "none",
           NEW m \in names
    PROVE  LET obs == scanArgv(argv, names).observations
               status == observationToArgValue(obs, m)
           IN  /\ status = "found" <=> textOf(argv, names, m) # "none"
               /\ status = "found" => obs[m].value = textOf(argv, names, m)
               /\ status \in {"invalid", "duplicate"} <=> occurrences(argv, names, m) # {} /\ textOf(argv, names, m) = "none"
<1>. DEFINE n == Len(argv)
            where == occurrences(argv, names, m)
            obs == scanArgv(argv, names).observations
            status == observationToArgValue(obs, m)
            text == textOf(argv, names, m)
<1>1. n \in Nat
    BY DEF isList
<1>2. where \subseteq 1..n /\ placesOf(argv, names, m, n) = where /\ IsFiniteSet(where)
    <2>1. where \subseteq 1..n
        BY DEF occurrences
    <2>2. IsFiniteSet(where)
        <3>1. IsFiniteSet(1..n)
            BY <1>1, FS_Interval
        <3>. HIDE DEF where, n
        <3>2. where \in SUBSET (1..n)
            BY <2>1
        <3>3. QED
            BY <3>1, <3>2, FS_Subset
    <2>3. placesOf(argv, names, m, n) = where
        BY <1>1, <2>1 DEF placesOf
    <2>4. QED
        BY <2>1, <2>2, <2>3
<1>3. ObservedAll(obs, argv, names, n)
    BY ScanExact DEF Scanned
<1>4. /\ m \in DOMAIN obs <=> where # {}
      /\ m \in DOMAIN obs => Observed(obs[m], where, argv, names)
    BY <1>2, <1>3 DEF ObservedAll
<1>5. status = IF m \notin DOMAIN obs THEN "missing" ELSE IF obs[m].matchCount > 1 THEN "duplicate"
               ELSE IF obs[m].hasInvalidMatch THEN "invalid" ELSE "found"
    BY DEF observationToArgValue
<1>6. text = IF Cardinality(where) = 1 THEN textAt(argv, names, CHOOSE i \in where : TRUE) ELSE "none"
    BY DEF textOf
<1>7. Cardinality(where) \in Nat /\ (Cardinality(where) = 0 <=> where = {})
    BY <1>2, FS_CardinalityType, FS_EmptySet
<1>. HIDE DEF where, obs, status, text
<1>8. CASE where = {}
    BY <1>4, <1>5, <1>6, <1>7, <1>8 DEF where, obs, status, text
<1>9. CASE Cardinality(where) > 1
    <2>1. obs[m].matchCount > 1 /\ m \in DOMAIN obs
        BY <1>4, <1>7, <1>9 DEF Observed
    <2>2. status = "duplicate" /\ text = "none" /\ where # {}
        BY <1>5, <1>6, <1>7, <1>9, <2>1
    <2>3. QED
        BY <2>2 DEF where, obs, status, text
<1>10. CASE Cardinality(where) = 1
    <2>1. PICK j : where = {j}
        BY <1>2, <1>10, FS_Singleton
    <2>2. text = textAt(argv, names, j)
        BY <1>6, <1>10, <2>1
    <2>3. /\ m \in DOMAIN obs /\ ~(obs[m].matchCount > 1) /\ where # {}
          /\ obs[m].hasInvalidMatch <=> text = "none"
          /\ text # "none" => obs[m].value = text
        BY <1>4, <1>10, <2>1, <2>2 DEF Observed
    <2>4. /\ status = "found" <=> text # "none"
          /\ status \in {"invalid", "duplicate"} <=> text = "none"
        BY <1>5, <2>3
    <2>5. QED
        BY <2>3, <2>4 DEF where, obs, status, text
<1>11. QED
    BY <1>7, <1>8, <1>9, <1>10

-----------------------------------------------------------------------------
(***************************************************************************)
(* What a source of the environment or of the arguments returns.           *)
(***************************************************************************)

(* The codes the refused names of the arguments are reported with. *)
refusals == {"invalid", "duplicate"}
refusedAt(q, obs) == q.kind = "argv" /\ observationToArgValue(obs, q.name) \in refusals
refuseStep(codes, q, obs) == IF refusedAt(q, obs) THEN Append(codes, observationToArgValue(obs, q.name)) ELSE codes
refusedCodes(ms, obs) == FoldLeft(LAMBDA codes, q : refuseStep(codes, q, obs), << >>, ms)

LEMMA RefusedRun ==
    ASSUME NEW ms, isList(ms), NEW obs
    PROVE  \E run :
              /\ run[0] = << >> /\ \A i \in 0..Len(ms) : run[i] \in Seq(refusals)
              /\ \A i \in 1..Len(ms) : run[i] = refuseStep(run[i - 1], ms[i], obs)
              /\ refusedCodes(ms, obs) = run[Len(ms)]
<1>. DEFINE n == Len(ms)
            S == Seq(refusals)
<1>1. n \in Nat /\ DOMAIN ms = 1..n
    BY DEF isList
<1>2. << >> \in S
    OBVIOUS
<1>. HIDE DEF n
<1>3. ASSUME NEW i \in 1..n, NEW x \in S PROVE refuseStep(x, ms[i], obs) \in S
    BY DEF refuseStep, refusedAt
<1>. HIDE DEF S
<1>. DEFINE Iter(it) == it = [s \in SUBSET (DOMAIN ms) |-> IF s = {} THEN << >> ELSE refuseStep(it[s \ {Max(s)}], ms[Max(s)], obs)]
            step == [p \in (1..n) \X S |-> refuseStep(p[2], ms[p[1]], obs)]
            chosen == CHOOSE it : Iter(it)
            run == [i \in 0..n |-> chosen[1..i]]
            Typed == {i \in 0..n : chosen[1..i] \in S}
<1>4. refusedCodes(ms, obs) = chosen[DOMAIN ms]
    BY DEF refusedCodes, FoldLeft, MapThenFoldSet
<1>5. \E it : Iter(it)
    <2>1. step \in [(1..n) \X S -> S]
        BY <1>1, <1>3
    <2>. HIDE DEF step
    <2>2. PICK it \in [SUBSET (1..n) -> S] : Folds_(it, n, << >>, step)
        BY <1>1, <1>2, <2>1, FoldExists
    <2>3. ASSUME NEW s \in SUBSET (1..n), s # {}
          PROVE  it[s] = refuseStep(it[s \ {Max(s)}], ms[Max(s)], obs)
        <3>1. Max(s) \in s
            BY <1>1, <2>3, MaxIsIn
        <3>2. <<Max(s), it[s \ {Max(s)}]>> \in (1..n) \X S
            BY <3>1
        <3>3. QED
            BY <2>2, <2>3, <3>2 DEF Folds_, step
    <2>4. Iter(it)
        BY <1>1, <2>2, <2>3 DEF Folds_
    <2>5. QED
        BY <2>4
<1>6. Iter(chosen)
    BY <1>5
<1>. HIDE DEF step, chosen
<1>7. chosen[1..0] = << >> /\ \A i \in 1..n : chosen[1..i] = refuseStep(chosen[1..(i - 1)], ms[i], obs)
    <2>1. ASSUME NEW i \in 1..n PROVE chosen[1..i] = refuseStep(chosen[1..(i - 1)], ms[i], obs)
        <3>1. 1..i \in SUBSET (1..n) /\ 1..i # {} /\ (1..i) \ {i} = 1..(i - 1) /\ Max(1..i) = i
            BY <1>1, UpTo
        <3>2. QED
            BY <1>1, <1>6, <3>1
    <2>2. 1..0 = {} /\ {} \in SUBSET (1..n)
        OBVIOUS
    <2>3. QED
        BY <1>1, <1>6, <2>1, <2>2
<1>8. 0 \in Typed
    BY <1>1, <1>2, <1>7
<1>9. ASSUME NEW i \in 1..n, i - 1 \in Typed PROVE i \in Typed
    BY <1>1, <1>3, <1>7, <1>9
<1>10. \A i \in 0..n : i \in Typed
    <2>. HIDE DEF Typed
    <2>1. QED
        BY <1>1, <1>8, <1>9, CountUp
<1>11. /\ run[0] = << >> /\ \A i \in 0..n : run[i] \in S
       /\ \A i \in 1..n : run[i] = refuseStep(run[i - 1], ms[i], obs)
       /\ refusedCodes(ms, obs) = run[n]
    BY <1>1, <1>4, <1>7, <1>10
<1>. HIDE DEF run
<1>12. QED
    BY <1>11 DEF n, S

LEMMA RefusedCount ==
    ASSUME NEW ms, isList(ms), NEW obs
    PROVE  /\ refusedCodes(ms, obs) \in Seq(refusals)
           /\ Len(refusedCodes(ms, obs)) = Cardinality({j \in 1..Len(ms) : refusedAt(ms[j], obs)})
<1>. DEFINE n == Len(ms)
            refusedTo(i) == {j \in 1..i : refusedAt(ms[j], obs)}
<1>1. n \in Nat
    BY DEF isList
<1>2. PICK run :
              /\ run[0] = << >> /\ \A i \in 0..n : run[i] \in Seq(refusals)
              /\ \A i \in 1..n : run[i] = refuseStep(run[i - 1], ms[i], obs)
              /\ refusedCodes(ms, obs) = run[n]
    BY RefusedRun
<1>. DEFINE Good == {i \in 0..n : Len(run[i]) = Cardinality(refusedTo(i))}
<1>3. 0 \in Good
    <2>1. refusedTo(0) = {} /\ Len(run[0]) = 0
        BY <1>2
    <2>2. QED
        BY <1>1, <2>1, FS_EmptySet
<1>4. ASSUME NEW i \in 1..n, i - 1 \in Good PROVE i \in Good
    <2>1. i \in 0..n /\ i - 1 \in 0..n /\ i \notin refusedTo(i - 1)
        BY <1>1
    <2>2. IsFiniteSet(refusedTo(i - 1))
        <3>1. i - 1 \in Int /\ refusedTo(i - 1) \in SUBSET (1..(i - 1))
            BY <1>1
        <3>. HIDE DEF refusedTo
        <3>2. IsFiniteSet(1..(i - 1))
            BY <3>1, FS_Interval
        <3>3. QED
            BY <3>1, <3>2, FS_Subset
    <2>3. run[i] = refuseStep(run[i - 1], ms[i], obs) /\ run[i - 1] \in Seq(refusals) /\ Len(run[i - 1]) = Cardinality(refusedTo(i - 1))
        BY <1>2, <1>4, <2>1
    <2>4. CASE refusedAt(ms[i], obs)
        <3>1. refusedTo(i) = refusedTo(i - 1) \cup {i}
            BY <2>4
        <3>2. Len(run[i]) = Len(run[i - 1]) + 1
            BY <2>3, <2>4 DEF refuseStep
        <3>3. Cardinality(refusedTo(i)) = Cardinality(refusedTo(i - 1)) + 1
            <4>. HIDE DEF refusedTo
            <4>1. QED
                BY <2>1, <2>2, <3>1, CountOneMore
        <3>4. QED
            BY <2>1, <2>3, <3>2, <3>3
    <2>5. CASE ~refusedAt(ms[i], obs)
        <3>1. refusedTo(i) = refusedTo(i - 1)
            BY <2>5
        <3>2. run[i] = run[i - 1]
            BY <2>3, <2>5 DEF refuseStep
        <3>3. QED
            BY <2>1, <2>3, <3>1, <3>2
    <2>6. QED
        BY <2>4, <2>5
<1>5. n \in Good
    <2>. HIDE DEF Good
    <2>1. \A i \in 0..n : i \in Good
        BY <1>1, <1>3, <1>4, CountUp
    <2>2. QED
        BY <1>1, <2>1
<1>6. QED
    BY <1>1, <1>2, <1>5

(* As many elements are listed as there are. *)
LEMMA ListedCount ==
    ASSUME NEW S, IsFiniteSet(S)
    PROVE  DOMAIN SetToSeq(S) = 1..Cardinality(S) /\ Cardinality(S) \in Nat
<1>. DEFINE n == Cardinality(S)
            f == SetToSeq(S)
<1>1. n \in Nat /\ ExistsBijection(1..n, S)
    BY FS_CardinalityType
<1>. HIDE DEF n
<1>2. \E g \in [1..n -> S] : IsInjective(g)
    BY <1>1 DEF ExistsBijection, Bijection, Injection, IsInjective
<1>3. f \in [1..n -> S]
    <2>1. f = CHOOSE g \in [1..n -> S] : IsInjective(g)
        BY DEF SetToSeq, n
    <2>. HIDE DEF f
    <2>2. QED
        BY <1>2, <2>1
<1>4. QED
    BY <1>1, <1>3 DEF n

LEMMA ImageCount ==
    ASSUME NEW K, IsFiniteSet(K), NEW f, \A i, j \in K : f[i] = f[j] => i = j
    PROVE  Cardinality({f[i] : i \in K}) = Cardinality(K)
<1>. DEFINE T == {f[i] : i \in K}
            g == [i \in K |-> f[i]]
<1>1. g \in Bijection(K, T)
    BY DEF Bijection, Injection, Surjection, IsInjective
<1>2. ExistsBijection(K, T)
    BY <1>1 DEF ExistsBijection
<1>. HIDE DEF T
<1>3. QED
    BY <1>2, FS_Bijection DEF T

(* What the mappings ms of a source make of the texts raw of their names, those of   *)
(* refused being reported as they are, and unmapped others.                          *)
inPlay(ms) == {ms[j] : j \in DOMAIN ms}
blankOf(q, raw) == raw[q.name] = Blank /\ setting(q, "emptyValue", "parse") # "parse"
isSet(q, raw) ==
    /\ raw[q.name] # "none" /\ ~blankOf(q, raw)
    /\ parseMappedValue(raw[q.name], q)
    /\ \A k \in DOMAIN q.target : q.target[k] \notin UnsafeSegments
isSilent(q, raw, refused) ==
    \/ raw[q.name] = "none" /\ q.name \notin refused
    \/ blankOf(q, raw) /\ q.fields.emptyValue = "ignore"
setOf(ms, raw) == {q \in inPlay(ms) : isSet(q, raw)}
silentOf(ms, raw, refused) == {q \in inPlay(ms) : isSilent(q, raw, refused)}
MappedAs(out, ms, raw, refused, unmapped) ==
    /\ DOMAIN out.value = {q.target : q \in setOf(ms, raw)}
    /\ \A q \in setOf(ms, raw) : out.value[q.target] = parsedValue(raw[q.name], q)
    /\ Len(out.issues) = unmapped + Len(ms) - Cardinality(setOf(ms, raw) \cup silentOf(ms, raw, refused))
    /\ ~contains(out.issues, "exact") /\ ~contains(out.issues, "overlap")

(* The texts of the names, and the ones the loop is given: the names that have one. *)
Given(ms, raw, values) ==
    \A j \in DOMAIN ms :
       /\ ms[j].name \in DOMAIN values <=> raw[ms[j].name] # "none"
       /\ ms[j].name \in DOMAIN values => values[ms[j].name] = raw[ms[j].name]

RefusedHaveNone(ms, raw, refused) == \A j \in DOMAIN ms : ms[j].name \in refused => raw[ms[j].name] = "none"

(* The mappings of a sound source. *)
SoundMappings(ms, kind) ==
    /\ isList(ms) /\ \A j \in DOMAIN ms : isParsedMapping(ms[j]) /\ soundMapping(ms[j], kind)
    /\ \A j, k \in DOMAIN ms : j # k => ~overlap(ms[j].target, ms[k].target)

LEMMA MappingAsGiven ==
    ASSUME NEW q, isParsedMapping(q), NEW kind, soundMapping(q, kind),
           NEW raw, NEW values, NEW refused,
           q.name \in DOMAIN values <=> raw[q.name] # "none",
           q.name \in DOMAIN values => values[q.name] = raw[q.name],
           q.name \in refused => raw[q.name] = "none"
    PROVE  /\ setBy(q, values) <=> isSet(q, raw)
           /\ isSilent(q, raw, refused) <=> silentIn(q, values) /\ q.name \notin refused
           /\ ~(setBy(q, values) /\ silentIn(q, values))
<1>1. setting(q, "emptyValue", "parse") \in {"parse", "ignore", "error"}
    BY PolicySound
<1>2. setting(q, "emptyValue", "parse") # "parse" => setting(q, "emptyValue", "parse") = q.fields.emptyValue
    BY DEF setting
<1>3. setBy(q, values) <=> isSet(q, raw)
    BY DEF setBy, isSet, blankOf
<1>4. isSilent(q, raw, refused) <=> silentIn(q, values) /\ q.name \notin refused
    <2>1. Blank # "none"
        BY InputConstants DEF InputConstants
    <2>2. QED
        BY <1>1, <1>2, <2>1 DEF isSilent, silentIn, blankOf
<1>5. ~(setBy(q, values) /\ silentIn(q, values))
    BY DEF setBy, silentIn
<1>6. QED
    BY <1>3, <1>4, <1>5

(* No two mappings of a sound source are the same. *)
LEMMA MappingsDiffer ==
    ASSUME NEW ms, isList(ms), \A j \in DOMAIN ms : isParsedMapping(ms[j]),
           \A j, k \in DOMAIN ms : j # k => ~overlap(ms[j].target, ms[k].target)
    PROVE  \A j, k \in DOMAIN ms : ms[j] = ms[k] => j = k
<1>1. ASSUME NEW j \in DOMAIN ms PROVE overlap(ms[j].target, ms[j].target)
    <2>1. ms[j].target \in Seq(ToSet(ms[j].target))
        BY DEF isParsedMapping, isList
    <2>2. Len(ms[j].target) \in Nat
        BY <2>1
    <2>3. QED
        BY <2>2 DEF overlap, isPathPrefix
<1>2. QED
    BY <1>1

(* Of n places, those in neither of two parts that have nothing in common. *)
LEMMA CountRest ==
    ASSUME NEW n \in Nat, NEW B \in SUBSET (1..n), NEW R \in SUBSET (1..n), B \cap R = {}
    PROVE  /\ IsFiniteSet((1..n) \ (B \cup R)) /\ Cardinality(B) \in Nat /\ Cardinality(R) \in Nat
           /\ Cardinality((1..n) \ (B \cup R)) = n - Cardinality(B) - Cardinality(R)
<1>1. IsFiniteSet(1..n) /\ Cardinality(1..n) = n
    BY FS_Interval
<1>2. IsFiniteSet(B) /\ IsFiniteSet(R)
    BY <1>1, FS_Subset
<1>3. IsFiniteSet(B \cup R) /\ Cardinality(B \cup R) = Cardinality(B) + Cardinality(R) - Cardinality(B \cap R)
    BY <1>2, FS_Union
<1>4. Cardinality(B \cap R) = 0
    BY FS_EmptySet
<1>5. Cardinality(B) \in Nat /\ Cardinality(R) \in Nat
    BY <1>2, FS_CardinalityType
<1>6. IsFiniteSet((1..n) \ (B \cup R)) /\ Cardinality((1..n) \ (B \cup R)) = Cardinality(1..n) - Cardinality((1..n) \cap (B \cup R))
    BY <1>1, FS_Difference
<1>7. (1..n) \cap (B \cup R) = B \cup R /\ B \cap R = {}
    OBVIOUS
<1>8. Cardinality((1..n) \ (B \cup R)) = n - (Cardinality(B) + Cardinality(R) - 0)
    BY <1>1, <1>3, <1>4, <1>6, <1>7
<1>9. QED
    BY <1>5, <1>6, <1>8

LEMMA MappedCount ==
    ASSUME NEW ms, NEW kind, SoundMappings(ms, kind),
           NEW raw, NEW values, Given(ms, raw, values), NEW refused,
           RefusedHaveNone(ms, raw, refused)
    PROVE  LET B == reported(ms, values, Len(ms))
               R == {j \in 1..Len(ms) : ms[j].name \in refused}
           IN  /\ Cardinality(setOf(ms, raw) \cup silentOf(ms, raw, refused)) = Len(ms) - Cardinality(B) - Cardinality(R)
               /\ Cardinality(B) \in Nat /\ Cardinality(R) \in Nat
<1>. DEFINE n == Len(ms)
            B == reported(ms, values, n)
            R == {j \in 1..n : ms[j].name \in refused}
            K == (1..n) \ (B \cup R)
<1>. USE DEF SoundMappings, RefusedHaveNone
<1>1. n \in Nat /\ DOMAIN ms = 1..n
    BY DEF isList
<1>2. ASSUME NEW j \in 1..n
      PROVE  /\ setBy(ms[j], values) <=> isSet(ms[j], raw)
             /\ isSilent(ms[j], raw, refused) <=> silentIn(ms[j], values) /\ ms[j].name \notin refused
             /\ ~(setBy(ms[j], values) /\ silentIn(ms[j], values))
    <2>1. isParsedMapping(ms[j]) /\ soundMapping(ms[j], kind) /\ (ms[j].name \in refused => raw[ms[j].name] = "none")
        BY <1>1
    <2>2. /\ ms[j].name \in DOMAIN values <=> raw[ms[j].name] # "none"
          /\ ms[j].name \in DOMAIN values => values[ms[j].name] = raw[ms[j].name]
        BY <1>1 DEF Given
    <2>3. QED
        BY <2>1, <2>2, MappingAsGiven
<1>3. ASSUME NEW j \in 1..n PROVE ms[j].name \in refused => silentIn(ms[j], values)
    BY <1>1 DEF silentIn, Given
<1>4. B \in SUBSET (1..n) /\ R \in SUBSET (1..n) /\ B \cap R = {}
    BY <1>3 DEF reported
<1>5. ASSUME NEW j \in 1..n PROVE j \in K <=> isSet(ms[j], raw) \/ isSilent(ms[j], raw, refused)
    BY <1>2, <1>3 DEF reported
<1>6. setOf(ms, raw) \cup silentOf(ms, raw, refused) = {ms[j] : j \in K}
    <2>1. K \subseteq 1..n
        OBVIOUS
    <2>. HIDE DEF K
    <2>2. QED
        BY <1>1, <1>5, <2>1 DEF setOf, silentOf, inPlay
<1>7. IsFiniteSet(K) /\ Cardinality(K) = n - Cardinality(B) - Cardinality(R) /\ Cardinality(B) \in Nat /\ Cardinality(R) \in Nat
    <2>. HIDE DEF n, B, R
    <2>1. QED
        BY <1>1, <1>4, CountRest
<1>8. Cardinality({ms[j] : j \in K}) = Cardinality(K)
    <2>1. \A i, j \in K : ms[i] = ms[j] => i = j
        BY <1>1, MappingsDiffer
    <2>. HIDE DEF K
    <2>2. QED
        BY <1>7, <2>1, ImageCount
<1>9. QED
    BY <1>6, <1>7, <1>8

(* The result of a source from its mapped values and the codes before theirs. *)
Returns(out, codes, mapped) == out.value = mapped.value /\ out.issues = codes \o mapped.issues
OtherCodes == {"unmapped_env_entry", "unmapped_argv_entry"} \cup refusals

LEMMA SourceMapped ==
    ASSUME NEW ms, NEW kind, SoundMappings(ms, kind),
           NEW raw, NEW values, Given(ms, raw, values), NEW refused,
           RefusedHaveNone(ms, raw, refused),
           NEW unmapped \in Nat, NEW codes \in Seq(OtherCodes),
           Len(codes) = unmapped + Cardinality({j \in 1..Len(ms) : ms[j].name \in refused}),
           NEW out, Returns(out, codes, createMappedOverrideSource(kind, values, ms))
    PROVE  MappedAs(out, ms, raw, refused, unmapped)
<1>. DEFINE n == Len(ms)
            mapped == createMappedOverrideSource(kind, values, ms)
            B == reported(ms, values, n)
            R == {j \in 1..n : ms[j].name \in refused}
<1>. USE DEF SoundMappings, RefusedHaveNone
<1>1. n \in Nat /\ DOMAIN ms = 1..n
    BY DEF isList
<1>2. Mapped(mapped, ms, values, n)
    BY MappingsExact
<1>3. /\ Cardinality(setOf(ms, raw) \cup silentOf(ms, raw, refused)) = n - Cardinality(B) - Cardinality(R)
      /\ Cardinality(B) \in Nat /\ Cardinality(R) \in Nat
    <2>. HIDE DEF SoundMappings, RefusedHaveNone
    <2>1. QED
        BY MappedCount
<1>4. \A j \in 1..n : setBy(ms[j], values) <=> isSet(ms[j], raw)
    <2>1. ASSUME NEW j \in 1..n PROVE setBy(ms[j], values) <=> isSet(ms[j], raw)
        <3>1. isParsedMapping(ms[j]) /\ soundMapping(ms[j], kind) /\ (ms[j].name \in refused => raw[ms[j].name] = "none")
            BY <1>1
        <3>2. /\ ms[j].name \in DOMAIN values <=> raw[ms[j].name] # "none"
              /\ ms[j].name \in DOMAIN values => values[ms[j].name] = raw[ms[j].name]
            BY <1>1 DEF Given
        <3>3. QED
            BY <3>1, <3>2, MappingAsGiven
    <2>2. QED
        BY <2>1
<1>5. setOf(ms, raw) = {ms[j] : j \in setters(ms, values, n)}
    BY <1>1, <1>4 DEF setOf, inPlay, setters
<1>6. \A j \in setters(ms, values, n) : values[ms[j].name] = raw[ms[j].name]
    BY <1>1 DEF setters, setBy, Given
<1>. HIDE DEF mapped, B, R
<1>7. DOMAIN out.value = {q.target : q \in setOf(ms, raw)}
    BY <1>2, <1>5 DEF Mapped, mapped, Returns
<1>8. \A q \in setOf(ms, raw) : out.value[q.target] = parsedValue(raw[q.name], q)
    <2>1. \A j \in setters(ms, values, n) : out.value[ms[j].target] = parsedValue(values[ms[j].name], ms[j])
        BY <1>2 DEF Mapped, mapped, Returns
    <2>2. QED
        BY <1>5, <1>6, <2>1
<1>9. mapped.issues \in Seq(MappingCodes) /\ Len(mapped.issues) = Cardinality(B) /\ out.issues = codes \o mapped.issues
    BY <1>2 DEF Mapped, mapped, B, Returns
<1>. DEFINE C == mapped.issues
<1>10. C \in Seq(MappingCodes) /\ out.issues = codes \o C
    BY <1>9
<1>. HIDE DEF C
<1>11. out.issues \in Seq(OtherCodes \cup MappingCodes) /\ Len(out.issues) = Len(codes) + Len(C)
    <2>. HIDE DEF SoundMappings, RefusedHaveNone
    <2>1. codes \o C \in Seq(OtherCodes \cup MappingCodes) /\ Len(codes \o C) = Len(codes) + Len(C)
        <3>1. codes \in Seq(OtherCodes) /\ C \in Seq(MappingCodes)
            BY <1>10
        <3>2. QED
            BY <3>1
    <2>2. QED
        BY <1>10, <2>1
<1>12. Len(out.issues) = unmapped + n - Cardinality(setOf(ms, raw) \cup silentOf(ms, raw, refused))
    <2>1. Len(out.issues) = Len(codes) + Len(mapped.issues)
        BY <1>11 DEF C
    <2>2. Len(codes) = unmapped + Cardinality(R)
        BY DEF R
    <2>3. QED
        BY <1>1, <1>3, <1>9, <2>1, <2>2
<1>13. ~contains(out.issues, "exact") /\ ~contains(out.issues, "overlap")
    <2>1. out.issues \in Seq(OtherCodes \cup MappingCodes)
        BY <1>11
    <2>2. "exact" \notin OtherCodes \cup MappingCodes /\ "overlap" \notin OtherCodes \cup MappingCodes
        BY DEF OtherCodes, MappingCodes, refusals
    <2>3. QED
        BY <2>1, <2>2 DEF contains
<1>14. QED
    BY <1>7, <1>8, <1>12, <1>13 DEF MappedAs

(* As many codes as there are elements in a set. *)
LEMMA CodesOf ==
    ASSUME NEW S, IsFiniteSet(S), NEW code \in OtherCodes
    PROVE  /\ [i \in DOMAIN SetToSeq(S) |-> code] \in Seq(OtherCodes)
           /\ Len([i \in DOMAIN SetToSeq(S) |-> code]) = Cardinality(S) /\ Cardinality(S) \in Nat
<1>1. DOMAIN SetToSeq(S) = 1..Cardinality(S) /\ Cardinality(S) \in Nat
    BY ListedCount
<1>2. QED
    BY <1>1

(* A source of a declaration that is well formed. *)
isOverride(s, kind) == isParsedSource(s) /\ soundSource(s) /\ s.kind = kind
namesOf(s) == {s.mappings[i].name : i \in DOMAIN s.mappings}

LEMMA OverrideMappings ==
    ASSUME NEW s, NEW kind \in {"env", "argv"}, isOverride(s, kind)
    PROVE  /\ SoundMappings(s.mappings, kind)
           /\ externalNames(kind, s.mappings) = namesOf(s)
           /\ \A j \in DOMAIN s.mappings : s.mappings[j].kind = kind
<1>1. isList(s.mappings) /\ \A j \in DOMAIN s.mappings : isParsedMapping(s.mappings[j])
    BY DEF isOverride, isParsedSource
<1>2. /\ \A j \in DOMAIN s.mappings : soundMapping(s.mappings[j], kind)
      /\ \A j, k \in DOMAIN s.mappings : j # k => ~overlap(s.mappings[j].target, s.mappings[k].target)
    BY DEF isOverride, soundSource
<1>3. \A j \in DOMAIN s.mappings : s.mappings[j].kind = kind
    BY <1>2 DEF soundMapping
<1>4. externalNames(kind, s.mappings) = namesOf(s)
    BY <1>3 DEF externalNames, namesOf
<1>5. QED
    BY <1>1, <1>2, <1>3, <1>4 DEF SoundMappings

(* The environment. *)
envTexts(s, env) == [n \in namesOf(s) |-> IF n \in DOMAIN env THEN env[n] ELSE "none"]
envUnmapped(s, env) == IF ~has(s, "unmappedBehavior") THEN 0 ELSE Cardinality((DOMAIN env \cap Prefixed) \ namesOf(s))

LEMMA EnvExact ==
    ASSUME NEW s, isOverride(s, "env"), NEW env, isFunction(env), \A n \in DOMAIN env : env[n] # "none"
    PROVE  /\ Cardinality(DOMAIN env) > MaxEntries =>
                 createProcessEnvSource(inputOf(s), env).value = << >> /\ Len(createProcessEnvSource(inputOf(s), env).issues) = 1
           /\ ~(Cardinality(DOMAIN env) > MaxEntries) =>
                 MappedAs(createProcessEnvSource(inputOf(s), env), s.mappings, envTexts(s, env), {}, envUnmapped(s, env))
<1>. DEFINE source == inputOf(s)
            out == createProcessEnvSource(source, env)
            names == namesOf(s)
            ms == s.mappings
            values == [n \in DOMAIN env \cap names |-> env[n]]
            mapped == createMappedOverrideSource("env", values, ms)
            S == {n \in DOMAIN env \cap Prefixed : has(s, "unmappedBehavior") /\ n \notin names}
            codes == [i \in DOMAIN SetToSeq(S) |-> "unmapped_env_entry"]
<1>1. SoundMappings(ms, "env") /\ externalNames("env", ms) = names
    BY OverrideMappings
<1>2. /\ source.mappings = ms /\ source.maximum = MaxEntries
      /\ \A f : has(source, f) <=> has(s, f)
      /\ \A f : malformed(source, f) <=> malformed(s, f)
    BY DEF inputOf, has, malformed
<1>3. unmappedEnvPolicy(source) = << >>
    <2>1. has(s, "unmappedBehavior") <=> has(s, "unmappedPrefix")
        BY DEF isOverride, soundSource, has
    <2>2. ~malformed(s, "unmappedBehavior") /\ ~malformed(s, "unmappedPrefix")
        BY DEF isOverride, soundSource, sound, malformed, has
    <2>3. QED
        BY <1>2, <2>1, <2>2 DEF unmappedEnvPolicy, when, lacks
<1>4. Cardinality(DOMAIN env) > MaxEntries => out.value = << >> /\ Len(out.issues) = 1
    BY <1>2 DEF createProcessEnvSource, result
<1>5. ~(Cardinality(DOMAIN env) > MaxEntries) => out.value = mapped.value /\ out.issues = codes \o mapped.issues
    BY <1>1, <1>2, <1>3 DEF createProcessEnvSource, result
<1>6. IsFiniteSet(S)
    <2>1. S \in SUBSET DOMAIN env /\ IsFiniteSet(DOMAIN env)
        BY DEF isFunction
    <2>. HIDE DEF S
    <2>2. QED
        BY <2>1, FS_Subset
<1>7. Cardinality(S) = envUnmapped(s, env)
    <2>1. CASE has(s, "unmappedBehavior")
        <3>1. S = (DOMAIN env \cap Prefixed) \ names
            BY <2>1
        <3>2. QED
            BY <2>1, <3>1 DEF envUnmapped
    <2>2. CASE ~has(s, "unmappedBehavior")
        <3>1. S = {}
            BY <2>2
        <3>2. QED
            BY <2>2, <3>1, FS_EmptySet DEF envUnmapped
    <2>3. QED
        BY <2>1, <2>2
<1>. HIDE DEF S
<1>8. codes \in Seq(OtherCodes) /\ Len(codes) = envUnmapped(s, env) /\ envUnmapped(s, env) \in Nat
    <2>1. "unmapped_env_entry" \in OtherCodes
        BY DEF OtherCodes
    <2>2. QED
        BY <1>6, <1>7, <2>1, CodesOf
<1>9. Given(ms, envTexts(s, env), values)
    BY DEF Given, envTexts, namesOf
<1>. HIDE DEF values, codes, out, names, ms
<1>10. Cardinality({j \in 1..Len(ms) : ms[j].name \in {}}) = 0
    BY FS_EmptySet
<1>11. ASSUME ~(Cardinality(DOMAIN env) > MaxEntries)
       PROVE  MappedAs(out, ms, envTexts(s, env), {}, envUnmapped(s, env))
    <2>1. out.value = mapped.value /\ out.issues = codes \o mapped.issues
        BY <1>5, <1>11
    <2>2. Returns(out, codes, mapped)
        BY <2>1 DEF Returns
    <2>3. Len(codes) = envUnmapped(s, env) + Cardinality({j \in 1..Len(ms) : ms[j].name \in {}})
        BY <1>8, <1>10
    <2>4. RefusedHaveNone(ms, envTexts(s, env), {})
        BY DEF RefusedHaveNone
    <2>5. QED
        BY <1>1, <1>8, <1>9, <2>2, <2>3, <2>4, SourceMapped
<1>12. QED
    BY <1>4, <1>11 DEF out, ms

(* The arguments. *)
foundValues(names, obs) == [n \in {m \in names : observationToArgValue(obs, m) = "found"} |-> obs[n].value]
listedOthers(source, scan) == IF has(source, "unmappedBehavior") THEN SetToSeq(scan.unmapped) ELSE << >>
argvResult(source, argv) ==
    LET names == externalNames("argv", source.mappings)
        scan == scanArgv(argv, names)
        unmapped == listedOthers(source, scan)
        mapped == createMappedOverrideSource("argv", foundValues(names, scan.observations), source.mappings)
    IN  IF names \cap NamesWithEquals # {}
        THEN result(<< >>, <<"argv_mapping_external_name_invalid">>, source.secretPaths)
        ELSE IF Len(argv) > source.maximum
        THEN result(<< >>, <<"max_argv_entries_exceeded">>, source.secretPaths)
        ELSE IF malformed(source, "unmappedBehavior")
        THEN result(<< >>, <<"unmapped_argv_behavior_invalid">>, source.secretPaths)
        ELSE result(mapped.value,
                    [i \in DOMAIN unmapped |-> "unmapped_argv_entry"] \o refusedCodes(source.mappings, scan.observations) \o mapped.issues,
                    source.secretPaths \cup secretTargets("argv", source.mappings))

LEMMA ArgvForm ==
    ASSUME NEW source, NEW argv
    PROVE  createArgvSource(source, argv) = argvResult(source, argv)
BY DEF createArgvSource, argvResult, foundValues, listedOthers, refusedCodes, refuseStep, refusedAt, refusals, FoldLeft, MapThenFoldSet

argvTexts(s, argv) == [m \in namesOf(s) |-> textOf(argv, namesOf(s), m)]
argvRefused(s, argv) == {m \in namesOf(s) : occurrences(argv, namesOf(s), m) # {} /\ textOf(argv, namesOf(s), m) = "none"}
argvUnmapped(s, argv) == IF ~has(s, "unmappedBehavior") THEN 0 ELSE Cardinality(unseen(argv, namesOf(s), Len(argv)))

LEMMA ArgvNames ==
    ASSUME NEW s, isOverride(s, "argv")
    PROVE  /\ namesOf(s) \cap NamesWithEquals = {}
           /\ \A a \in DOMAIN Assigned : a \notin namesOf(s) /\ Assigned[a].value # "none"
<1>1. \A j \in DOMAIN s.mappings : soundMapping(s.mappings[j], "argv")
    BY OverrideMappings DEF SoundMappings
<1>2. namesOf(s) \cap NamesWithEquals = {}
    BY <1>1 DEF namesOf, soundMapping
<1>3. QED
    BY <1>2, InputConstants DEF InputConstants

(* The texts found for the names are the ones the mappings are given, and the others *)
(* that occur are the ones refused.                                                  *)
LEMMA ArgvFound ==
    ASSUME NEW s, isOverride(s, "argv"), NEW argv, isList(argv), "none" \notin ToSet(argv),
           NEW obs, obs = scanArgv(argv, namesOf(s)).observations,
           NEW values, values = foundValues(namesOf(s), obs)
    PROVE  /\ Given(s.mappings, argvTexts(s, argv), values)
           /\ RefusedHaveNone(s.mappings, argvTexts(s, argv), argvRefused(s, argv))
           /\ \A j \in DOMAIN s.mappings : refusedAt(s.mappings[j], obs) <=> s.mappings[j].name \in argvRefused(s, argv)
<1>. DEFINE ms == s.mappings
            names == namesOf(s)
<1>1. ASSUME NEW m \in names
      PROVE  /\ observationToArgValue(obs, m) = "found" <=> textOf(argv, names, m) # "none"
             /\ observationToArgValue(obs, m) = "found" => obs[m].value = textOf(argv, names, m)
             /\ observationToArgValue(obs, m) \in refusals <=> occurrences(argv, names, m) # {} /\ textOf(argv, names, m) = "none"
    <2>1. \A a \in DOMAIN Assigned : a \notin names /\ Assigned[a].value # "none"
        BY ArgvNames
    <2>. HIDE DEF names
    <2>2. QED
        BY <2>1, StatusExact DEF refusals, names
<1>2. \A j \in DOMAIN ms : ms[j].name \in names /\ ms[j].kind = "argv"
    BY OverrideMappings DEF namesOf
<1>. HIDE DEF names, ms
<1>3. Given(ms, argvTexts(s, argv), values)
    BY <1>1, <1>2 DEF Given, argvTexts, names, foundValues
<1>4. RefusedHaveNone(ms, argvTexts(s, argv), argvRefused(s, argv))
    BY <1>2 DEF RefusedHaveNone, argvTexts, argvRefused, names
<1>5. \A j \in DOMAIN ms : refusedAt(ms[j], obs) <=> ms[j].name \in argvRefused(s, argv)
    BY <1>1, <1>2 DEF refusedAt, argvRefused, names
<1>6. QED
    BY <1>3, <1>4, <1>5 DEF ms

LEMMA ArgvExact ==
    ASSUME NEW s, isOverride(s, "argv"), NEW argv, isList(argv), "none" \notin ToSet(argv)
    PROVE  /\ Len(argv) > MaxEntries =>
                 createArgvSource(inputOf(s), argv).value = << >> /\ Len(createArgvSource(inputOf(s), argv).issues) = 1
           /\ ~(Len(argv) > MaxEntries) =>
                 MappedAs(createArgvSource(inputOf(s), argv), s.mappings, argvTexts(s, argv), argvRefused(s, argv), argvUnmapped(s, argv))
<1>. DEFINE source == inputOf(s)
            out == createArgvSource(source, argv)
            names == namesOf(s)
            ms == s.mappings
            scan == scanArgv(argv, names)
            obs == scan.observations
            values == foundValues(names, obs)
            mapped == createMappedOverrideSource("argv", values, ms)
            listed == listedOthers(s, scan)
            others == [i \in DOMAIN listed |-> "unmapped_argv_entry"]
            codes == others \o refusedCodes(ms, obs)
<1>1. SoundMappings(ms, "argv") /\ externalNames("argv", ms) = names /\ names \cap NamesWithEquals = {}
    BY OverrideMappings, ArgvNames
<1>2. /\ source.mappings = ms /\ source.maximum = MaxEntries
      /\ \A f : has(source, f) <=> has(s, f)
      /\ \A f : malformed(source, f) <=> malformed(s, f)
    BY DEF inputOf, has, malformed
<1>3. ~malformed(source, "unmappedBehavior")
    <2>1. ~malformed(s, "unmappedBehavior")
        BY DEF isOverride, soundSource, sound, malformed, has
    <2>2. QED
        BY <1>2, <2>1
<1>4. Len(argv) > MaxEntries => out.value = << >> /\ Len(out.issues) = 1
    BY <1>1, <1>2 DEF createArgvSource, result
<1>5. ~(Len(argv) > MaxEntries) => out.value = mapped.value /\ out.issues = codes \o mapped.issues
    BY <1>1, <1>2, <1>3, ArgvForm DEF argvResult, foundValues, listedOthers, result
<1>6. Scanned(scan, argv, names, Len(argv))
    BY ScanExact, ArgvNames
<1>7. scan.unmapped = unseen(argv, names, Len(argv)) /\ IsFiniteSet(scan.unmapped)
    <2>1. unseen(argv, names, Len(argv)) \in SUBSET (1..Len(argv)) /\ Len(argv) \in Int
        BY DEF unseen, isList
    <2>2. IsFiniteSet(1..Len(argv))
        BY <2>1, FS_Interval
    <2>3. IsFiniteSet(unseen(argv, names, Len(argv)))
        BY <2>1, <2>2, FS_Subset
    <2>4. QED
        BY <1>6, <2>3 DEF Scanned
<1>. HIDE DEF scan
<1>8. others \in Seq(OtherCodes) /\ Len(others) = argvUnmapped(s, argv) /\ argvUnmapped(s, argv) \in Nat
    <2>1. CASE has(s, "unmappedBehavior")
        <3>1. others = [i \in DOMAIN SetToSeq(scan.unmapped) |-> "unmapped_argv_entry"]
            BY <2>1 DEF listedOthers
        <3>2. "unmapped_argv_entry" \in OtherCodes
            BY DEF OtherCodes
        <3>3. argvUnmapped(s, argv) = Cardinality(scan.unmapped)
            BY <1>7, <2>1 DEF argvUnmapped
        <3>. HIDE DEF others
        <3>4. QED
            BY <1>7, <3>1, <3>2, <3>3, CodesOf
    <2>2. CASE ~has(s, "unmappedBehavior")
        <3>1. others = << >> /\ argvUnmapped(s, argv) = 0
            BY <2>2 DEF listedOthers, argvUnmapped
        <3>2. QED
            BY <3>1
    <2>3. QED
        BY <2>1, <2>2
<1>9. /\ Given(ms, argvTexts(s, argv), values)
       /\ RefusedHaveNone(ms, argvTexts(s, argv), argvRefused(s, argv))
       /\ \A j \in DOMAIN ms : refusedAt(ms[j], obs) <=> ms[j].name \in argvRefused(s, argv)
    BY ArgvFound DEF scan
<1>. HIDE DEF others, values, out, names, ms, obs
<1>10. /\ refusedCodes(ms, obs) \in Seq(refusals)
       /\ Len(refusedCodes(ms, obs)) = Cardinality({j \in 1..Len(ms) : ms[j].name \in argvRefused(s, argv)})
    <2>1. isList(ms) /\ DOMAIN ms = 1..Len(ms)
        BY <1>1 DEF SoundMappings, isList
    <2>2. {j \in 1..Len(ms) : refusedAt(ms[j], obs)} = {j \in 1..Len(ms) : ms[j].name \in argvRefused(s, argv)}
        BY <1>9, <2>1
    <2>3. QED
        BY <2>1, <2>2, RefusedCount
<1>11. codes \in Seq(OtherCodes) /\ Len(codes) = argvUnmapped(s, argv) + Cardinality({j \in 1..Len(ms) : ms[j].name \in argvRefused(s, argv)})
    <2>1. refusedCodes(ms, obs) \in Seq(OtherCodes)
        BY <1>10 DEF OtherCodes
    <2>2. QED
        BY <1>8, <1>10, <2>1
<1>. HIDE DEF codes
<1>12. ASSUME ~(Len(argv) > MaxEntries)
       PROVE  MappedAs(out, ms, argvTexts(s, argv), argvRefused(s, argv), argvUnmapped(s, argv))
    <2>1. Returns(out, codes, mapped)
        BY <1>5, <1>12 DEF Returns
    <2>2. QED
        BY <1>1, <1>8, <1>9, <1>11, <2>1, SourceMapped
<1>13. QED
    BY <1>4, <1>12 DEF out, ms

(* What InputsAsMapped says of one source s and what it returned. *)
textBlank(s, q) == rawText(s, q.name) = Blank /\ setting(q, "emptyValue", "parse") # "parse"
appliedOf(s) ==
    {q \in {s.mappings[j] : j \in DOMAIN s.mappings} :
        /\ rawText(s, q.name) # "none" /\ ~textBlank(s, q)
        /\ parseMappedValue(rawText(s, q.name), q)
        /\ \A k \in DOMAIN q.target : q.target[k] \notin UnsafeSegments}
ignoredOf(s) ==
    {q \in {s.mappings[j] : j \in DOMAIN s.mappings} :
        \/ rawText(s, q.name) = "none" /\ ~refusedText(s, q.name)
        \/ textBlank(s, q) /\ q.fields.emptyValue = "ignore"}
entriesOf(s) == IF s.kind = "env" THEN Cardinality(DOMAIN given.env) ELSE Len(given.argv)
tooMany(out) == out.value = << >> /\ Len(out.issues) = 1
asGiven(s, out) ==
    /\ DOMAIN out.value = {q.target : q \in appliedOf(s)}
    /\ \A q \in appliedOf(s) : out.value[q.target] = parsedValue(rawText(s, q.name), q)
    /\ Len(out.issues) = unmappedCount(s) + Len(s.mappings) - Cardinality(appliedOf(s) \cup ignoredOf(s))
    /\ ~contains(out.issues, "exact") /\ ~contains(out.issues, "overlap")

LEMMA AsMappedForm ==
    ASSUME stage = "loaded" => \A i \in overrideSources(declaration) :
               IF entriesOf(declaration.sources[i]) > MaxEntries THEN tooMany(sources[i]) ELSE asGiven(declaration.sources[i], sources[i])
    PROVE  InputsAsMapped
BY DEF InputsAsMapped, entriesOf, tooMany, asGiven, appliedOf, ignoredOf, textBlank

LEMMA ReadBack ==
    ASSUME NEW s, NEW raw, NEW refused, NEW unmapped, unmapped = unmappedCount(s),
           \A j \in DOMAIN s.mappings : /\ raw[s.mappings[j].name] = rawText(s, s.mappings[j].name)
                                        /\ s.mappings[j].name \in refused <=> refusedText(s, s.mappings[j].name),
           NEW out, MappedAs(out, s.mappings, raw, refused, unmapped)
    PROVE  asGiven(s, out)
<1>1. ASSUME NEW j \in DOMAIN s.mappings
      PROVE  LET q == s.mappings[j]
             IN  /\ raw[q.name] = rawText(s, q.name) /\ (q.name \in refused <=> refusedText(s, q.name))
                 /\ blankOf(q, raw) <=> textBlank(s, q)
    BY DEF blankOf, textBlank
<1>2. setOf(s.mappings, raw) = appliedOf(s)
    BY <1>1 DEF setOf, inPlay, isSet, appliedOf
<1>3. silentOf(s.mappings, raw, refused) = ignoredOf(s)
    BY <1>1 DEF silentOf, inPlay, isSilent, ignoredOf
<1>4. \A q \in appliedOf(s) : raw[q.name] = rawText(s, q.name)
    BY <1>1 DEF appliedOf
<1>5. QED
    BY <1>2, <1>3, <1>4 DEF MappedAs, asGiven

LEMMA SourceAsGiven ==
    ASSUME NEW s, NEW kind \in {"env", "argv"}, isOverride(s, kind), given.env \in Environments, given.argv \in Arguments
    PROVE  IF entriesOf(s) > MaxEntries THEN tooMany(loadDeclared(s, given.env, given.argv))
           ELSE asGiven(s, loadDeclared(s, given.env, given.argv))
<1>1. /\ isFunction(given.env) /\ \A n \in DOMAIN given.env : given.env[n] # "none"
      /\ isList(given.argv) /\ "none" \notin ToSet(given.argv)
    BY InputConstants DEF InputConstants
<1>2. CASE kind = "env"
    <2>. DEFINE out == createProcessEnvSource(inputOf(s), given.env)
                raw == envTexts(s, given.env)
    <2>1. s.kind = "env" /\ loadDeclared(s, given.env, given.argv) = out /\ entriesOf(s) = Cardinality(DOMAIN given.env)
        BY <1>2 DEF isOverride, loadDeclared, entriesOf
    <2>2. /\ Cardinality(DOMAIN given.env) > MaxEntries => tooMany(out)
          /\ ~(Cardinality(DOMAIN given.env) > MaxEntries) => MappedAs(out, s.mappings, raw, {}, envUnmapped(s, given.env))
        BY <1>1, <1>2, EnvExact DEF tooMany
    <2>3. envUnmapped(s, given.env) = unmappedCount(s)
        BY <2>1 DEF envUnmapped, unmappedCount, namesOf
    <2>4. \A j \in DOMAIN s.mappings : /\ raw[s.mappings[j].name] = rawText(s, s.mappings[j].name)
                                       /\ s.mappings[j].name \in {} <=> refusedText(s, s.mappings[j].name)
        BY <2>1 DEF envTexts, rawText, refusedText, namesOf
    <2>. HIDE DEF out, raw
    <2>5. MappedAs(out, s.mappings, raw, {}, envUnmapped(s, given.env)) => asGiven(s, out)
        BY <2>3, <2>4, ReadBack
    <2>6. QED
        BY <2>1, <2>2, <2>5
<1>3. CASE kind = "argv"
    <2>. DEFINE out == createArgvSource(inputOf(s), given.argv)
                raw == argvTexts(s, given.argv)
                refused == argvRefused(s, given.argv)
    <2>1. s.kind = "argv" /\ loadDeclared(s, given.env, given.argv) = out /\ entriesOf(s) = Len(given.argv)
        BY <1>3 DEF isOverride, loadDeclared, entriesOf
    <2>2. /\ Len(given.argv) > MaxEntries => tooMany(out)
          /\ ~(Len(given.argv) > MaxEntries) => MappedAs(out, s.mappings, raw, refused, argvUnmapped(s, given.argv))
        BY <1>1, <1>3, ArgvExact DEF tooMany
    <2>3. argvUnmapped(s, given.argv) = unmappedCount(s)
        <3>1. unseen(given.argv, namesOf(s), Len(given.argv)) =
                 {i \in DOMAIN given.argv : ~takenIn(given.argv, namesOf(s))[i] /\ \A n \in namesOf(s) : i \notin occurrences(given.argv, namesOf(s), n)}
            BY <1>1 DEF unseen, isList
        <3>2. QED
            BY <2>1, <3>1 DEF argvUnmapped, unmappedCount, namesOf
    <2>4. \A j \in DOMAIN s.mappings : /\ raw[s.mappings[j].name] = rawText(s, s.mappings[j].name)
                                       /\ s.mappings[j].name \in refused <=> refusedText(s, s.mappings[j].name)
        <3>1. ASSUME NEW n \in namesOf(s) PROVE raw[n] = rawText(s, n) /\ (n \in refused <=> refusedText(s, n))
            <4>1. raw[n] = textOf(given.argv, namesOf(s), n)
                BY DEF argvTexts
            <4>2. rawText(s, n) = textOf(given.argv, namesOf(s), n)
                BY <2>1 DEF rawText, textOf, namesOf
            <4>3. refusedText(s, n) <=> occurrences(given.argv, namesOf(s), n) # {} /\ rawText(s, n) = "none"
                BY <2>1 DEF refusedText, namesOf
            <4>4. QED
                BY <4>1, <4>2, <4>3 DEF argvRefused
        <3>2. QED
            BY <3>1 DEF namesOf
    <2>. HIDE DEF out, raw, refused
    <2>5. MappedAs(out, s.mappings, raw, refused, argvUnmapped(s, given.argv)) => asGiven(s, out)
        BY <2>3, <2>4, ReadBack
    <2>6. QED
        BY <2>1, <2>2, <2>5
<1>4. QED
    BY <1>2, <1>3

(* Once loaded, the sources are what the declaration, the environment and the arguments make them. *)
LoadedInv ==
    /\ InputInv
    /\ stage = "loaded" =>
          /\ given.env \in Environments /\ given.argv \in Arguments
          /\ sources = [i \in overrideSources(declaration) |-> loadDeclared(declaration.sources[i], given.env, given.argv)]

LEMMA LoadedInductive ==
    /\ InputInit => LoadedInv
    /\ LoadedInv /\ [InputNext]_inputVars => LoadedInv'
<1>1. InputInit => LoadedInv
    <2>1. InputInit => InputInv /\ stage = "parsed"
        BY InputInductive DEF InputInit
    <2>2. QED
        BY <2>1 DEF LoadedInv
<1>2. ASSUME LoadedInv, [InputNext]_inputVars PROVE LoadedInv'
    <2>1. InputInv /\ InputInv'
        BY <1>2, InputInductive DEF LoadedInv
    <2>2. CASE Read
        <3>1. stage' # "loaded"
            BY <2>1, <2>2, ReadExact
        <3>2. QED
            BY <2>1, <3>1 DEF LoadedInv
    <2>3. CASE Select
        <3>1. stage' # "loaded"
            BY <2>1, <2>3, SelectExact DEF Select
        <3>2. QED
            BY <2>1, <3>1 DEF LoadedInv
    <2>4. CASE Load
        <3>1. PICK env \in Environments, argv \in Arguments :
                 /\ given' = [env |-> env, argv |-> argv]
                 /\ sources' = [i \in overrideSources(declaration) |-> loadDeclared(declaration.sources[i], env, argv)]
            BY <2>4 DEF Load
        <3>2. given'.env = env /\ given'.argv = argv /\ declaration' = declaration
            BY <2>4, <3>1 DEF Load
        <3>3. sources' = [i \in overrideSources(declaration') |-> loadDeclared(declaration'.sources[i], given'.env, given'.argv)]
            BY <3>1, <3>2
        <3>4. QED
            BY <2>1, <3>2, <3>3 DEF LoadedInv
    <2>5. CASE UNCHANGED inputVars
        BY <1>2, <2>1, <2>5 DEF LoadedInv, inputVars
    <2>6. QED
        BY <1>2, <2>2, <2>3, <2>4, <2>5 DEF InputNext
<1>3. QED
    BY <1>1, <1>2

(* Every mapping of a declared source sets its path to the one text given for it, or *)
(* is reported; no argument counts twice or is passed over; and two mappings of a    *)
(* declaration that was accepted are never in each other's way.                      *)
THEOREM InputsAsMappedHolds == InputSpec => []InputsAsMapped
<1>1. LoadedInv => InputsAsMapped
    <2>. SUFFICES ASSUME LoadedInv, stage = "loaded", NEW i \in overrideSources(declaration)
                  PROVE  IF entriesOf(declaration.sources[i]) > MaxEntries THEN tooMany(sources[i])
                         ELSE asGiven(declaration.sources[i], sources[i])
        BY AsMappedForm
    <2>. DEFINE s == declaration.sources[i]
    <2>1. i \in DOMAIN declaration.sources /\ s.kind \in {"env", "argv"}
        BY DEF overrideSources
    <2>2. isParsedSource(s)
        BY <2>1 DEF LoadedInv, InputInv, Settled, isParsedDeclaration, isParsedBody
    <2>3. soundSource(s)
        BY <2>1 DEF LoadedInv, InputInv, Settled, WellFormed, soundBody
    <2>4. isOverride(s, s.kind)
        BY <2>2, <2>3 DEF isOverride
    <2>5. sources[i] = loadDeclared(s, given.env, given.argv) /\ given.env \in Environments /\ given.argv \in Arguments
        BY DEF LoadedInv
    <2>. HIDE DEF s
    <2>6. IF entriesOf(s) > MaxEntries THEN tooMany(sources[i]) ELSE asGiven(s, sources[i])
        BY <2>1, <2>4, <2>5, SourceAsGiven
    <2>7. QED
        BY <2>6 DEF s
<1>2. InputSpec => []LoadedInv
    BY LoadedInductive, PTL DEF InputSpec
<1>3. QED
    BY <1>1, <1>2, PTL
=============================================================================
