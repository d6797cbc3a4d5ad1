------------------------------ MODULE FileRead ------------------------------
(***************************************************************************)
(* Reading one source file within limits: readTextFileWithinLimit of       *)
(* packages/node/src/file.ts, the admission budget of file-read-limiter.ts *)
(* and loadTextFileSource of file-source.ts around them.                   *)
(*                                                                         *)
(* Several reads of one path run at once.  A step is the code between two  *)
(* awaits: at[r] names the I/O call that read r awaits.  While it does,    *)
(* other programs retarget the path, replace files and let them grow, and  *)
(* the caller may abort.                                                   *)
(***************************************************************************)
EXTENDS Integers, FiniteSets

CONSTANTS
    Reads,          \* the calls of loadTextFileSource
    MaxConcurrent,  \* capacity of the shared limiter
    MaxBytes,       \* maxFileBytes
    Chunk,          \* READ_CHUNK_BYTES
    Places,         \* canonical paths the requested path may lead to
    Inside,         \* those inside the allowed root
    Files,          \* <<device, inode>> of every file there is
    NoFile,
    MaxSize,        \* bound on the size of a file
    MaxChanges      \* bound on what other programs do to the file system

ASSUME ReadsFinite == IsFiniteSet(Reads)
ASSUME CapacityPositive == MaxConcurrent \in Nat \ {0}
ASSUME FileConstants ==
    /\ MaxBytes \in Nat /\ Chunk \in Nat \ {0} /\ Inside \subseteq Places
    /\ Files \subseteq (Nat \X Nat) /\ NoFile \notin Files
    /\ MaxSize \in Nat /\ MaxChanges \in Nat

VARIABLES
    active,         \* the limiter's count
    lease,          \* lease[r]: "none", "held", "released"
    at,             \* at[r]: where the code of r stands
    aborted,        \* aborted[r]: its signal
    handle,         \* handle[r]: "none", "open", "closed", or "unconfirmed"
    opened,         \* opened[r]: the file behind the handle
    statSize, total,
    canonical,
    verdict,        \* verdict[r]: what the read is going to answer
    (* The file system. *)
    target, content, size, changes,
    foundAt         \* auxiliary: the places where opened[r] was seen since it was opened

readVars == <<lease, at, handle, opened, statSize, total, canonical, verdict>>
diskVars == <<target, content, size, changes>>
vars == <<active, readVars, aborted, diskVars, foundAt>>

AwaitedIO == {"open", "stat", "realpath", "identity", "root", "read", "close"}
Verdicts == {"none", "ok", "loaded", "operation_aborted", "max_concurrent_file_reads_exceeded",
             "file_identity_changed", "file_path_outside_allowed_root",
             "file_boundary_verification_failed", "max_file_bytes_exceeded",
             "read_failed", "parse_failed"}

TypeOK ==
    /\ active \in 0..MaxConcurrent
    /\ lease \in [Reads -> {"none", "held", "released"}]
    /\ at \in [Reads -> AwaitedIO \cup {"idle", "parse", "done"}]
    /\ aborted \in [Reads -> BOOLEAN]
    /\ handle \in [Reads -> {"none", "open", "closed", "unconfirmed"}]
    /\ opened \in [Reads -> Files \cup {NoFile}]
    /\ statSize \in [Reads -> Nat] /\ total \in [Reads -> Nat]
    /\ canonical \in [Reads -> Places]
    /\ verdict \in [Reads -> Verdicts]
    /\ target \in Places /\ content \in [Places -> Files \cup {NoFile}]
    /\ size \in [Files -> 0..MaxSize] /\ changes \in 0..MaxChanges
    /\ foundAt \in [Reads -> SUBSET Places]

-----------------------------------------------------------------------------
(***************************************************************************)
(* Pieces of the code.                                                     *)
(***************************************************************************)
await(r, call) == at' = [at EXCEPT ![r] = call]
decide(r, v) == verdict' = [verdict EXCEPT ![r] = v]

(* tryAcquire, and the lease's release function. *)
full == active >= MaxConcurrent
Acquire(r) == active' = active + 1 /\ lease' = [lease EXCEPT ![r] = "held"]
Release(r) == active' = active - 1 /\ lease' = [lease EXCEPT ![r] = "released"]
Keep == UNCHANGED <<active, lease>>

(* An unknown device, 0, matches every device. *)
Bug_sameFileIdentity(f, g) == f[1] = g[1]        \* devices only
sameFileIdentity(f, g) ==
    f[2] = g[2] /\ (f[1] = 0 \/ g[1] = 0 \/ f[1] = g[1])

(* A failure of the awaited call: the catch of readOwnedTextFile. *)
failure(r) == IF aborted[r] THEN "operation_aborted" ELSE "read_failed"

(* The read is decided, and its handle is closed next. *)
closing(r, v) == await(r, "close") /\ decide(r, v)

(* Go on with the next call, unless aborted: assertFileActive. *)
proceed(r, call) ==
    IF aborted[r] THEN closing(r, "operation_aborted")
    ELSE await(r, call) /\ UNCHANGED verdict

-----------------------------------------------------------------------------
(***************************************************************************)
(* Admission.                                                              *)
(***************************************************************************)
Start(r) ==
    /\ at[r] = "idle"
    /\ \/ /\ aborted[r]
          /\ await(r, "done") /\ decide(r, "operation_aborted") /\ Keep
       \/ /\ ~aborted[r] /\ full
          /\ await(r, "done") /\ decide(r, "max_concurrent_file_reads_exceeded") /\ Keep
       \/ /\ ~aborted[r] /\ ~full
          /\ Acquire(r) /\ await(r, "open") /\ UNCHANGED verdict
    /\ UNCHANGED <<aborted, handle, opened, statSize, total, canonical, diskVars, foundAt>>

(* open throws before there is a handle: the lease is returned. *)
Bug_OpenFails(r) ==                             \* the lease leaks
    /\ at[r] = "open"
    /\ Keep /\ await(r, "done") /\ decide(r, failure(r))
    /\ UNCHANGED <<aborted, handle, opened, statSize, total, canonical, diskVars, foundAt>>
OpenFails(r) ==
    /\ at[r] = "open"
    /\ Release(r) /\ await(r, "done") /\ decide(r, failure(r))
    /\ UNCHANGED <<aborted, handle, opened, statSize, total, canonical, diskVars, foundAt>>

OpenReturns(r) ==
    /\ at[r] = "open" /\ content[target] # NoFile
    /\ handle' = [handle EXCEPT ![r] = "open"]
    /\ opened' = [opened EXCEPT ![r] = content[target]]
    /\ foundAt' = [foundAt EXCEPT ![r] = {p \in Places : content[p] = content[target]}]
    /\ proceed(r, "stat")
    /\ Keep /\ UNCHANGED <<aborted, statSize, total, canonical, diskVars>>

-----------------------------------------------------------------------------
(***************************************************************************)
(* Verification of the opened file.                                        *)
(***************************************************************************)
StatReturns(r) ==
    /\ at[r] = "stat"
    /\ statSize' = [statSize EXCEPT ![r] = size[opened[r]]]
    /\ proceed(r, "realpath")
    /\ Keep /\ UNCHANGED <<aborted, handle, opened, total, canonical, diskVars, foundAt>>

CallFails(r) ==
    /\ at[r] \in {"stat", "read"}
    /\ closing(r, failure(r))
    /\ Keep /\ UNCHANGED <<aborted, handle, opened, statSize, total, canonical, diskVars, foundAt>>

(* The boundary is not verified; an abort takes precedence over the reason. *)
refuse(r, v) == closing(r, IF aborted[r] THEN "operation_aborted" ELSE v)

BoundaryCallFails(r) ==
    /\ at[r] \in {"realpath", "identity", "root"}
    /\ refuse(r, "file_boundary_verification_failed")
    /\ Keep /\ UNCHANGED <<aborted, handle, opened, statSize, total, canonical, diskVars, foundAt>>

RealpathReturns(r) ==
    /\ at[r] = "realpath"
    /\ canonical' = [canonical EXCEPT ![r] = target]
    /\ await(r, "identity")
    /\ Keep /\ UNCHANGED <<aborted, handle, opened, statSize, total, verdict, diskVars, foundAt>>

IdentityReturns(r) ==
    /\ at[r] = "identity" /\ content[canonical[r]] # NoFile
    /\ IF sameFileIdentity(opened[r], content[canonical[r]])
       THEN await(r, "root") /\ UNCHANGED verdict
       ELSE refuse(r, "file_identity_changed")
    /\ Keep /\ UNCHANGED <<aborted, handle, opened, statSize, total, canonical, diskVars, foundAt>>

RootReturns(r) ==
    /\ at[r] = "root"
    /\ IF canonical[r] \notin Inside THEN refuse(r, "file_path_outside_allowed_root")
       ELSE IF ~aborted[r] /\ statSize[r] > MaxBytes THEN closing(r, "max_file_bytes_exceeded")
       ELSE proceed(r, "read")
    /\ Keep /\ UNCHANGED <<aborted, handle, opened, statSize, total, canonical, diskVars, foundAt>>

-----------------------------------------------------------------------------
(***************************************************************************)
(* Contents.                                                               *)
(***************************************************************************)
tooLarge(n) == n > MaxBytes

(* The check between a chunk and the request for the next one. *)
Bug_cancelledBetweenChunks(r) == FALSE
cancelledBetweenChunks(r) == aborted[r]

(* A read gives what is left of the file, as it is now, up to a chunk of it. *)
ReadReturns(r) ==
    /\ at[r] = "read"
    /\ \E n \in 0..Chunk :
        /\ n <= size[opened[r]] - total[r] \/ n = 0
        /\ n = 0 => size[opened[r]] <= total[r]
        /\ total' = [total EXCEPT ![r] = @ + n]
        /\ IF cancelledBetweenChunks(r) THEN closing(r, "operation_aborted")
           ELSE IF n = 0
           THEN \E v \in {"ok", "read_failed"} : closing(r, v)  \* the bytes may not decode
           ELSE IF tooLarge(total[r] + n) THEN closing(r, "max_file_bytes_exceeded")
           ELSE UNCHANGED <<at, verdict>>
    /\ Keep /\ UNCHANGED <<aborted, handle, opened, statSize, canonical, diskVars, foundAt>>

(* What loadTextFileSource makes of the result, or of the error, of the read. *)
answered(r, v) ==
    IF v = "ok" /\ ~aborted[r] THEN await(r, "parse") /\ UNCHANGED verdict
    ELSE /\ await(r, "done")
         /\ decide(r, IF v \in {"ok", "read_failed"} /\ aborted[r] THEN "operation_aborted" ELSE v)

CloseReturns(r) ==
    /\ at[r] = "close"
    /\ handle' = [handle EXCEPT ![r] = "closed"]
    /\ Release(r)
    /\ answered(r, verdict[r])
    /\ UNCHANGED <<aborted, opened, statSize, total, canonical, diskVars, foundAt>>

(* Only a success is turned into a failure by a close that fails. *)
afterFailedClose(r) == IF verdict[r] = "ok" THEN failure(r) ELSE verdict[r]

(* Whether the file is still open is not known: its lease is kept for good. *)
Bug_cleanupFailed(r) == Release(r)
cleanupFailed(r) == Keep

CloseFails(r) ==
    /\ at[r] = "close"
    /\ handle' = [handle EXCEPT ![r] = "unconfirmed"]
    /\ cleanupFailed(r)
    /\ answered(r, afterFailedClose(r))
    /\ UNCHANGED <<aborted, opened, statSize, total, canonical, diskVars, foundAt>>

cancelledAfterParse(r) == aborted[r]

ParseEnds(r) ==
    /\ at[r] = "parse"
    /\ await(r, "done")
    /\ IF cancelledAfterParse(r) THEN decide(r, "operation_aborted")
       ELSE \E v \in {"loaded", "parse_failed"} : decide(r, v)
    /\ Keep /\ UNCHANGED <<aborted, handle, opened, statSize, total, canonical, diskVars, foundAt>>

-----------------------------------------------------------------------------
(***************************************************************************)
(* The callers and the other programs.                                     *)
(***************************************************************************)
Abort(r) ==
    /\ at[r] # "done" /\ ~aborted[r]
    /\ aborted' = [aborted EXCEPT ![r] = TRUE]
    /\ UNCHANGED <<active, readVars, diskVars, foundAt>>

DiskChange ==
    /\ changes < MaxChanges /\ changes' = changes + 1
    /\ UNCHANGED <<active, readVars, aborted>>

Retarget(p) ==
    /\ DiskChange /\ p # target
    /\ target' = p
    /\ UNCHANGED <<content, size, foundAt>>

Replace(p, f) ==
    /\ DiskChange /\ f # content[p]
    /\ content' = [content EXCEPT ![p] = f]
    /\ foundAt' = [r \in Reads |->
           IF handle[r] = "open" /\ opened[r] = f THEN foundAt[r] \cup {p} ELSE foundAt[r]]
    /\ UNCHANGED <<target, size>>

Resize(f, n) ==
    /\ DiskChange /\ n # size[f]
    /\ size' = [size EXCEPT ![f] = n]
    /\ UNCHANGED <<target, content, foundAt>>

Init ==
    /\ active = 0
    /\ lease = [r \in Reads |-> "none"]
    /\ at = [r \in Reads |-> "idle"]
    /\ aborted = [r \in Reads |-> FALSE]
    /\ handle = [r \in Reads |-> "none"]
    /\ opened = [r \in Reads |-> NoFile]
    /\ statSize = [r \in Reads |-> 0] /\ total = [r \in Reads |-> 0]
    /\ target \in Places
    /\ canonical = [r \in Reads |-> target]
    /\ verdict = [r \in Reads |-> "none"]
    /\ content \in [Places -> Files \cup {NoFile}]
    /\ size \in [Files -> 0..MaxSize]
    /\ changes = 0
    /\ foundAt = [r \in Reads |-> {}]

IOReturns(r) ==
    \/ OpenFails(r) \/ OpenReturns(r) \/ StatReturns(r) \/ CallFails(r)
    \/ BoundaryCallFails(r) \/ RealpathReturns(r) \/ IdentityReturns(r) \/ RootReturns(r)
    \/ ReadReturns(r) \/ CloseReturns(r) \/ CloseFails(r) \/ ParseEnds(r)

OtherPrograms ==
    \/ \E p \in Places : Retarget(p) \/ \E f \in Files \cup {NoFile} : Replace(p, f)
    \/ \E f \in Files, n \in 0..MaxSize : Resize(f, n)

Next == OtherPrograms \/ \E r \in Reads : Start(r) \/ Abort(r) \/ IOReturns(r)

Spec == Init /\ [][Next]_vars

(* The operating system answers every call; nobody has to call, abort or change. *)
FairSpec == Spec /\ \A r \in Reads : WF_vars(IOReturns(r))

-----------------------------------------------------------------------------
(* Reads whose file is being opened, is open, or is of unconfirmed state.       *)
Occupied == {r \in Reads : at[r] = "open" \/ handle[r] \in {"open", "unconfirmed"}}
(* The limiter's count is the number of leases out, never above its capacity,  *)
(* and a lease is out exactly as long as the file it was taken for occupies    *)
(* the system: aborted reads and failed closes included.                       *)
LeasesMatchFiles ==
    /\ active = Cardinality({r \in Reads : lease[r] = "held"}) /\ active <= MaxConcurrent
    /\ \A r \in Reads : lease[r] = "held" <=> r \in Occupied

(* The contents of a source are those of a file that was inside the allowed    *)
(* root while it was open, however the path and the files were moved, and are  *)
(* no longer than allowed, however the file grew; nobody had aborted the read  *)
(* and its file is closed.                                                     *)
ContentsAsPromised ==
    \A r \in Reads :
        /\ verdict[r] \in {"ok", "loaded"} => foundAt[r] \cap Inside # {} /\ total[r] <= MaxBytes
        /\ verdict[r] = "loaded" => ~aborted[r] /\ handle[r] = "closed"

(* After an abort no file is opened, no contents are asked for and nothing is  *)
(* parsed any more: neither the first chunk nor, once a chunk has come in      *)
(* (total grows while the read stays where it is), the next one.               *)
NoReadAfterAbort ==
    [][\A r \in Reads : aborted[r] /\ (at'[r] # at[r] \/ total'[r] # total[r])
                          => at'[r] \notin {"open", "read", "parse"}]_vars

(* Every handle is closed, or its close has failed, and every other read gives *)
(* its lease back.                                                             *)
EveryReadEnds ==
    \A r \in Reads : at[r] \in AwaitedIO ~>
        at[r] = "done" /\ handle[r] # "open" /\ (lease[r] = "held" => handle[r] = "unconfirmed")
=============================================================================
