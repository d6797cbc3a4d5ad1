----------------------------- MODULE Discovery -----------------------------
(***************************************************************************)
(* discoverPipelineDeclaration of packages/node: the first candidate that  *)
(* exists, on the way from a directory up to the workspace, is the         *)
(* declaration or an error, while others create, replace and delete files. *)
(***************************************************************************)
EXTENDS Naturals, FiniteSets

CONSTANTS
    Depth,              \* directories from the deepest start path up to the workspace
    Names,              \* how many file names are tried in each
    MaxDirectories,
    MaxEntryChanges

ASSUME DiscoveryConstants ==
    /\ {Depth, Names} \subseteq Nat \ {0}
    /\ MaxDirectories \in 1..256 /\ MaxEntryChanges \in Nat

Kinds == {"absent", "denied", "dangling", "outside", "directory", "file"}
Candidates == (1..Depth) \X (1..Names)

VARIABLES
    entry,              \* the file system: what each candidate is
    entryChanges,
    search,             \* "lstat", "realpath", "stat", "found", "done", or how it failed
    start,              \* where the search begins
    directory, name,    \* the candidate being looked at
    (* Auxiliary. *)
    lasting             \* candidates that have existed ever since the search began

discoveryVars == <<entry, entryChanges, search, start, directory, name, lasting>>

candidate == <<directory, name>>
searching == search \in {"lstat", "realpath", "stat"}
before(c, d) == c[1] < d[1] \/ (c[1] = d[1] /\ c[2] < d[2])

-----------------------------------------------------------------------------
ChangeEntry ==
    /\ entryChanges < MaxEntryChanges /\ entryChanges' = entryChanges + 1
    /\ \E c \in Candidates, k \in Kinds : entry' = [entry EXCEPT ![c] = k]
    /\ lasting' = {c \in lasting : entry'[c] # "absent"}
    /\ UNCHANGED <<search, start, directory, name>>

decided(s) == search' = s /\ UNCHANGED <<entry, entryChanges, start, directory, name, lasting>>

(* Only a candidate that is not there lets the search go on. *)
Bug_absent(k) == k \in {"absent", "dangling"}       \* follows links
absent(k) == k = "absent"

Lstat ==
    /\ search = "lstat"
    /\ \/ /\ absent(entry[candidate]) /\ name < Names
          /\ name' = name + 1 /\ UNCHANGED <<entry, entryChanges, search, start, directory, lasting>>
       \/ absent(entry[candidate]) /\ name = Names /\ directory = Depth /\ decided("config_not_found")
       \/ /\ absent(entry[candidate]) /\ name = Names /\ directory < Depth
          /\ directory' = directory + 1 /\ name' = 1
          /\ search' = IF directory' - start = MaxDirectories
                       THEN "max_discovery_directories_exceeded" ELSE search
          /\ UNCHANGED <<entry, entryChanges, start, lasting>>
       \/ entry[candidate] = "denied" /\ decided("config_discovery_failed")
       \/ ~absent(entry[candidate]) /\ entry[candidate] # "denied" /\ decided("realpath")

Realpath ==
    /\ search = "realpath"
    /\ \/ entry[candidate] \in {"absent", "denied", "dangling"} /\ decided("config_discovery_failed")
       \/ entry[candidate] = "outside" /\ decided("config_discovery_outside_workspace")
       \/ entry[candidate] \in {"directory", "file"} /\ decided("stat")

(* stat looks at the file that realpath named, whatever it has become. *)
Stat ==
    /\ search = "stat"
    /\ \/ entry[candidate] \in {"absent", "denied", "dangling"} /\ decided("config_discovery_failed")
       \/ entry[candidate] = "directory" /\ decided("config_discovery_not_file")
       \/ entry[candidate] \in {"outside", "file"} /\ decided("found")

(* The start path lies in the workspace, and both are directories. *)
DiscoveryInit ==
    /\ entry \in [Candidates -> Kinds] /\ entryChanges = 0
    /\ search = "lstat" /\ start \in 1..Depth /\ directory = start /\ name = 1
    /\ lasting = {c \in Candidates : entry[c] # "absent"}

DiscoveryNext == (searching /\ ChangeEntry) \/ Lstat \/ Realpath \/ Stat

-----------------------------------------------------------------------------
(* discovery.ts:38: an existing first candidate is never passed over in favour   *)
(* of a declaration further up, however the files change during the search; and  *)
(* in a quiet file system the first one that exists decides, alone.              *)
InReach == {c \in Candidates : c[1] >= start /\ c[1] < start + MaxDirectories}
Existing == {c \in InReach : entry[c] # "absent"}
Nearest(c) == c \in Existing /\ \A d \in Existing : ~before(d, c)

DiscoveryDecides ==
    /\ search = "found" =>
           /\ candidate \in InReach
           /\ \A c \in lasting \cap InReach : ~before(c, candidate)
    /\ search \in {"config_not_found", "max_discovery_directories_exceeded"} => lasting \cap InReach = {}
    /\ entryChanges = 0 /\ ~searching /\ search # "done" =>
           /\ (search = "found") <=> (\E c \in Existing : Nearest(c) /\ entry[c] = "file")
           /\ search = "found" => Nearest(candidate)
           /\ search = "config_not_found" => Existing = {} /\ Depth < start + MaxDirectories
=============================================================================
