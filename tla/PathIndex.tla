------------------------------ MODULE PathIndex ------------------------------
(***************************************************************************)
(* The index of resolved paths: resolved-path-index.ts of packages/core,   *)
(* a map of entries and a trie over their paths that answers which entries *)
(* overlap a path.  A trie node is named by the path that leads to it.     *)
(***************************************************************************)
EXTENDS ConfigPath

CONSTANT IndexPaths      \* the paths that may be entered, with all their prefixes

VARIABLES
    byPath,         \* the paths with an entry in the map
    nodes,          \* the trie's nodes
    marked          \* the nodes with an entryKey

indexVars == <<byPath, nodes, marked>>

Root == << >>

ASSUME PathsAreSequences ==
    /\ IndexPaths \subseteq Seq(UNION {{p[i] : i \in 1..Len(p)} : p \in IndexPaths}) /\ Root \in IndexPaths
    /\ \A p \in IndexPaths : \A n \in 0..Len(p) : SubSeq(p, 1, n) \in IndexPaths

-----------------------------------------------------------------------------
Prefixes(p) == {q \in IndexPaths : isPathPrefix(q, p)}

setResolvedPath(p) ==
    /\ byPath' = byPath \cup {p}
    /\ nodes' = nodes \cup Prefixes(p)
    /\ marked' = marked \cup {p}

(* Going up from p, the nodes without children and without an entry are removed. *)
prunable(q, p) == \A n \in nodes : isPathPrefix(q, n) => isPathPrefix(n, p) /\ n \notin marked \ {p}

deleteResolvedPath(p) ==
    /\ p \in byPath
    /\ byPath' = byPath \ {p}
    /\ marked' = marked \ {p}
    /\ nodes' = nodes \ {q \in Prefixes(p) \ {Root} : prunable(q, p)}

(* A walk from the root gets to a node over nodes only. *)
Reached(q) == Prefixes(q) \subseteq nodes

Bug_ancestors(p) == {q \in marked : q # p /\ isPathPrefix(q, p) /\ Len(q) + 1 = Len(p)}
ancestors(p) == {q \in marked : isPathPrefix(q, p) /\ Reached(q)}
descendants(p) == {q \in marked : isPathPrefix(p, q) /\ Reached(q)}

findRelatedResolvedPaths(p) == (ancestors(p) \cup ({p} \cap byPath) \cup descendants(p)) \cap byPath

(* The last entry that the walk to p passes owns p. *)
Bug_owner(p) == CHOOSE q \in ancestors(p) : \A r \in ancestors(p) : Len(q) <= Len(r)
owner(p) == CHOOSE q \in ancestors(p) : \A r \in ancestors(p) : Len(r) <= Len(q)

-----------------------------------------------------------------------------
IndexInit == byPath = {} /\ nodes = {Root} /\ marked = {}

IndexNext == \E p \in IndexPaths : setResolvedPath(p) \/ deleteResolvedPath(p)

IndexSpec == IndexInit /\ [][IndexNext]_indexVars

-----------------------------------------------------------------------------
(* Deletions leave no dead branch: the trie is as large as its entries need.   *)
NoDeadBranch == nodes = {Root} \cup {q \in IndexPaths : \E p \in byPath : isPathPrefix(q, p)}

(* Pruning neither takes nor leaves too much: the trie loses no entry that       *)
(* overlaps a path, finds no other, and has no dead branch.                      *)
RelatedIsExact ==
    /\ \A p \in IndexPaths : findRelatedResolvedPaths(p) = {q \in byPath : overlap(p, q)}
    /\ NoDeadBranch

(* The owner of a path is its nearest entry, whatever was deleted in between.  *)
OwnerIsNearest ==
    \A p \in IndexPaths : (\E q \in byPath : isPathPrefix(q, p)) =>
        /\ owner(p) \in byPath /\ isPathPrefix(owner(p), p)
        /\ \A q \in byPath : isPathPrefix(q, p) => isPathPrefix(q, owner(p))
=============================================================================
