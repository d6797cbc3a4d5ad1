----------------------------- MODULE MergeProofs -----------------------------
(***************************************************************************)
(* The merge and the index of its resolved paths: the trie of PathIndex    *)
(* finds exactly the entries that overlap a path and the nearest one, and  *)
(* the merge loses no error, for all paths, sources and budgets.           *)
(***************************************************************************)
EXTENDS Merge, PathIndex, FiniteSetTheorems, DiagnosticsProofs

-----------------------------------------------------------------------------
(***************************************************************************)
(* Paths.                                                                  *)
(***************************************************************************)
(* Every set of numbers has a least one: what induction is replaced by below. *)
LEMMA LeastNumber ==
    ASSUME NEW T \in SUBSET Nat, T # {}
    PROVE  \E m \in T : \A n \in T : m <= n
<1>1. IsWellFoundedOn(OpToRel(<, Nat), Nat)
    BY NatLessThanWellFounded
<1>2. PICK m \in T : \A n \in T : ~(<<n, m>> \in OpToRel(<, Nat))
    BY <1>1, WFMin
<1>3. \A n \in T : ~(n < m)
    BY <1>2 DEF OpToRel
<1>4. QED
    BY <1>3

(* Being a prefix is reflexive and transitive, and the root precedes all paths. *)
LEMMA PrefixReflexive ==
    ASSUME NEW S, NEW p \in Seq(S) PROVE isPathPrefix(p, p)
BY DEF isPathPrefix

(* The prefixes of a prefix of a path are prefixes of the path. *)
LEMMA PrefixTransitive ==
    ASSUME NEW S, NEW p \in Seq(S), NEW q \in Seq(S), NEW r \in Seq(S),
           isPathPrefix(p, q), isPathPrefix(q, r)
    PROVE  isPathPrefix(p, r)
BY DEF isPathPrefix

(* The three facts in the form that the steps below use, about IndexPaths. *)
LEMMA PathPrefixes ==
    /\ Root \in IndexPaths
    /\ \A p \in IndexPaths : isPathPrefix(p, p) /\ isPathPrefix(Root, p)
    /\ \A p, q, r \in IndexPaths : isPathPrefix(p, q) /\ isPathPrefix(q, r) => isPathPrefix(p, r)
<1> DEFINE S == UNION {{p[i] : i \in 1..Len(p)} : p \in IndexPaths}
<1>1. Root \in IndexPaths /\ \A p \in IndexPaths : p \in Seq(S)
  BY PathsAreSequences
<1> HIDE DEF S
<1>2. \A p \in IndexPaths : isPathPrefix(p, p)
  BY <1>1, PrefixReflexive
<1>3. \A p \in IndexPaths : isPathPrefix(Root, p)
  BY <1>1 DEF isPathPrefix, Root
<1>4. \A p, q, r \in IndexPaths : isPathPrefix(p, q) /\ isPathPrefix(q, r) => isPathPrefix(p, r)
  BY <1>1, PrefixTransitive
<1> QED BY <1>1, <1>2, <1>3, <1>4

-----------------------------------------------------------------------------
(* The inductive invariant: the map and the trie agree, and the trie is no larger. *)
TrieInv == byPath \subseteq IndexPaths /\ marked = byPath /\ NoDeadBranch

LEMMA TrieInit == IndexInit => TrieInv
BY DEF IndexInit, TrieInv, NoDeadBranch

(* An insertion adds just the nodes on the way to the new entry. *)
LEMMA TrieSet ==
    ASSUME TrieInv, NEW p \in IndexPaths, setResolvedPath(p) PROVE TrieInv'
<1>1. byPath' \subseteq IndexPaths /\ marked' = byPath'
  BY DEF TrieInv, setResolvedPath
<1>2. NoDeadBranch'
  BY DEF TrieInv, NoDeadBranch, setResolvedPath, Prefixes
<1> QED BY <1>1, <1>2 DEF TrieInv

(* A deletion removes just the nodes that no other entry needs. *)
LEMMA TrieDelete ==
    ASSUME TrieInv, NEW p \in IndexPaths, deleteResolvedPath(p) PROVE TrieInv'
<1> USE PathPrefixes
<1>1. byPath' \subseteq IndexPaths /\ marked' = byPath'
  BY DEF TrieInv, deleteResolvedPath
<1>2. ASSUME NEW q \in nodes', q # Root
      PROVE  \E r \in byPath' : isPathPrefix(q, r)
  <2>1. q \in nodes /\ ~(q \in Prefixes(p) /\ prunable(q, p))
    BY <1>2 DEF deleteResolvedPath
  <2>2. PICK r \in byPath : isPathPrefix(q, r)
    BY <1>2, <2>1 DEF TrieInv, NoDeadBranch
  <2>3. q \in IndexPaths /\ r \in IndexPaths
    BY <2>1, <2>2 DEF TrieInv, NoDeadBranch
  <2>4. CASE r # p
    BY <2>2, <2>4 DEF deleteResolvedPath
  <2>5. CASE r = p
    <3>1. ~prunable(q, p)
      BY <2>1, <2>2, <2>3, <2>5 DEF Prefixes
    <3>2. PICK n \in nodes : isPathPrefix(q, n) /\ ~(isPathPrefix(n, p) /\ n \notin marked \ {p})
      BY <3>1 DEF prunable
    <3>3. CASE n \in marked \ {p}
      BY <3>2, <3>3 DEF TrieInv, deleteResolvedPath
    <3>4. CASE ~isPathPrefix(n, p)
      <4>1. PICK s \in byPath : isPathPrefix(n, s)
        BY <3>4 DEF TrieInv, NoDeadBranch
      <4>2. s # p /\ n \in IndexPaths /\ s \in IndexPaths
        BY <3>4, <4>1 DEF TrieInv, NoDeadBranch
      <4>3. isPathPrefix(q, s)
        BY <2>3, <3>2, <4>1, <4>2
      <4> QED BY <4>1, <4>2, <4>3 DEF deleteResolvedPath
    <3> QED BY <3>2, <3>3, <3>4
  <2> QED BY <2>4, <2>5
<1>3. ASSUME NEW q \in IndexPaths, NEW r \in byPath', isPathPrefix(q, r)
      PROVE  q \in nodes'
  <2>1. r \in byPath /\ r # p /\ r \in IndexPaths
    BY DEF TrieInv, deleteResolvedPath
  <2>2. q \in nodes /\ r \in nodes /\ r \in marked \ {p}
    BY <1>3, <2>1 DEF TrieInv, NoDeadBranch
  <2>3. ~prunable(q, p)
    BY <1>3, <2>2 DEF prunable
  <2> QED BY <2>2, <2>3 DEF deleteResolvedPath
<1>4. Root \in nodes' /\ nodes' \subseteq IndexPaths
  BY DEF TrieInv, NoDeadBranch, deleteResolvedPath
<1>5. NoDeadBranch'
  BY <1>2, <1>3, <1>4 DEF NoDeadBranch
<1> QED BY <1>1, <1>5 DEF TrieInv

(* Insertions and deletions in any order leave the trie exactly as large as its *)
(* entries need (setResolvedPath, deleteResolvedPath and deleteTriePath).        *)
THEOREM TrieIsExact == IndexSpec => []TrieInv
<1>1. TrieInv /\ [IndexNext]_indexVars => TrieInv'
  <2> SUFFICES ASSUME TrieInv, [IndexNext]_indexVars PROVE TrieInv'
    OBVIOUS
  <2>1. ASSUME NEW p \in IndexPaths, setResolvedPath(p) PROVE TrieInv'
    BY <2>1, TrieSet
  <2>2. ASSUME NEW p \in IndexPaths, deleteResolvedPath(p) PROVE TrieInv'
    BY <2>2, TrieDelete
  <2>3. CASE UNCHANGED indexVars
    BY <2>3 DEF indexVars, TrieInv, NoDeadBranch
  <2> QED BY <2>1, <2>2, <2>3 DEF IndexNext
<1> QED BY <1>1, TrieInit, PTL DEF IndexSpec

(* No dead branch stays in the trie. *)
THEOREM NoDeadBranchHolds == IndexSpec => []NoDeadBranch
<1>1. TrieInv => NoDeadBranch
  BY DEF TrieInv
<1> QED BY <1>1, TrieIsExact, PTL

(* In such a trie the walks of findRelatedResolvedPaths meet exactly the entries *)
(* that overlap a path.                                                          *)
LEMMA WalksMeetOverlaps ==
    ASSUME TrieInv PROVE RelatedIsExact
<1> USE PathPrefixes
<1>1. SUFFICES ASSUME NEW p \in IndexPaths
               PROVE  findRelatedResolvedPaths(p) = {q \in byPath : overlap(p, q)}
  BY DEF RelatedIsExact, TrieInv
<1>2. \A q \in byPath : q \in marked /\ q \in IndexPaths /\ Reached(q)
  BY DEF TrieInv, NoDeadBranch, Reached, Prefixes
<1>3. \A q \in byPath : q = p => overlap(p, q)
  BY DEF overlap
<1> QED BY <1>2, <1>3 DEF findRelatedResolvedPaths, ancestors, descendants, overlap, TrieInv

(* The index never misses an overlapping owner and never invents one: what the   *)
(* conflict check and the ownership of the merge rely on; and it has no node more *)
(* than that needs.                                                              *)
THEOREM RelatedIsExactHolds == IndexSpec => []RelatedIsExact
<1>1. TrieInv => RelatedIsExact
  BY WalksMeetOverlaps
<1> QED BY <1>1, TrieIsExact, PTL

-----------------------------------------------------------------------------
(* Among the prefixes of a path there is a longest one. *)
LEMMA LongestPrefix ==
    ASSUME NEW p \in IndexPaths, NEW S \in SUBSET IndexPaths, S # {}, \A q \in S : isPathPrefix(q, p)
    PROVE  \E q \in S : \A r \in S : Len(r) <= Len(q)
<1>. DEFINE T == {Len(p) - Len(q) : q \in S}
<1>1. \A q \in IndexPaths : Len(q) \in Nat
    BY PathsAreSequences
<1>2. T \in SUBSET Nat /\ T # {}
    BY <1>1 DEF isPathPrefix
<1>. HIDE DEF T
<1>3. PICK m \in T : \A n \in T : m <= n
    BY <1>2, LeastNumber
<1>4. PICK q \in S : m = Len(p) - Len(q)
    BY <1>3 DEF T
<1>5. \A r \in S : Len(p) - Len(q) <= Len(p) - Len(r)
    BY <1>3, <1>4 DEF T
<1>6. QED
    BY <1>1, <1>4, <1>5

(* Of two prefixes of a path the shorter one is a prefix of the other. *)
LEMMA PrefixesAreOrdered ==
    ASSUME NEW S, NEW p \in Seq(S), NEW q \in Seq(S), NEW r \in Seq(S),
           isPathPrefix(q, p), isPathPrefix(r, p), Len(q) <= Len(r)
    PROVE  isPathPrefix(q, r)
BY DEF isPathPrefix

(* The owner that the walk ends with is the nearest entry: all other entries on  *)
(* the way are prefixes of it (synchronizeCoercedResolvedPaths relies on it).    *)
LEMMA WalkEndsAtNearest ==
    ASSUME TrieInv PROVE OwnerIsNearest
<1>. USE PathPrefixes
<1>1. SUFFICES ASSUME NEW p \in IndexPaths, \E q \in byPath : isPathPrefix(q, p)
               PROVE  /\ owner(p) \in byPath /\ isPathPrefix(owner(p), p)
                      /\ \A q \in byPath : isPathPrefix(q, p) => isPathPrefix(q, owner(p))
    BY DEF OwnerIsNearest
<1>2. \A q \in byPath : q \in marked /\ q \in IndexPaths /\ Reached(q)
    BY DEF TrieInv, NoDeadBranch, Reached, Prefixes
<1>3. ancestors(p) = {q \in byPath : isPathPrefix(q, p)}
    BY <1>2 DEF ancestors, TrieInv
<1>4. \E q \in ancestors(p) : \A r \in ancestors(p) : Len(r) <= Len(q)
    <2>1. ancestors(p) \in SUBSET IndexPaths /\ ancestors(p) # {} /\ \A q \in ancestors(p) : isPathPrefix(q, p)
        BY <1>1, <1>2, <1>3
    <2>2. QED
        BY <2>1, LongestPrefix
<1>5. owner(p) \in ancestors(p) /\ \A r \in ancestors(p) : Len(r) <= Len(owner(p))
    BY <1>4 DEF owner
<1>6. ASSUME NEW q \in byPath, isPathPrefix(q, p) PROVE isPathPrefix(q, owner(p))
    <2>. DEFINE S == UNION {{r[i] : i \in 1..Len(r)} : r \in IndexPaths}
    <2>1. p \in Seq(S) /\ q \in Seq(S) /\ owner(p) \in Seq(S)
        BY <1>2, <1>3, <1>5, PathsAreSequences
    <2>2. isPathPrefix(owner(p), p) /\ Len(q) <= Len(owner(p))
        BY <1>3, <1>5, <1>6
    <2>. HIDE DEF S
    <2>3. QED
        BY <1>6, <2>1, <2>2, PrefixesAreOrdered
<1>7. QED
    BY <1>3, <1>5, <1>6

(* Whatever was inserted and deleted, the owner of a path is its nearest entry. *)
THEOREM OwnerIsNearestHolds == IndexSpec => []OwnerIsNearest
<1>1. TrieInv => OwnerIsNearest
    BY WalkEndsAtNearest
<1>2. QED
    BY <1>1, TrieIsExact, PTL

-----------------------------------------------------------------------------
(***************************************************************************)
(* The merge.                                                              *)
(***************************************************************************)
(* Prefixes and overlaps of the paths of the merge. *)
LEMMA MergePaths ==
    /\ \A p \in Paths : isPathPrefix(p, p) /\ overlap(p, p)
    /\ \A p, q \in Paths : overlap(p, q) = overlap(q, p)
    /\ \A p, q, r \in Paths : isPathPrefix(p, q) /\ isPathPrefix(q, r) => isPathPrefix(p, r)
    /\ \A p, q, r \in Paths : isPathPrefix(q, p) /\ isPathPrefix(r, p) => overlap(q, r)
<1>1. \A p \in Paths : p \in Seq(STRING)
    BY MergeConstants DEF MergeConstants
<1>2. \A p \in Paths : isPathPrefix(p, p)
    BY <1>1, PrefixReflexive
<1>3. \A p, q, r \in Paths : isPathPrefix(p, q) /\ isPathPrefix(q, r) => isPathPrefix(p, r)
    BY <1>1, PrefixTransitive
<1>4. ASSUME NEW p \in Paths, NEW q \in Paths, NEW r \in Paths, isPathPrefix(q, p), isPathPrefix(r, p)
      PROVE  overlap(q, r)
    <2>1. CASE Len(q) <= Len(r)
        BY <1>1, <1>4, <2>1, PrefixesAreOrdered DEF overlap
    <2>2. CASE Len(r) <= Len(q)
        BY <1>1, <1>4, <2>2, PrefixesAreOrdered DEF overlap
    <2>3. QED
        BY <1>1, <2>1, <2>2
<1>5. QED
    BY <1>2, <1>3, <1>4 DEF overlap

(* A path that overlaps two paths that do not overlap each other is above both. *)
LEMMA AboveBoth ==
    ASSUME NEW q \in Paths, NEW w \in Paths, NEW p \in Paths,
           overlap(q, w), overlap(q, p), ~overlap(w, p)
    PROVE  isPathPrefix(q, w) /\ Len(q) < Len(w)
<1>1. ~isPathPrefix(w, q)
    BY MergePaths DEF overlap
<1>2. isPathPrefix(q, w)
    BY <1>1 DEF overlap
<1>3. w \in Seq(STRING) /\ q \in Seq(STRING)
    BY MergeConstants DEF MergeConstants
<1>4. QED
    BY <1>1, <1>2, <1>3 DEF isPathPrefix

(***************************************************************************)
(* The inductive invariant: a source half written is half laid over the    *)
(* tree that was there before it.                                          *)
(***************************************************************************)
Written == {p \in contributed : p \notin DOMAIN entries}
Spared == {q \in DOMAIN base.config : \A p \in Written : ~overlap(p, q)}
Above == {q \in DOMAIN base.config : \E p \in Written : overlap(q, p) /\ Len(q) < Len(p)}

NewOwner(p) ==
    [winner |-> source, priority |-> priority,
     overridden |-> UNION {base.resolved[q].overridden \cup {base.resolved[q].winner} : q \in displacedBy(p)}]

PartlyOverlaid ==
    /\ config = [p \in Spared \cup Written |-> IF p \in Written THEN whole[p] ELSE base.config[p]]
    /\ resolved = [p \in Spared \cup Written |-> IF p \in Spared THEN base.resolved[p] ELSE NewOwner(p)]
    /\ displaced = [q \in Above |-> base.resolved[q]]

Leaves(S) == S \subseteq Paths /\ \A p, q \in S : overlap(p, q) => p = q

(* All owners are among the first n sources. *)
OwnedBy(f, n) == \A p \in DOMAIN f : f[p].winner \in 1..n /\ f[p].overridden \subseteq 1..n

Underway ==
    /\ whole \in Contents
    /\ DOMAIN entries \subseteq DOMAIN whole /\ entries = [q \in DOMAIN entries |-> whole[q]]
    /\ DOMAIN base.config = DOMAIN base.resolved /\ Leaves(DOMAIN base.config)
    /\ source > 0 /\ OwnedBy(base.resolved, source - 1)
    /\ PartlyOverlaid

(* The tree was given up, by a coercion with too many rules or by the very first write. *)
Dropped == stage \in {"finish", "done"} /\ failed /\ ~coerced /\ config = << >>

OverlayInv ==
    /\ source \in Nat
    /\ stage # "done" => OwnedBy(resolved, source)
    /\ stage # "done" \/ Dropped => Leaves(DOMAIN resolved)
    /\ resolved = [p \in DOMAIN resolved |-> resolved[p]]
    /\ ~coerced /\ ~Dropped => DOMAIN config = DOMAIN resolved /\ config = [p \in DOMAIN config |-> config[p]]
    /\ stage \in {"sources", "entries"} => ~coerced
    /\ stage = "entries" => Underway
    /\ stage = "done" /\ ~Dropped => DOMAIN resolved = DOMAIN config

(* What a source contributes are leaves; they are above, at or below others. *)
LEMMA WholeIsTree ==
    ASSUME whole \in Contents
    PROVE  Leaves(DOMAIN whole) /\ contributed \subseteq DOMAIN whole
BY ContentsAreTrees DEF IsTree, Leaves, contributed

(* An empty object does not replace what has entries, in the tree as it is as in *)
(* the tree before the source.                                                   *)
LEMMA EmptyOverlays ==
    ASSUME Underway, NEW p \in DOMAIN entries
    PROVE  /\ entries[p] = whole[p]
           /\ isEmptyOverlay(p) = (p \notin contributed)
<1>. USE DEF Underway
<1>1. Leaves(DOMAIN whole) /\ contributed \subseteq DOMAIN whole
    BY WholeIsTree
<1>2. entries[p] = whole[p] /\ p \in DOMAIN whole /\ p \in Paths
    BY <1>1 DEF Leaves
<1>3. DOMAIN config = Spared \cup Written
    BY DEF PartlyOverlaid
<1>4. ASSUME NEW q \in Written, q # p PROVE ~overlap(q, p)
    BY <1>1, <1>2, <1>4 DEF Leaves, Written
<1>5. p \notin Written
    BY DEF Written
<1>6. ASSUME NEW q \in Spared \cup Written, q # p, isPathPrefix(p, q) PROVE q \in DOMAIN base.config
    <2>1. overlap(q, p)
        BY <1>6 DEF overlap
    <2>2. QED
        BY <1>4, <1>6, <2>1 DEF Spared
<1>7. ASSUME NEW q \in DOMAIN base.config, q # p, isPathPrefix(p, q) PROVE q \in Spared
    <2>1. ASSUME NEW w \in Written, overlap(w, q) PROVE FALSE
        <3>1. w \in Paths /\ q \in Paths /\ w # p
            BY <1>1, <1>5 DEF Leaves, Written
        <3>2. overlap(w, p)
            BY <1>2, <1>7, <2>1, <3>1, MergePaths DEF overlap
        <3>3. QED
            BY <1>4, <3>1, <3>2
    <2>2. QED
        BY <2>1 DEF Spared
<1>8. isNonEmptyObject(p) = \E q \in DOMAIN base.config : q # p /\ isPathPrefix(p, q)
    BY <1>3, <1>6, <1>7 DEF isNonEmptyObject, Spared
<1>9. QED
    BY <1>2, <1>8 DEF isEmptyOverlay, contributed

(* What overlaps a path that is about to be written: leaves of the tree before   *)
(* the source, still there, or displaced by a path beside this one.              *)
LEMMA Overlapped ==
    ASSUME Underway, NEW p \in DOMAIN entries, p \in contributed
    PROVE  /\ p \in Paths /\ p \notin Written
           /\ \A w \in Written : ~overlap(w, p)
           /\ displacedBy(p) \subseteq Spared \cup Above
           /\ Spared \cap Written = {} /\ Above \cap (Spared \cup Written) = {}
<1>. USE DEF Underway
<1>1. Leaves(DOMAIN whole) /\ contributed \subseteq DOMAIN whole
    BY WholeIsTree
<1>2. p \in Paths /\ p \notin Written
    BY <1>1 DEF Leaves, Written
<1>3. ASSUME NEW w \in Written PROVE ~overlap(w, p)
    BY <1>1, <1>2 DEF Leaves, Written
<1>4. ASSUME NEW q \in displacedBy(p), q \notin Spared PROVE q \in Above
    <2>1. q \in DOMAIN base.config /\ overlap(q, p) /\ q \in Paths
        BY <1>2, MergePaths DEF displacedBy, Leaves
    <2>2. PICK w \in Written : overlap(w, q)
        BY <1>4, <2>1 DEF Spared
    <2>3. w \in Paths /\ overlap(q, w) /\ ~overlap(w, p)
        BY <1>1, <1>3, <2>1, <2>2, MergePaths DEF Leaves, Written
    <2>4. Len(q) < Len(w)
        BY <1>2, <2>1, <2>3, AboveBoth
    <2>5. QED
        BY <2>1, <2>3, <2>4 DEF Above
<1>5. ASSUME NEW q \in Written, q \in DOMAIN base.config PROVE q \notin Spared /\ q \notin Above
    <2>1. q \in Paths /\ overlap(q, q)
        BY <1>1, MergePaths DEF Leaves, Written
    <2>2. ASSUME NEW w \in Written, overlap(q, w) PROVE Len(q) = Len(w)
        BY <1>1, <2>2 DEF Leaves, Written
    <2>3. \A w \in Written : overlap(q, w) => ~(Len(q) < Len(w))
        BY <2>1, <2>2, MergeConstants DEF MergeConstants
    <2>4. QED
        BY <2>1, <2>3 DEF Spared, Above
<1>6. ASSUME NEW q \in Above PROVE q \notin Spared
    <2>1. PICK w \in Written : overlap(q, w)
        BY DEF Above
    <2>2. w \in Paths /\ q \in Paths
        BY <1>1 DEF Leaves, Written, Above
    <2>3. QED
        BY <2>1, <2>2, MergePaths DEF Spared
<1>7. QED
    BY <1>2, <1>3, <1>4, <1>5, <1>6 DEF Spared, Above

(* The owners found for an entry are those of the leaves it displaces. *)
LEMMA FoundOwners ==
    ASSUME Underway, NEW p \in DOMAIN entries, p \in contributed
    PROVE  relatedOwners(p) = {base.resolved[q] : q \in displacedBy(p)}
<1>. USE Overlapped DEF Underway
<1>1. DOMAIN resolved = Spared \cup Written /\ DOMAIN displaced = Above
    BY DEF PartlyOverlaid
<1>2. \A q \in Spared : resolved[q] = base.resolved[q]
    BY DEF PartlyOverlaid
<1>3. \A q \in Above : displaced[q] = base.resolved[q]
    BY DEF PartlyOverlaid
<1>4. {r \in DOMAIN resolved : overlap(r, p)} = {q \in Spared : overlap(q, p)}
    BY <1>1
<1>5. {r \in DOMAIN displaced : overlap(r, p)} = {q \in Above : overlap(q, p)}
    BY <1>1
<1>6. displacedBy(p) = {q \in Spared : overlap(q, p)} \cup {q \in Above : overlap(q, p)}
    <2>1. \A q \in DOMAIN base.config : q \in Paths /\ overlap(q, p) = overlap(p, q)
        BY MergePaths DEF Leaves
    <2>2. Spared \subseteq DOMAIN base.config /\ Above \subseteq DOMAIN base.config
        BY DEF Spared, Above
    <2>3. \A q \in displacedBy(p) : q \in DOMAIN base.config /\ overlap(p, q) /\ q \in Spared \cup Above
        BY DEF displacedBy
    <2>4. \A q \in DOMAIN base.config : overlap(p, q) => q \in displacedBy(p)
        BY DEF displacedBy
    <2>5. QED
        BY <2>1, <2>2, <2>3, <2>4
<1>7. QED
    BY <1>2, <1>3, <1>4, <1>5, <1>6 DEF relatedOwners

(* Its history is that of the leaves it displaces: no source is its own past. *)
LEMMA HistoryOfEntry ==
    ASSUME OverlayInv, Underway, NEW p \in DOMAIN entries, p \in contributed
    PROVE  [winner |-> source, priority |-> priority, overridden |-> history(p)] = NewOwner(p)
<1>. DEFINE past == UNION {base.resolved[q].overridden \cup {base.resolved[q].winner} : q \in displacedBy(p)}
<1>1. \A q \in displacedBy(p) : q \in DOMAIN base.resolved
    BY DEF displacedBy, Underway
<1>2. source \notin past
    <2>1. source \in Nat /\ source \notin 1..source - 1
        BY DEF OverlayInv
    <2>2. QED
        BY <1>1, <2>1 DEF Underway, OwnedBy
<1>3. history(p) = past
    BY <1>2, FoundOwners DEF history
<1>4. QED
    BY <1>3 DEF NewOwner

(* Writing an entry lays it over the tree, and nothing else. *)
LEMMA EntryOverlaid ==
    ASSUME OverlayInv, Underway, NEW p \in DOMAIN entries, p \in contributed,
           entries' = [q \in DOMAIN entries \ {p} |-> entries[q]],
           config' = write(config, p, entries[p]),
           resolved' = write(resolved, p, [winner |-> source, priority |-> priority, overridden |-> history(p)]),
           displaced' = [q \in DOMAIN displaced \cup
                            {r \in DOMAIN resolved : overlap(r, p) /\ Len(r) < Len(p)} |->
                               IF q \in DOMAIN resolved THEN resolved[q] ELSE displaced[q]],
           UNCHANGED inputVars
    PROVE  PartlyOverlaid'
<1>. USE DEF inputVars
<1>1. contributed' = contributed /\ Written' = Written \cup {p}
    BY DEF contributed, Written
<1>2. Spared' = {q \in Spared : ~overlap(q, p)}
    <2>1. \A q \in DOMAIN base.config : overlap(q, p) = overlap(p, q)
        BY Overlapped, MergePaths DEF Underway, Leaves
    <2>2. QED
        BY <1>1, <2>1 DEF Spared
<1>3. {r \in Spared \cup Written : ~overlap(r, p)} \cup {p} = Spared' \cup Written'
    BY <1>1, <1>2, Overlapped
<1>4. entries[p] = whole[p]
    BY EmptyOverlays
<1>5. p \notin Spared'
    BY <1>2, Overlapped, MergePaths
<1>6. config' = [q \in Spared' \cup Written' |-> IF q \in Written' THEN whole[q] ELSE base.config[q]]
    <2>1. DOMAIN config = Spared \cup Written
          /\ \A q \in Spared \cup Written : config[q] = IF q \in Written THEN whole[q] ELSE base.config[q]
        BY DEF Underway, PartlyOverlaid
    <2>2. config' = [q \in Spared' \cup Written' |-> IF q = p THEN whole[p] ELSE config[q]]
        BY <1>3, <1>4, <2>1 DEF write
    <2>3. \A q \in Spared' \cup Written' : q # p => q \in Spared \cup Written /\ (q \in Written' <=> q \in Written)
        BY <1>1, <1>2
    <2>4. QED
        BY <1>1, <2>1, <2>2, <2>3
<1>7. resolved' = [q \in Spared' \cup Written' |-> IF q \in Spared' THEN base.resolved[q] ELSE NewOwner(q)]
    <2>1. DOMAIN resolved = Spared \cup Written
          /\ \A q \in Spared \cup Written : resolved[q] = IF q \in Spared THEN base.resolved[q] ELSE NewOwner(q)
        BY DEF Underway, PartlyOverlaid
    <2>2. resolved' = [q \in Spared' \cup Written' |-> IF q = p THEN NewOwner(p) ELSE resolved[q]]
        BY <1>3, <2>1, HistoryOfEntry DEF write
    <2>3. \A q \in Spared' \cup Written' : q # p => q \in Spared \cup Written /\ (q \in Spared' <=> q \in Spared)
        BY <1>1, <1>2, Overlapped
    <2>4. QED
        BY <1>5, <2>1, <2>2, <2>3
<1>8. displaced' = [q \in Above' |-> base.resolved[q]]
    <2>1. /\ DOMAIN resolved = Spared \cup Written /\ DOMAIN displaced = Above
          /\ \A q \in Spared : resolved[q] = base.resolved[q]
          /\ \A q \in Above : displaced[q] = base.resolved[q]
        BY DEF Underway, PartlyOverlaid
    <2>2. {r \in DOMAIN resolved : overlap(r, p) /\ Len(r) < Len(p)} = {r \in Spared : overlap(r, p) /\ Len(r) < Len(p)}
        BY <2>1, Overlapped
    <2>3. Above' = Above \cup {r \in DOMAIN base.config : overlap(r, p) /\ Len(r) < Len(p)}
        BY <1>1 DEF Above
    <2>4. {r \in DOMAIN base.config : overlap(r, p) /\ Len(r) < Len(p)} \subseteq displacedBy(p)
        BY Overlapped, MergePaths DEF displacedBy, Underway, Leaves
    <2>5. Spared \subseteq DOMAIN base.config
        BY DEF Spared
    <2>6. Above' = Above \cup {r \in Spared : overlap(r, p) /\ Len(r) < Len(p)}
        BY <2>3, <2>4, <2>5, Overlapped
    <2>7. \A q \in Above' : (IF q \in DOMAIN resolved THEN resolved[q] ELSE displaced[q]) = base.resolved[q]
        BY <2>1, <2>6, Overlapped
    <2>8. QED
        BY <2>1, <2>2, <2>6, <2>7
<1>9. NewOwner(p)' = NewOwner(p) /\ \A q : NewOwner(q)' = NewOwner(q)
    BY DEF NewOwner, displacedBy
<1>10. QED
    BY <1>6, <1>7, <1>8, <1>9 DEF PartlyOverlaid

TreeOwned ==
    /\ Leaves(DOMAIN resolved) /\ OwnedBy(resolved, source)
    /\ resolved = [p \in DOMAIN resolved |-> resolved[p]]
    /\ DOMAIN config = DOMAIN resolved /\ config = [p \in DOMAIN config |-> config[p]]

(* A tree partly overlaid is a tree, and its owners are sources already begun. *)
LEMMA UnderwayIsOwned == Underway /\ source \in Nat => TreeOwned
<1>. SUFFICES ASSUME Underway, source \in Nat PROVE TreeOwned
    OBVIOUS
<1>1. Leaves(DOMAIN whole) /\ contributed \subseteq DOMAIN whole
    BY WholeIsTree DEF Underway
<1>2. DOMAIN resolved = Spared \cup Written /\ DOMAIN config = Spared \cup Written
    BY DEF Underway, PartlyOverlaid
<1>3. Leaves(Spared \cup Written)
    <2>1. Spared \subseteq Paths /\ Written \subseteq Paths
        BY <1>1 DEF Underway, Leaves, Spared, Written
    <2>2. \A p \in Spared, w \in Written : ~overlap(w, p) /\ ~overlap(p, w)
        BY <2>1, MergePaths DEF Spared
    <2>3. QED
        BY <1>1, <2>1, <2>2 DEF Underway, Leaves, Spared, Written
<1>4. ASSUME NEW p \in Spared PROVE resolved[p].winner \in 1..source /\ resolved[p].overridden \subseteq 1..source
    <2>1. resolved[p] = base.resolved[p] /\ p \in DOMAIN base.resolved
        BY DEF Underway, PartlyOverlaid, Spared
    <2>2. 1..source - 1 \subseteq 1..source
        OBVIOUS
    <2>3. QED
        BY <2>1, <2>2 DEF Underway, OwnedBy
<1>5. ASSUME NEW p \in Written, p \notin Spared
      PROVE  resolved[p].winner \in 1..source /\ resolved[p].overridden \subseteq 1..source
    <2>1. resolved[p] = NewOwner(p)
        BY <1>5 DEF Underway, PartlyOverlaid
    <2>2. \A q \in displacedBy(p) : q \in DOMAIN base.resolved
        BY DEF Underway, displacedBy
    <2>3. source \in 1..source /\ 1..source - 1 \subseteq 1..source
        BY DEF Underway
    <2>4. NewOwner(p).overridden \subseteq 1..source
        BY <2>2, <2>3 DEF Underway, OwnedBy, NewOwner
    <2>5. QED
        BY <2>1, <2>3, <2>4 DEF NewOwner
<1>6. resolved = [p \in DOMAIN resolved |-> resolved[p]] /\ config = [p \in DOMAIN config |-> config[p]]
    BY DEF Underway, PartlyOverlaid
<1>7. QED
    BY <1>2, <1>3, <1>4, <1>5, <1>6 DEF TreeOwned, OwnedBy

LEMMA NextIsOwned == Underway' /\ (source \in Nat)' => TreeOwned'
BY UnderwayIsOwned, PTL

LEMMA OverlayInit == Init => OverlayInv
BY DEF Init, OverlayInv, Leaves, OwnedBy

(* A source begins with nothing written. *)
LEMMA OverlayBegin ==
    ASSUME OverlayInv, NEW c \in Contents, NEW pri \in Priorities, NEW warned, BeginSource(c, pri, warned)
    PROVE  OverlayInv'
<1>. USE DEF BeginSource
<1>1. /\ stage' = "entries" /\ whole' = c /\ entries' = c /\ source' = source + 1
      /\ base'.config = config /\ base'.resolved = resolved /\ displaced' = << >>
      /\ config' = config /\ resolved' = resolved /\ ~coerced /\ ~coerced' /\ source \in Nat
    BY DEF OverlayInv
<1>2. Leaves(DOMAIN resolved) /\ OwnedBy(resolved, source) /\ DOMAIN config = DOMAIN resolved
      /\ resolved = [p \in DOMAIN resolved |-> resolved[p]] /\ config = [p \in DOMAIN config |-> config[p]]
    BY <1>1 DEF OverlayInv, Dropped
<1>3. contributed' \subseteq DOMAIN entries'
    BY <1>1 DEF contributed
<1>4. Written' = {} /\ Spared' = DOMAIN config /\ Above' = {}
    BY <1>1, <1>3 DEF Written, Spared, Above
<1>5. PartlyOverlaid'
    BY <1>1, <1>2, <1>4 DEF PartlyOverlaid
<1>6. c = [q \in DOMAIN c |-> c[q]]
    BY ContentsAreTrees DEF IsTree
<1>7. Underway'
    BY <1>1, <1>2, <1>5, <1>6 DEF Underway
<1>8. OwnedBy(resolved', source')
    <2>1. 1..source \subseteq 1..source'
        BY <1>1
    <2>2. QED
        BY <1>1, <1>2, <2>1 DEF OwnedBy
<1>9. QED
    BY <1>1, <1>2, <1>7, <1>8 DEF OverlayInv

LEMMA OverlayEntry ==
    ASSUME OverlayInv, NEW p \in DOMAIN entries, applyEntry(p)
    PROVE  OverlayInv'
<1>1. Underway /\ stage = "entries" /\ source \in Nat /\ source' = source /\ ~coerced /\ ~coerced'
      /\ entries' = [q \in DOMAIN entries \ {p} |-> entries[q]] /\ UNCHANGED inputVars
    BY DEF applyEntry, OverlayInv, inputVars
<1>2. ASSUME config' = config, resolved' = resolved, stage' = "finish" PROVE OverlayInv'
    BY <1>1, <1>2 DEF OverlayInv, Dropped
<1>3. ASSUME stage' = stage, PartlyOverlaid' PROVE OverlayInv'
    <2>1. Underway'
        BY <1>1, <1>3 DEF Underway, inputVars
    <2>2. (source \in Nat)'
        BY <1>1
    <2>3. TreeOwned'
        BY <2>1, <2>2, NextIsOwned
    <2>4. QED
        BY <1>1, <1>3, <2>1, <2>2, <2>3 DEF OverlayInv, TreeOwned
<1>4. CASE isEmptyOverlay(p)
    <2>1. UNCHANGED <<config, resolved, displaced, stage>>
        BY <1>4 DEF applyEntry, treeVars
    <2>2. Written' = Written /\ Spared' = Spared /\ Above' = Above
        BY <1>1, <1>4, EmptyOverlays DEF Written, Spared, Above, contributed, inputVars
    <2>3. \A q : NewOwner(q)' = NewOwner(q)
        BY <1>1 DEF NewOwner, displacedBy, inputVars
    <2>4. PartlyOverlaid'
        BY <1>1, <2>1, <2>2, <2>3 DEF Underway, PartlyOverlaid, inputVars
    <2>5. QED
        BY <1>3, <2>1, <2>4
<1>5. CASE ~isEmptyOverlay(p)
    <2>1. CASE exceeds(projectedMergeKeyCount(p, entries[p]))
        BY <1>2, <1>5, <2>1 DEF applyEntry
    <2>2. CASE ~exceeds(projectedMergeKeyCount(p, entries[p]))
        <3>1. p \in contributed
            BY <1>1, <1>5, EmptyOverlays
        <3>2. PartlyOverlaid'
            BY <1>1, <1>5, <2>2, <3>1, EntryOverlaid DEF applyEntry
        <3>3. QED
            BY <1>3, <1>5, <2>2, <3>2 DEF applyEntry
    <2>3. QED
        BY <2>1, <2>2
<1>6. QED
    BY <1>4, <1>5

LEMMA OverlayFinish == ASSUME OverlayInv, Finish PROVE OverlayInv'
<1>. USE DEF Finish, inputVars
<1>1. stage' = "done" /\ source' = source /\ coerced' = coerced /\ config' = config
      /\ resolved' = ownersAfterCoercion
    OBVIOUS
<1>2. CASE coerced
    BY <1>1, <1>2 DEF OverlayInv, Dropped, ownersAfterCoercion
<1>3. CASE ~coerced
    <2>0. failed => failed'
        OBVIOUS
    <2>1. Dropped => Dropped'
        BY <1>1, <2>0 DEF Dropped
    <2>2. ~Dropped => DOMAIN config = DOMAIN resolved /\ config = [p \in DOMAIN config |-> config[p]]
        BY <1>3 DEF OverlayInv
    <2>3. resolved' = resolved
        BY <1>1, <1>3 DEF ownersAfterCoercion
    <2>4. QED
        BY <1>1, <1>3, <2>1, <2>2, <2>3 DEF OverlayInv, Dropped
<1>4. QED
    BY <1>2, <1>3

LEMMA OverlayInvStep == OverlayInv /\ [Next]_vars => OverlayInv'
<1>. SUFFICES ASSUME OverlayInv, [Next]_vars PROVE OverlayInv'
    OBVIOUS
<1>1. ASSUME UNCHANGED <<stage, entries, coerced, failed, config, resolved, displaced, inputVars>> PROVE OverlayInv'
    <2>1. Written' = Written /\ Spared' = Spared /\ Above' = Above
        BY <1>1 DEF Written, Spared, Above, contributed, inputVars
    <2>2. \A q : NewOwner(q)' = NewOwner(q)
        BY <1>1 DEF NewOwner, displacedBy, inputVars
    <2>3. PartlyOverlaid' = PartlyOverlaid
        BY <1>1, <2>1, <2>2 DEF PartlyOverlaid, inputVars
    <2>4. Underway' = Underway
        BY <1>1, <2>3 DEF Underway, inputVars
    <2>5. QED
        BY <1>1, <2>4 DEF OverlayInv, Dropped, inputVars
<1>2. ASSUME NEW pri \in Priorities, NEW c \in Contents, NEW warned \in BOOLEAN, BeginSource(c, pri, warned)
      PROVE  OverlayInv'
    BY <1>2, OverlayBegin
<1>3. ASSUME NEW pri \in Priorities, RejectSource(pri) PROVE OverlayInv'
    <2>1. /\ stage = "sources" /\ stage' = "sources" /\ source' = source + 1 /\ source \in Nat
          /\ UNCHANGED <<coerced, config, resolved>>
        BY <1>3 DEF RejectSource, OverlayInv
    <2>2. 1..source \subseteq 1..source'
        BY <2>1
    <2>3. QED
        BY <2>1, <2>2 DEF OverlayInv, Dropped, OwnedBy
<1>4. ASSUME NEW p \in DOMAIN entries, applyEntry(p) PROVE OverlayInv'
    BY <1>4, OverlayEntry
<1>5. CASE EndSource
    BY <1>5 DEF EndSource, OverlayInv, Dropped, treeVars, inputVars
<1>6. CASE EndMerge
    BY <1>6 DEF EndMerge, OverlayInv, Dropped, treeVars, inputVars
<1>7. CASE Finish
    BY <1>7, OverlayFinish
<1>8. ASSUME NEW p \in DOMAIN config, NEW t \in Decoded, CoerceRule(p, t) PROVE OverlayInv'
    BY <1>8 DEF CoerceRule, OverlayInv, Dropped, inputVars
<1>9. CASE RefuseRules
    <2>1. Dropped'
        BY <1>9 DEF RefuseRules, OverlayInv, Dropped
    <2>2. QED
        BY <1>9, <2>1 DEF RefuseRules, OverlayInv, inputVars
<1>10. CASE UNCHANGED vars
    BY <1>1, <1>10 DEF vars, treeVars, inputVars, issueVars
<1>11. QED
    BY <1>2, <1>3, <1>4, <1>5, <1>6, <1>7, <1>8, <1>9, <1>10 DEF Next

(* At every moment the tree is the one before the source with its entries so far *)
(* laid over it: the inductive invariant of the merge.                           *)
THEOREM OverlayInvHolds == Spec => []OverlayInv
BY OverlayInit, OverlayInvStep, PTL DEF Spec

-----------------------------------------------------------------------------
(***************************************************************************)
(* Errors and conflicts.                                                   *)
(***************************************************************************)
(* One more issue, also when it is reported only once, is an error that stays. *)
LEMMA ReportedOnce ==
    ASSUME NEW s \in Issues, NEW code \in Codes, code # "warning"
    PROVE  once(s, code) \in Issues /\ hasError(once(s, code))
<1>1. CASE contains(s, code)
    BY <1>1 DEF once, contains, hasError
<1>2. CASE ~contains(s, code)
    BY <1>2, AppendedIsError DEF once
<1>3. QED
    BY <1>1, <1>2

LEMMA RecordedKeepsErrors ==
    ASSUME NEW s \in Issues, provenance \in 0..MaxProvenanceEvents
    PROVE  /\ recorded(s) \in Issues
           /\ hasError(s) \/ provenance = MaxProvenanceEvents => hasError(recorded(s))
<1>1. CASE provenance < MaxProvenanceEvents
    BY <1>1, MergeConstants DEF recorded, MergeConstants
<1>2. CASE ~(provenance < MaxProvenanceEvents)
    <2>1. "provenance" \in Codes
        BY DEF Codes
    <2>2. QED
        BY <1>2, <2>1, ReportedOnce DEF recorded
<1>3. QED
    BY <1>1, <1>2

LEMMA AppendedCode ==
    ASSUME NEW s \in Issues, NEW code \in Codes
    PROVE  append(s, code) \in Issues /\ (hasError(s) => hasError(append(s, code)))
<1>1. <<code>> \in Seq(Codes)
    OBVIOUS
<1>2. QED
    BY <1>1, AppendKeepsErrors DEF append

(* Every failure is an error among the issues, however full they are. *)
ReportInv ==
    /\ issues \in Issues /\ provenance \in 0..MaxProvenanceEvents
    /\ failed \in BOOLEAN /\ (failed => hasError(issues))

LEMMA ReportInvStep == ReportInv /\ [Next]_vars => ReportInv'
<1>. SUFFICES ASSUME ReportInv, [Next]_vars PROVE ReportInv'
    OBVIOUS
<1>. USE DEF ReportInv
<1>1. {"warning", "rejected", "conflict", "keys", "paths", "coercion"} \subseteq Codes
    BY DEF Codes
<1>2. recordEvent => provenance' \in 0..MaxProvenanceEvents
    BY MergeConstants DEF recordEvent, MergeConstants
<1>3. ASSUME NEW pri \in Priorities, NEW c \in Contents, NEW warned \in BOOLEAN, BeginSource(c, pri, warned)
      PROVE  ReportInv'
    BY <1>1, <1>3, AppendedCode DEF BeginSource
<1>4. ASSUME NEW pri \in Priorities, RejectSource(pri) PROVE ReportInv'
    <2>1. append(issues, "rejected") \in Issues /\ hasError(append(issues, "rejected"))
        BY <1>1, AppendedIsError
    <2>2. QED
        BY <1>2, <1>4, <2>1, RecordedKeepsErrors DEF RejectSource
<1>5. ASSUME NEW p \in DOMAIN entries, applyEntry(p) PROVE ReportInv'
    <2>. DEFINE checked == IF conflict(p) THEN append(issues, "conflict") ELSE issues
    <2>1. checked \in Issues /\ (failed \/ conflict(p) => hasError(checked))
        BY <1>1, AppendedIsError
    <2>2. append(checked, "keys") \in Issues /\ hasError(append(checked, "keys"))
        BY <1>1, <2>1, AppendedIsError
    <2>3. recorded(checked) \in Issues
          /\ (failed \/ conflict(p) \/ provenance = MaxProvenanceEvents => hasError(recorded(checked)))
        BY <2>1, RecordedKeepsErrors
    <2>4. \/ UNCHANGED <<issues, failed, provenance>>
          \/ issues' = append(checked, "keys") /\ failed' = TRUE /\ provenance' = provenance
          \/ /\ issues' = recorded(checked) /\ recordEvent
             /\ failed' = (failed \/ conflict(p) \/ provenance = MaxProvenanceEvents)
        <3>1. CASE isEmptyOverlay(p)
            BY <1>5, <3>1 DEF applyEntry, treeVars, issueVars
        <3>2. CASE ~isEmptyOverlay(p)
            BY <1>5, <3>2 DEF applyEntry
        <3>3. QED
            BY <3>1, <3>2
    <2>. HIDE DEF checked
    <2>5. provenance' \in 0..MaxProvenanceEvents
        BY <1>2, <2>4
    <2>6. CASE UNCHANGED <<issues, failed, provenance>>
        BY <2>6
    <2>7. CASE issues' = append(checked, "keys") /\ failed' = TRUE
        BY <2>2, <2>5, <2>7
    <2>8. CASE issues' = recorded(checked) /\ failed' = (failed \/ conflict(p) \/ provenance = MaxProvenanceEvents)
        BY <2>3, <2>5, <2>8
    <2>9. QED
        BY <2>4, <2>6, <2>7, <2>8
<1>6. CASE EndSource
    BY <1>6 DEF EndSource, issueVars, treeVars
<1>7. CASE EndMerge
    BY <1>7 DEF EndMerge, issueVars, treeVars
<1>8. CASE Finish
    <2>1. once(issues, "paths") \in Issues /\ hasError(once(issues, "paths"))
        BY <1>1, ReportedOnce
    <2>2. QED
        BY <1>8, <2>1 DEF Finish
<1>9. ASSUME NEW p \in DOMAIN config, NEW t \in Decoded, CoerceRule(p, t) PROVE ReportInv'
    <2>1. append(issues, "coercion") \in Issues /\ hasError(append(issues, "coercion"))
        BY <1>1, AppendedIsError
    <2>2. \/ issues' = append(issues, "coercion") /\ failed' = TRUE /\ provenance' = provenance
          \/ issues' = issues /\ failed' = failed /\ recordEvent
        BY <1>9 DEF CoerceRule, issueVars
    <2>3. CASE issues' = append(issues, "coercion") /\ failed' = TRUE /\ provenance' = provenance
        BY <2>1, <2>3
    <2>4. CASE issues' = issues /\ failed' = failed /\ recordEvent
        BY <1>2, <2>4
    <2>5. QED
        BY <2>2, <2>3, <2>4
<1>10. CASE RefuseRules
    <2>1. append(issues, "coercion") \in Issues /\ hasError(append(issues, "coercion"))
        BY <1>1, AppendedIsError
    <2>2. QED
        BY <1>10, <2>1 DEF RefuseRules
<1>11. CASE UNCHANGED vars
    BY <1>11 DEF vars, issueVars, treeVars
<1>12. QED
    BY <1>3, <1>4, <1>5, <1>6, <1>7, <1>8, <1>9, <1>10, <1>11 DEF Next

LEMMA ReportInvHolds == Spec => []ReportInv
<1>1. Init => ReportInv
    <2>. SUFFICES ASSUME Init PROVE ReportInv
        OBVIOUS
    <2>1. << >> \in Issues
        BY DiagnosticsConstants DEF Issues, DiagnosticsConstants
    <2>2. 0 \in 0..MaxProvenanceEvents
        BY MergeConstants DEF MergeConstants
    <2>3. QED
        BY <2>1, <2>2 DEF Init, ReportInv
<1>2. QED
    BY <1>1, ReportInvStep, PTL DEF Spec

(* A tree is only given up for an error. *)
LEMMA DroppedIsGivenUp == ReportInv /\ Dropped => GivenUp
BY DEF ReportInv, Dropped, GivenUp, ok

(* MergeIsDeepMerge for all trees and sources: entry by entry, in any order, a   *)
(* source changes the tree and its owners as a deep merge of the whole would     *)
(* (applyEntry, collectOverriddenSourceIds), and in the end every leaf is owned  *)
(* (synchronizeCoercedResolvedPaths), unless there were too many rules and the   *)
(* result has failed and lost its tree (coerce, resolveConfig).                  *)
THEOREM MergeIsDeepMergeHolds == Spec => []MergeIsDeepMerge
<1>1. OverlayInv /\ ReportInv => MergeIsDeepMerge
    <2>1. ASSUME OverlayInv, stage = "entries", DOMAIN entries = {} PROVE Overlaid
        <3>1. Underway
            BY <2>1 DEF OverlayInv
        <3>2. Written = contributed
            BY <2>1 DEF Written
        <3>3. Spared = kept
            BY <3>2 DEF Spared, kept
        <3>4. QED
            BY <3>1, <3>2, <3>3 DEF Underway, PartlyOverlaid, Overlaid, NewOwner
    <2>2. QED
        BY <2>1, DroppedIsGivenUp DEF MergeIsDeepMerge, OverlayInv
<1>2. QED
    BY <1>1, OverlayInvHolds, ReportInvHolds, PTL

(* Who wrote where: as long as nothing failed, what was written at the current   *)
(* priority is still there, and its owner says so.                               *)
Disjoint == \A v, w \in writes : v[2] = w[2] /\ v[1] # w[1] => ~overlap(v[3], w[3])
StillOwned(w) ==
    w[3] \in DOMAIN resolved /\ resolved[w[3]].winner = w[1] /\ resolved[w[3]].priority = w[2]

WriteInv ==
    /\ priority \in Nat
    /\ \A w \in writes : w[1] \in 1..source /\ w[2] \in 0..priority /\ w[3] \in Paths
    /\ stage = "entries" => \A w \in writes : w[1] = source => w[3] \in DOMAIN whole \ DOMAIN entries
    /\ ~failed => Disjoint
    /\ ~failed /\ stage \in {"sources", "entries"} => \A w \in writes : w[2] = priority => StillOwned(w)

(* An entry that overlaps what another source of its priority wrote conflicts.   *)
LEMMA OverlapConflicts ==
    ASSUME OverlayInv, WriteInv, ~failed, stage = "entries", NEW p \in DOMAIN entries, ~conflict(p),
           NEW w \in writes, w[2] = priority
    PROVE  ~overlap(w[3], p)
<1>1. StillOwned(w) /\ Underway
    BY DEF WriteInv, OverlayInv
<1>2. CASE w[1] = source
    <2>1. w[3] \in DOMAIN whole /\ w[3] # p /\ p \in DOMAIN whole
        BY <1>1, <1>2 DEF WriteInv, Underway
    <2>2. QED
        BY <1>1, <2>1, WholeIsTree DEF Leaves, Underway
<1>3. CASE w[1] # source
    <2>1. ASSUME overlap(w[3], p) PROVE resolved[w[3]] \in relatedOwners(p)
        BY <1>1, <2>1 DEF relatedOwners, StillOwned
    <2>2. QED
        BY <1>1, <1>3, <2>1 DEF conflict, StillOwned
<1>4. QED
    BY <1>2, <1>3

LEMMA WriteEntry ==
    ASSUME OverlayInv, WriteInv, NEW p \in DOMAIN entries, applyEntry(p)
    PROVE  WriteInv'
<1>. DEFINE new == <<source, priority, p>>
<1>1. /\ stage = "entries" /\ Underway /\ UNCHANGED <<source, priority, whole>>
      /\ entries' = [q \in DOMAIN entries \ {p} |-> entries[q]]
      /\ p \in Paths /\ p \in DOMAIN whole /\ source \in 1..source
    <2>1. stage = "entries" /\ Underway
        BY DEF applyEntry, OverlayInv
    <2>2. p \in DOMAIN whole /\ source \in 1..source
        BY <2>1 DEF Underway, OverlayInv
    <2>3. p \in Paths
        BY <2>1, <2>2, WholeIsTree DEF Underway, Leaves
    <2>4. QED
        BY <2>1, <2>2, <2>3 DEF applyEntry, inputVars
<1>2. CASE writes' = writes /\ failed' = failed /\ resolved' = resolved /\ stage' = stage
    BY <1>1, <1>2 DEF WriteInv, Disjoint, StillOwned
<1>3. CASE writes' = writes /\ failed' = TRUE /\ stage' = "finish"
    BY <1>1, <1>3 DEF WriteInv
<1>4. CASE /\ writes' = writes \cup {new} /\ stage' = stage
           /\ failed' = (failed \/ conflict(p) \/ provenance = MaxProvenanceEvents)
           /\ resolved' = write(resolved, p, [winner |-> source, priority |-> priority, overridden |-> history(p)])
    <2>1. new[1] = source /\ new[2] = priority /\ new[3] = p
        OBVIOUS
    <2>2. \A w \in writes' : w[1] \in 1..source' /\ w[2] \in 0..priority' /\ w[3] \in Paths
        BY <1>1, <1>4, <2>1 DEF WriteInv
    <2>3. \A w \in writes' : w[1] = source' => w[3] \in DOMAIN whole' \ DOMAIN entries'
        BY <1>1, <1>4, <2>1 DEF WriteInv
    <2>4. ASSUME ~failed' PROVE Disjoint' /\ \A w \in writes' : w[2] = priority' => StillOwned(w)'
        <3>1. ~failed /\ ~conflict(p)
            BY <1>4, <2>4
        <3>2. \A w \in writes : w[2] = priority => ~overlap(w[3], p) /\ ~overlap(p, w[3]) /\ StillOwned(w)
            BY <1>1, <3>1, OverlapConflicts, MergePaths DEF WriteInv
        <3>3. Disjoint'
            BY <1>4, <2>1, <3>1, <3>2 DEF WriteInv, Disjoint
        <3>4. ASSUME NEW w \in writes, w[2] = priority PROVE StillOwned(w)'
            BY <1>1, <1>4, <3>2, <3>4, MergePaths DEF StillOwned, write
        <3>5. StillOwned(new)'
            <4>. DEFINE writer == [winner |-> source, priority |-> priority, overridden |-> history(p)]
            <4>1. p \in DOMAIN resolved' /\ resolved'[p] = writer
                BY <1>4 DEF write
            <4>2. writer.winner = source /\ writer.priority = priority
                OBVIOUS
            <4>. HIDE DEF writer
            <4>3. resolved'[new[3]].winner = new[1] /\ resolved'[new[3]].priority = new[2]
                BY <2>1, <4>1, <4>2
            <4>4. QED
                BY <1>1, <2>1, <4>1, <4>3 DEF StillOwned
        <3>6. QED
            BY <1>1, <1>4, <3>3, <3>4, <3>5
    <2>5. QED
        BY <1>1, <1>4, <2>2, <2>3, <2>4 DEF WriteInv
<1>5. QED
    <2>1. CASE isEmptyOverlay(p)
        BY <1>2, <2>1 DEF applyEntry, treeVars, issueVars
    <2>2. CASE ~isEmptyOverlay(p)
        BY <1>3, <1>4, <2>2 DEF applyEntry
    <2>3. QED
        BY <2>1, <2>2

LEMMA WriteInvStep == OverlayInv /\ WriteInv /\ [Next]_vars => WriteInv'
<1>. SUFFICES ASSUME OverlayInv, WriteInv, [Next]_vars PROVE WriteInv'
    OBVIOUS
<1>1. ASSUME NEW pri \in Priorities, NEW c \in Contents, NEW warned \in BOOLEAN, BeginSource(c, pri, warned)
      PROVE  WriteInv'
    <2>1. /\ stage = "sources" /\ source' = source + 1 /\ priority' = pri /\ pri >= priority /\ pri \in Nat
          /\ source \in Nat /\ UNCHANGED <<writes, failed, resolved>>
        BY <1>1, MergeConstants DEF BeginSource, OverlayInv, MergeConstants
    <2>2. \A w \in writes : w[1] # source'
        BY <2>1 DEF WriteInv
    <2>3. \A w \in writes : w[2] = priority' => w[2] = priority
        BY <2>1 DEF WriteInv
    <2>4. \A w \in writes : w[1] \in 1..source' /\ w[2] \in 0..priority'
        BY <2>1 DEF WriteInv
    <2>5. QED
        BY <2>1, <2>2, <2>3, <2>4 DEF WriteInv, Disjoint, StillOwned
<1>2. ASSUME NEW pri \in Priorities, RejectSource(pri) PROVE WriteInv'
    <2>1. /\ stage = "sources" /\ stage' = "sources" /\ source' = source + 1 /\ priority' = pri /\ pri >= priority
          /\ pri \in Nat /\ source \in Nat /\ writes' = writes /\ failed' = TRUE
        BY <1>2, MergeConstants DEF RejectSource, OverlayInv, MergeConstants
    <2>2. \A w \in writes : w[1] \in 1..source' /\ w[2] \in 0..priority'
        BY <2>1 DEF WriteInv
    <2>3. QED
        BY <2>1, <2>2 DEF WriteInv
<1>3. ASSUME NEW p \in DOMAIN entries, applyEntry(p) PROVE WriteInv'
    BY <1>3, WriteEntry
<1>4. CASE EndSource
    BY <1>4 DEF EndSource, WriteInv, Disjoint, StillOwned, issueVars, treeVars, inputVars
<1>5. CASE EndMerge
    BY <1>5 DEF EndMerge, WriteInv, Disjoint, issueVars, treeVars, inputVars
<1>6. CASE Finish
    <2>1. stage' = "done" /\ UNCHANGED <<writes, inputVars>> /\ (~failed' => ~failed)
        BY <1>6 DEF Finish
    <2>2. QED
        BY <2>1 DEF WriteInv, Disjoint, inputVars
<1>7. ASSUME NEW p \in DOMAIN config, NEW t \in Decoded, CoerceRule(p, t) PROVE WriteInv'
    <2>1. stage' \in {"coercion", "finish"} /\ UNCHANGED <<writes, inputVars>> /\ (~failed' => ~failed)
        BY <1>7 DEF CoerceRule, issueVars
    <2>2. QED
        BY <2>1 DEF WriteInv, Disjoint, inputVars
<1>8. CASE RefuseRules
    BY <1>8 DEF RefuseRules, WriteInv, inputVars
<1>9. CASE UNCHANGED vars
    BY <1>9 DEF vars, WriteInv, Disjoint, StillOwned, issueVars, treeVars, inputVars
<1>10. QED
    BY <1>1, <1>2, <1>3, <1>4, <1>5, <1>6, <1>7, <1>8, <1>9 DEF Next

(* ErrorsSurvive for all sources, priorities and bounds: a good result had no    *)
(* failure, and no two sources of one priority wrote overlapping paths           *)
(* (appendBoundedIssues, samePriorityConflict).                                  *)
THEOREM ErrorsSurviveHolds == Spec => []ErrorsSurvive
<1>1. Init => WriteInv
    BY DEF Init, WriteInv, Disjoint
<1>2. ReportInv /\ WriteInv => ErrorsSurvive
    BY DEF ReportInv, WriteInv, Disjoint, ErrorsSurvive, ok
<1>3. QED
    BY <1>1, <1>2, ReportInvHolds, WriteInvStep, OverlayInvHolds, PTL DEF Spec

-----------------------------------------------------------------------------
(***************************************************************************)
(* The key count.  The nodes of a tree are the prefixes of its leaves; a   *)
(* new leaf brings the nodes on its way that are not there yet, and takes  *)
(* away what was below it.                                                 *)
(***************************************************************************)
Strings == Seq(STRING)

LEMMA PrefixBasics ==
    /\ \A p \in Strings : isPathPrefix(p, p) /\ Len(p) \in Nat /\ (p = << >> <=> Len(p) = 0)
    /\ \A p, q \in Strings : isPathPrefix(p, q) => Len(p) <= Len(q) /\ (Len(p) = Len(q) => p = q)
    /\ \A p, q, r \in Strings : isPathPrefix(p, q) /\ isPathPrefix(q, r) => isPathPrefix(p, r)
    /\ \A p, q, r \in Strings : isPathPrefix(q, p) /\ isPathPrefix(r, p) /\ Len(q) <= Len(r) => isPathPrefix(q, r)
<1>1. \A p \in Strings : isPathPrefix(p, p) /\ Len(p) \in Nat /\ (p = << >> <=> Len(p) = 0)
    BY PrefixReflexive DEF Strings
<1>2. ASSUME NEW p \in Strings, NEW q \in Strings, isPathPrefix(p, q)
      PROVE  Len(p) <= Len(q) /\ (Len(p) = Len(q) => p = q)
    BY <1>2 DEF isPathPrefix, Strings
<1>3. \A p, q, r \in Strings : isPathPrefix(p, q) /\ isPathPrefix(q, r) => isPathPrefix(p, r)
    BY PrefixTransitive DEF Strings
<1>4. \A p, q, r \in Strings : isPathPrefix(q, p) /\ isPathPrefix(r, p) /\ Len(q) <= Len(r) => isPathPrefix(q, r)
    BY PrefixesAreOrdered DEF Strings
<1>5. QED
    BY <1>1, <1>2, <1>3, <1>4

(* The first segments of a path. *)
LEMMA FirstSegments ==
    ASSUME NEW p \in Strings, NEW n \in 1..Len(p)
    PROVE  /\ SubSeq(p, 1, n) \in Strings /\ Len(SubSeq(p, 1, n)) = n
           /\ isPathPrefix(SubSeq(p, 1, n), p)
           /\ \A q \in Strings : isPathPrefix(q, p) /\ Len(q) = n => q = SubSeq(p, 1, n)
<1>. DEFINE s == SubSeq(p, 1, n)
<1>1. s \in Strings /\ Len(s) = n /\ n \in Nat /\ n <= Len(p) /\ \A i \in 1..n : s[i] = p[i]
    BY DEF Strings
<1>. HIDE DEF s
<1>2. isPathPrefix(s, p)
    BY <1>1 DEF isPathPrefix
<1>3. ASSUME NEW q \in Strings, isPathPrefix(q, p), Len(q) = n
      PROVE  q = s
    <2>1. isPathPrefix(q, s)
        BY <1>1, <1>2, <1>3, PrefixBasics
    <2>2. QED
        BY <1>1, <1>3, <2>1, PrefixBasics
<1>4. QED
    BY <1>1, <1>2, <1>3 DEF s

LEMMA NodesArePrefixes ==
    ASSUME NEW t, DOMAIN t \subseteq Strings
    PROVE  nodesOf(t) = {n \in Strings : n # << >> /\ \E p \in DOMAIN t : isPathPrefix(n, p)}
<1>1. ASSUME NEW p \in DOMAIN t, NEW n \in 1..Len(p)
      PROVE  SubSeq(p, 1, n) \in Strings /\ SubSeq(p, 1, n) # << >> /\ isPathPrefix(SubSeq(p, 1, n), p)
    <2>1. p \in Strings /\ SubSeq(p, 1, n) \in Strings /\ Len(SubSeq(p, 1, n)) = n /\ isPathPrefix(SubSeq(p, 1, n), p)
        BY <1>1, FirstSegments
    <2>2. n # 0
        BY <2>1, PrefixBasics
    <2>3. QED
        BY <2>1, <2>2, PrefixBasics
<1>2. ASSUME NEW n \in Strings, n # << >>, NEW p \in DOMAIN t, isPathPrefix(n, p)
      PROVE  n \in {SubSeq(p, 1, k) : k \in 1..Len(p)}
    <2>1. Len(n) \in 1..Len(p)
        BY <1>2, PrefixBasics
    <2>2. n = SubSeq(p, 1, Len(n))
        BY <1>2, <2>1, FirstSegments
    <2>3. QED
        BY <2>1, <2>2
<1>3. \A n : n \in nodesOf(t) <=> \E p \in DOMAIN t : n \in {SubSeq(p, 1, k) : k \in 1..Len(p)}
    BY DEF nodesOf
<1>4. \A n : n \in nodesOf(t) => n \in Strings /\ n # << >> /\ \E p \in DOMAIN t : isPathPrefix(n, p)
    BY <1>1, <1>3
<1>5. \A n \in Strings : n # << >> /\ (\E p \in DOMAIN t : isPathPrefix(n, p)) => n \in nodesOf(t)
    BY <1>2, <1>3
<1>6. QED
    BY <1>4, <1>5

(* The prefixes of a path that are longer than m. *)
LEMMA LongerPrefixes ==
    ASSUME NEW p \in Strings, NEW m \in 0..Len(p)
    PROVE  /\ IsFiniteSet({SubSeq(p, 1, n) : n \in m + 1..Len(p)})
           /\ Cardinality({SubSeq(p, 1, n) : n \in m + 1..Len(p)}) = Len(p) - m
<1>. DEFINE I == m + 1..Len(p)
            T == {SubSeq(p, 1, n) : n \in I}
            f == [n \in I |-> SubSeq(p, 1, n)]
<1>1. Len(p) \in Nat /\ m \in Nat /\ m <= Len(p) /\ I \subseteq 1..Len(p)
    BY PrefixBasics
<1>2. IsFiniteSet(I) /\ Cardinality(I) = Len(p) - m
    <2>1. m + 1 \in Int /\ Len(p) \in Int
        BY <1>1
    <2>2. IsFiniteSet(I) /\ Cardinality(I) = IF m + 1 > Len(p) THEN 0 ELSE Len(p) - (m + 1) + 1
        BY <2>1, FS_Interval
    <2>3. QED
        BY <1>1, <2>2
<1>3. \A n \in I : Len(f[n]) = n
    BY <1>1, FirstSegments
<1>4. f \in Bijection(I, T)
    <2>1. f \in [I -> T] /\ \A x \in T : \E n \in I : f[n] = x
        OBVIOUS
    <2>2. \A a, b \in DOMAIN f : f[a] = f[b] => a = b
        BY <1>3
    <2>. HIDE DEF f, T, I
    <2>3. QED
        BY <2>1, <2>2 DEF Bijection, Injection, Surjection, IsInjective
<1>. HIDE DEF f, T, I
<1>5. ExistsBijection(I, T)
    BY <1>4 DEF ExistsBijection
<1>6. IsFiniteSet(T) /\ Cardinality(T) = Cardinality(I)
    BY <1>2, <1>5, FS_Bijection
<1>7. QED
    BY <1>2, <1>6 DEF T, I

LEMMA NodesAreFinite ==
    ASSUME NEW t, DOMAIN t \subseteq Strings, IsFiniteSet(DOMAIN t)
    PROVE  IsFiniteSet(nodesOf(t)) /\ Cardinality(nodesOf(t)) \in Nat
<1>. DEFINE f == [p \in DOMAIN t |-> {SubSeq(p, 1, n) : n \in 1..Len(p)}]
            T == {{SubSeq(p, 1, n) : n \in 1..Len(p)} : p \in DOMAIN t}
<1>1. f \in Surjection(DOMAIN t, T)
    <2>1. f \in [DOMAIN t -> T] /\ \A x \in T : \E p \in DOMAIN t : f[p] = x
        OBVIOUS
    <2>. HIDE DEF f, T
    <2>2. QED
        BY <2>1 DEF Surjection
<1>2. \A x \in T : IsFiniteSet(x)
    <2>1. SUFFICES ASSUME NEW p \in DOMAIN t PROVE IsFiniteSet({SubSeq(p, 1, n) : n \in 1..Len(p)})
        OBVIOUS
    <2>2. p \in Strings /\ 0 \in 0..Len(p)
        BY PrefixBasics
    <2>3. IsFiniteSet({SubSeq(p, 1, n) : n \in 0 + 1..Len(p)})
        BY <2>2, LongerPrefixes
    <2>4. QED
        BY <2>3
<1>3. nodesOf(t) = UNION T
    BY DEF nodesOf
<1>. HIDE DEF f, T
<1>4. IsFiniteSet(T)
    BY <1>1, FS_Surjection
<1>5. IsFiniteSet(UNION T)
    BY <1>2, <1>4, FS_UNION
<1>6. QED
    BY <1>3, <1>5, FS_CardinalityType

-----------------------------------------------------------------------------
(***************************************************************************)
(* Writing a leaf.                                                         *)
(***************************************************************************)
Nodes == nodesOf(config)
Arrays(t) == {q \in DOMAIN t : t[q] = "array"}
NewTree(t) == IsTree(t) /\ DOMAIN t \subseteq Paths

(* What there is to know of a tree, a path in it and what is written there. *)
LEMMA WrittenTree ==
    ASSUME NewTree(config), NEW p \in Paths, NEW x \in Kinds
    PROVE  /\ p \in Strings /\ p # << >> /\ DOMAIN config \subseteq Strings
           /\ \A q \in DOMAIN config : overlap(q, p) <=> isPathPrefix(q, p) \/ isPathPrefix(p, q)
           /\ DOMAIN write(config, p, x) = {r \in DOMAIN config : ~overlap(r, p)} \cup {p}
           /\ DOMAIN write(config, p, x) \subseteq Strings
           /\ NewTree(write(config, p, x))
           /\ IsFiniteSet(Nodes) /\ Cardinality(Nodes) \in Nat
           /\ Nodes = {n \in Strings : n # << >> /\ \E r \in DOMAIN config : isPathPrefix(n, r)}
           /\ nodesOf(write(config, p, x)) = {n \in Strings : n # << >> /\
                (isPathPrefix(n, p) \/ \E r \in DOMAIN config : ~overlap(r, p) /\ isPathPrefix(n, r))}
<1>. DEFINE t == write(config, p, x)
            Rest == {r \in DOMAIN config : ~overlap(r, p)}
<1>1. p \in Strings /\ p # << >> /\ DOMAIN config \subseteq Strings /\ DOMAIN config \subseteq Paths
    BY MergeConstants DEF MergeConstants, NewTree, Strings
<1>2. DOMAIN t = Rest \cup {p} /\ t \in [DOMAIN t -> Kinds]
    BY DEF write, NewTree, IsTree
<1>3. DOMAIN t \subseteq Strings /\ DOMAIN t \subseteq Paths
    BY <1>1, <1>2
<1>4. IsTree(t)
    <2>1. IsFiniteSet(Rest)
        BY FS_Subset DEF NewTree, IsTree
    <2>2. IsFiniteSet(DOMAIN t)
        BY <1>2, <2>1, FS_AddElement
    <2>3. ASSUME NEW q \in DOMAIN t, NEW r \in DOMAIN t, overlap(q, r) PROVE q = r
        BY <1>2, <2>3 DEF NewTree, IsTree, overlap
    <2>4. QED
        BY <1>2, <2>2, <2>3 DEF IsTree
<1>5. IsFiniteSet(Nodes) /\ Cardinality(Nodes) \in Nat
    BY <1>1, NodesAreFinite DEF Nodes, NewTree, IsTree
<1>6. Nodes = {n \in Strings : n # << >> /\ \E r \in DOMAIN config : isPathPrefix(n, r)}
    BY <1>1, NodesArePrefixes DEF Nodes
<1>7. nodesOf(t) = {n \in Strings : n # << >> /\ \E r \in DOMAIN t : isPathPrefix(n, r)}
    BY <1>3, NodesArePrefixes
<1>. HIDE DEF t
<1>8. nodesOf(t) = {n \in Strings : n # << >> /\
                (isPathPrefix(n, p) \/ \E r \in DOMAIN config : ~overlap(r, p) /\ isPathPrefix(n, r))}
    BY <1>2, <1>7
<1>9. QED
    BY <1>1, <1>2, <1>3, <1>4, <1>5, <1>6, <1>8 DEF t, NewTree, overlap

(* A new leaf brings its prefixes that were no nodes. *)
LEMMA NewNodes ==
    ASSUME NewTree(config), NEW p \in Paths, NEW x \in Kinds, p \notin Nodes,
           NEW m \in 0..Len(p), \A n \in 1..Len(p) : SubSeq(p, 1, n) \in Nodes <=> n <= m
    PROVE  Cardinality(nodesOf(write(config, p, x))) = Cardinality(Nodes) + (Len(p) - m)
<1>. DEFINE new == {SubSeq(p, 1, n) : n \in m + 1..Len(p)}
            after == nodesOf(write(config, p, x))
<1>1. p \in Strings /\ p # << >> /\ DOMAIN config \subseteq Strings
      /\ IsFiniteSet(Nodes) /\ Cardinality(Nodes) \in Nat
    BY WrittenTree
<1>2. \A n : n \in Nodes <=> n \in Strings /\ n # << >> /\ \E r \in DOMAIN config : isPathPrefix(n, r)
    BY WrittenTree
<1>3. \A n : n \in after <=> n \in Strings /\ n # << >> /\
                (isPathPrefix(n, p) \/ \E r \in DOMAIN config : ~overlap(r, p) /\ isPathPrefix(n, r))
    <2>1. after = {n \in Strings : n # << >> /\
                (isPathPrefix(n, p) \/ \E r \in DOMAIN config : ~overlap(r, p) /\ isPathPrefix(n, r))}
        BY WrittenTree
    <2>. HIDE DEF after
    <2>2. QED
        BY <2>1
<1>. HIDE DEF after
<1>4. \A r \in DOMAIN config : ~isPathPrefix(p, r)
    BY <1>1, <1>2
<1>5. Len(p) \in Nat /\ m \in Nat /\ m <= Len(p)
    BY <1>1, PrefixBasics
<1>6. after = Nodes \cup new
    <2>1. ASSUME NEW n \in after PROVE n \in Nodes \cup new
        <3>1. n \in Strings /\ n # << >>
            BY <1>3
        <3>2. CASE isPathPrefix(n, p)
            <4>1. Len(n) \in Nat /\ Len(n) <= Len(p) /\ Len(n) # 0
                BY <1>1, <3>1, <3>2, PrefixBasics
            <4>2. Len(n) \in 1..Len(p)
                BY <1>5, <4>1
            <4>3. n = SubSeq(p, 1, Len(n))
                BY <1>1, <3>1, <3>2, <4>2, FirstSegments
            <4>4. CASE Len(n) <= m
                BY <4>2, <4>3, <4>4
            <4>5. CASE ~(Len(n) <= m)
                <5>1. Len(n) \in m + 1..Len(p)
                    BY <1>5, <4>1, <4>5
                <5>2. QED
                    BY <4>3, <5>1
            <4>6. QED
                BY <4>4, <4>5
        <3>3. CASE ~isPathPrefix(n, p)
            BY <1>2, <1>3, <3>1, <3>3
        <3>4. QED
            BY <3>2, <3>3
    <2>2. ASSUME NEW n \in new PROVE n \in after
        <3>1. PICK k \in m + 1..Len(p) : n = SubSeq(p, 1, k)
            OBVIOUS
        <3>2. k \in 1..Len(p) /\ k # 0
            BY <1>5, <3>1
        <3>3. n \in Strings /\ Len(n) = k /\ isPathPrefix(n, p)
            BY <1>1, <3>1, <3>2, FirstSegments
        <3>4. n # << >>
            BY <3>2, <3>3, PrefixBasics
        <3>5. QED
            BY <1>3, <3>3, <3>4
    <2>3. ASSUME NEW n \in Nodes PROVE n \in after
        <3>1. PICK r \in DOMAIN config : n \in Strings /\ n # << >> /\ isPathPrefix(n, r)
            BY <1>2, <2>3
        <3>2. CASE ~overlap(r, p)
            BY <1>3, <3>1, <3>2
        <3>3. CASE isPathPrefix(r, p)
            <4>1. isPathPrefix(n, p)
                BY <1>1, <3>1, <3>3, PrefixBasics
            <4>2. QED
                BY <1>3, <3>1, <4>1
        <3>4. QED
            BY <1>4, <3>2, <3>3 DEF overlap
    <2>. HIDE DEF new
    <2>4. QED
        BY <2>1, <2>2, <2>3
<1>7. IsFiniteSet(new) /\ Cardinality(new) = Len(p) - m
    BY <1>1, LongerPrefixes
<1>8. Nodes \cap new = {}
    <2>1. ASSUME NEW k \in m + 1..Len(p) PROVE SubSeq(p, 1, k) \notin Nodes
        <3>1. k \in 1..Len(p) /\ ~(k <= m)
            BY <1>5
        <3>2. QED
            BY <3>1
    <2>2. QED
        BY <2>1
<1>. HIDE DEF new
<1>9. Cardinality(Nodes \cup new) = Cardinality(Nodes) + Cardinality(new) - Cardinality(Nodes \cap new)
    BY <1>1, <1>7, FS_Union
<1>10. Cardinality(Nodes \cap new) = 0
    BY <1>8, FS_EmptySet
<1>11. QED
    BY <1>1, <1>5, <1>6, <1>7, <1>9, <1>10 DEF after

(* A leaf at a node takes away the nodes below it. *)
LEMMA FewerNodes ==
    ASSUME NewTree(config), NEW p \in Paths, NEW x \in Kinds, p \in Nodes
    PROVE  LET below == {n \in Nodes : n # p /\ isPathPrefix(p, n)}
           IN  /\ IsFiniteSet(below) /\ Cardinality(below) \in Nat
               /\ Cardinality(nodesOf(write(config, p, x))) = Cardinality(Nodes) - Cardinality(below)
<1>. DEFINE below == {n \in Nodes : n # p /\ isPathPrefix(p, n)}
            after == nodesOf(write(config, p, x))
<1>1. p \in Strings /\ p # << >> /\ DOMAIN config \subseteq Strings
      /\ IsFiniteSet(Nodes) /\ Cardinality(Nodes) \in Nat
    BY WrittenTree
<1>2. \A n : n \in Nodes <=> n \in Strings /\ n # << >> /\ \E r \in DOMAIN config : isPathPrefix(n, r)
    BY WrittenTree
<1>3. \A n : n \in after <=> n \in Strings /\ n # << >> /\
                (isPathPrefix(n, p) \/ \E r \in DOMAIN config : ~overlap(r, p) /\ isPathPrefix(n, r))
    <2>1. after = {n \in Strings : n # << >> /\
                (isPathPrefix(n, p) \/ \E r \in DOMAIN config : ~overlap(r, p) /\ isPathPrefix(n, r))}
        BY WrittenTree
    <2>. HIDE DEF after
    <2>2. QED
        BY <2>1
<1>. HIDE DEF after
<1>4. PICK leaf \in DOMAIN config : isPathPrefix(p, leaf)
    BY <1>2
<1>5. after = Nodes \ below
    <2>1. ASSUME NEW n \in after PROVE n \in Nodes /\ n \notin below
        <3>1. n \in Strings /\ n # << >>
            BY <1>3
        <3>2. CASE isPathPrefix(n, p)
            <4>1. isPathPrefix(n, leaf)
                BY <1>1, <1>4, <3>1, <3>2, PrefixBasics
            <4>2. isPathPrefix(p, n) => n = p
                <5>1. isPathPrefix(p, n) => Len(n) = Len(p)
                    BY <1>1, <3>1, <3>2, PrefixBasics
                <5>2. QED
                    BY <1>1, <3>1, <3>2, <5>1, PrefixBasics
            <4>3. QED
                BY <1>2, <3>1, <4>1, <4>2
        <3>3. ASSUME NEW r \in DOMAIN config, ~overlap(r, p), isPathPrefix(n, r) PROVE n \in Nodes /\ n \notin below
            <4>1. ~isPathPrefix(p, n)
                BY <1>1, <3>1, <3>3, PrefixBasics DEF overlap
            <4>2. QED
                BY <1>2, <3>1, <3>3, <4>1
        <3>4. QED
            BY <1>3, <3>2, <3>3
    <2>2. ASSUME NEW n \in Nodes, n \notin below PROVE n \in after
        <3>1. PICK r \in DOMAIN config : n \in Strings /\ n # << >> /\ isPathPrefix(n, r)
            BY <1>2, <2>2
        <3>2. n = p \/ ~isPathPrefix(p, n)
            BY <2>2
        <3>3. CASE ~overlap(r, p)
            BY <1>3, <3>1, <3>3
        <3>4. CASE isPathPrefix(r, p)
            <4>1. isPathPrefix(n, p)
                BY <1>1, <3>1, <3>4, PrefixBasics
            <4>2. QED
                BY <1>3, <3>1, <4>1
        <3>5. CASE isPathPrefix(p, r)
            <4>1. r \in Strings /\ Len(n) \in Nat /\ Len(p) \in Nat
                BY <1>1, <3>1, PrefixBasics
            <4>2. isPathPrefix(n, p) \/ isPathPrefix(p, n)
                <5>1. CASE Len(n) <= Len(p)
                    BY <1>1, <3>1, <3>5, <4>1, <5>1, PrefixBasics
                <5>2. CASE Len(p) <= Len(n)
                    BY <1>1, <3>1, <3>5, <4>1, <5>2, PrefixBasics
                <5>3. QED
                    BY <4>1, <5>1, <5>2
            <4>3. isPathPrefix(n, p)
                BY <1>1, <3>2, <4>2, PrefixBasics
            <4>4. QED
                BY <1>3, <3>1, <4>3
        <3>6. QED
            BY <3>3, <3>4, <3>5 DEF overlap
    <2>. HIDE DEF below
    <2>3. QED
        BY <2>1, <2>2
<1>6. IsFiniteSet(below) /\ Cardinality(below) \in Nat
    <2>1. below \in SUBSET Nodes
        OBVIOUS
    <2>. HIDE DEF below
    <2>2. QED
        BY <1>1, <2>1, FS_Subset, FS_CardinalityType
<1>7. Nodes \cap below = below
    OBVIOUS
<1>. HIDE DEF below
<1>8. Cardinality(Nodes \ below) = Cardinality(Nodes) - Cardinality(Nodes \cap below)
    BY <1>1, FS_Difference
<1>9. QED
    BY <1>5, <1>6, <1>7, <1>8 DEF below, after

(* The arrays that a write leaves. *)
LEMMA WrittenArrays ==
    ASSUME NewTree(config), NEW p \in Paths, NEW x \in Kinds
    PROVE  LET gone == {q \in Arrays(config) : overlap(q, p)}
           IN  /\ Cardinality(Arrays(config)) \in Nat /\ Cardinality(gone) \in Nat /\ IsFiniteSet(gone)
               /\ Cardinality(Arrays(write(config, p, x))) =
                    Cardinality(Arrays(config)) - Cardinality(gone) + (IF x = "array" THEN 1 ELSE 0)
<1>. DEFINE gone == {q \in Arrays(config) : overlap(q, p)}
            left == Arrays(config) \ gone
<1>1. IsFiniteSet(Arrays(config)) /\ Arrays(config) \subseteq DOMAIN config /\ Cardinality(Arrays(config)) \in Nat
    <2>1. Arrays(config) \in SUBSET DOMAIN config
        BY DEF Arrays
    <2>2. QED
        BY <2>1, FS_Subset, FS_CardinalityType DEF NewTree, IsTree
<1>2. gone \in SUBSET Arrays(config)
    OBVIOUS
<1>3. IsFiniteSet(gone) /\ Cardinality(gone) \in Nat /\ Arrays(config) \cap gone = gone
    <2>. HIDE DEF gone
    <2>1. QED
        BY <1>1, <1>2, FS_Subset, FS_CardinalityType
<1>4. IsFiniteSet(left) /\ Cardinality(left) = Cardinality(Arrays(config)) - Cardinality(gone)
    <2>. HIDE DEF gone
    <2>1. QED
        BY <1>1, <1>3, FS_Difference
<1>5. p \notin left
    BY <1>1, MergePaths DEF NewTree
<1>6. Arrays(write(config, p, x)) = IF x = "array" THEN left \cup {p} ELSE left
    <2>1. \A q : q \in Arrays(write(config, p, x)) <=>
            (q = p /\ x = "array") \/ (q # p /\ q \in DOMAIN config /\ ~overlap(q, p) /\ config[q] = "array")
        BY DEF Arrays, write
    <2>2. \A q : q \in left <=> q \in DOMAIN config /\ ~overlap(q, p) /\ config[q] = "array"
        BY DEF Arrays
    <2>3. \A q : q \in Arrays(write(config, p, x)) <=> (q = p /\ x = "array") \/ q \in left
        BY <1>5, <2>1, <2>2
    <2>. HIDE DEF left
    <2>4. QED
        BY <2>3
<1>. HIDE DEF gone, left
<1>7. Cardinality(left \cup {p}) = Cardinality(left) + 1
    BY <1>4, <1>5, FS_AddElement
<1>8. Cardinality(Arrays(write(config, p, x))) =
        Cardinality(Arrays(config)) - Cardinality(gone) + (IF x = "array" THEN 1 ELSE 0)
    <2>1. CASE x = "array"
        BY <1>1, <1>3, <1>4, <1>6, <1>7, <2>1
    <2>2. CASE x # "array"
        BY <1>1, <1>3, <1>4, <1>6, <2>2
    <2>3. QED
        BY <2>1, <2>2
<1>9. QED
    BY <1>1, <1>3, <1>8 DEF gone

LEMMA LargestNumber ==
    ASSUME NEW k \in Nat, NEW S \in SUBSET (0..k), S # {}
    PROVE  Largest(S) \in S /\ \A n \in S : n <= Largest(S)
<1>. DEFINE T == {k - n : n \in S}
<1>1. T \in SUBSET Nat /\ T # {}
    <2>1. \A n \in S : k - n \in Nat
        OBVIOUS
    <2>2. PICK n \in S : TRUE
        OBVIOUS
    <2>3. k - n \in T
        BY <2>2
    <2>4. QED
        BY <2>1, <2>3
<1>. HIDE DEF T
<1>2. PICK i \in T : \A j \in T : i <= j
    BY <1>1, LeastNumber
<1>3. PICK n \in S : i = k - n
    BY <1>2 DEF T
<1>4. \A m \in S : k - n <= k - m
    BY <1>2, <1>3 DEF T
<1>5. \A m \in S : m <= n
    BY <1>4
<1>6. QED
    BY <1>3, <1>5 DEF Largest

(* Where a path is no node, the nodes on its way to it end at the longest one. *)
LEMMA WayEnds ==
    ASSUME NewTree(config), NEW p \in Paths, p \notin Nodes
    PROVE  LET m == Largest({0} \cup {Len(n) : n \in {k \in Nodes : isPathPrefix(k, p)}})
           IN  /\ m \in 0..Len(p)
               /\ \A n \in 1..Len(p) : SubSeq(p, 1, n) \in Nodes <=> n <= m
<1>. DEFINE present == {k \in Nodes : isPathPrefix(k, p)}
            S == {0} \cup {Len(n) : n \in present}
            m == Largest(S)
<1>1. p \in Strings
    BY MergeConstants DEF MergeConstants, Strings
<1>2. DOMAIN config \subseteq Strings
    BY MergeConstants DEF MergeConstants, NewTree, Strings
<1>3. Nodes = {n \in Strings : n # << >> /\ \E r \in DOMAIN config : isPathPrefix(n, r)}
    BY <1>2, NodesArePrefixes DEF Nodes
<1>4. Len(p) \in Nat /\ S \in SUBSET (0..Len(p)) /\ S # {}
    <2>1. Len(p) \in Nat
        BY <1>1, PrefixBasics
    <2>2. \A n \in present : Len(n) \in 0..Len(p)
        BY <1>1, <1>3, <2>1, PrefixBasics
    <2>3. 0 \in 0..Len(p)
        BY <2>1
    <2>4. QED
        BY <2>1, <2>2, <2>3
<1>. HIDE DEF S
<1>5. m \in S /\ \A n \in S : n <= m
    BY <1>4, LargestNumber
<1>6. ASSUME NEW n \in 1..Len(p) PROVE SubSeq(p, 1, n) \in Nodes <=> n <= m
    <2>1. SubSeq(p, 1, n) \in Strings /\ Len(SubSeq(p, 1, n)) = n /\ isPathPrefix(SubSeq(p, 1, n), p)
        BY <1>1, FirstSegments
    <2>2. ASSUME SubSeq(p, 1, n) \in Nodes PROVE n <= m
        <3>1. n \in S
            BY <2>1, <2>2 DEF S
        <3>2. QED
            BY <1>5, <3>1
    <2>3. ASSUME n <= m PROVE SubSeq(p, 1, n) \in Nodes
        <3>1. m # 0
            BY <1>4, <1>5, <2>3
        <3>2. PICK k \in present : Len(k) = m
            BY <1>5, <3>1 DEF S
        <3>3. k \in Strings /\ k # << >> /\ isPathPrefix(k, p)
            BY <1>3, <3>2
        <3>4. PICK r \in DOMAIN config : isPathPrefix(k, r)
            BY <1>3, <3>2
        <3>5. isPathPrefix(SubSeq(p, 1, n), k)
            <4>. DEFINE s == SubSeq(p, 1, n)
            <4>1. s \in Strings /\ isPathPrefix(s, p) /\ Len(s) <= Len(k)
                BY <2>1, <2>3, <3>2
            <4>. HIDE DEF s
            <4>2. isPathPrefix(s, k)
                BY <1>1, <3>3, <4>1, PrefixBasics
            <4>3. QED
                BY <4>2 DEF s
        <3>6. isPathPrefix(SubSeq(p, 1, n), r)
            BY <1>2, <2>1, <3>3, <3>4, <3>5, PrefixBasics
        <3>7. SubSeq(p, 1, n) # << >>
            <4>1. n # 0
                BY <1>4
            <4>2. QED
                BY <2>1, <4>1, PrefixBasics
        <3>8. QED
            BY <1>3, <2>1, <3>6, <3>7
    <2>4. QED
        BY <2>2, <2>3
<1>7. m \in 0..Len(p)
    BY <1>4, <1>5
<1>8. QED
    BY <1>6, <1>7 DEF S

(* The same where the way ends at a leaf: nothing is below a leaf. *)
LEMMA WayEndsAtLeaf ==
    ASSUME NewTree(config), NEW p \in Paths, p \notin Nodes, NEW q \in DOMAIN config, isPathPrefix(q, p)
    PROVE  /\ Len(q) \in 0..Len(p)
           /\ \A n \in 1..Len(p) : SubSeq(p, 1, n) \in Nodes <=> n <= Len(q)
<1>1. p \in Strings /\ DOMAIN config \subseteq Strings /\ DOMAIN config \subseteq Paths
    BY MergeConstants DEF MergeConstants, NewTree, Strings
<1>2. Nodes = {n \in Strings : n # << >> /\ \E r \in DOMAIN config : isPathPrefix(n, r)}
    BY <1>1, NodesArePrefixes DEF Nodes
<1>3. Len(q) \in 0..Len(p) /\ Len(q) \in Nat
    BY <1>1, PrefixBasics
<1>4. ASSUME NEW n \in 1..Len(p) PROVE SubSeq(p, 1, n) \in Nodes <=> n <= Len(q)
    <2>. DEFINE s == SubSeq(p, 1, n)
    <2>1. s \in Strings /\ Len(s) = n /\ isPathPrefix(s, p) /\ n # 0
        BY <1>1, FirstSegments
    <2>. HIDE DEF s
    <2>2. ASSUME n <= Len(q) PROVE s \in Nodes
        <3>1. isPathPrefix(s, q)
            BY <1>1, <2>1, <2>2, PrefixBasics
        <3>2. s # << >>
            BY <2>1, PrefixBasics
        <3>3. QED
            BY <1>2, <2>1, <3>1, <3>2
    <2>3. ASSUME ~(n <= Len(q)), s \in Nodes PROVE FALSE
        <3>1. PICK r \in DOMAIN config : isPathPrefix(s, r)
            BY <1>2, <2>3
        <3>2. isPathPrefix(q, s)
            BY <1>1, <1>3, <2>1, <2>3, PrefixBasics
        <3>3. isPathPrefix(q, r)
            BY <1>1, <2>1, <3>1, <3>2, PrefixBasics
        <3>4. q = r
            BY <3>3 DEF NewTree, IsTree, overlap
        <3>5. Len(s) <= Len(q)
            BY <1>1, <2>1, <3>1, <3>4, PrefixBasics
        <3>6. QED
            BY <2>1, <2>3, <3>5
    <2>4. QED
        BY <2>2, <2>3 DEF s
<1>5. QED
    BY <1>3, <1>4

(* What a difference of arrays makes in keys. *)
LEMMA ArrayDifference ==
    ASSUME NEW a \in Nat, NEW b \in Nat, NEW d \in Nat, NEW e \in {0, 1}, d = a - b + e
    PROVE  ArrayKeys * d = ArrayKeys * a - ArrayKeys * b + (IF e = 1 THEN ArrayKeys ELSE 0)
<1>1. ArrayKeys \in Nat
    BY MergeConstants DEF MergeConstants
<1>2. \A k \in Nat : k * d = k * a - k * b + k * e
    OBVIOUS
<1>3. QED
    BY <1>1, <1>2

(* projectedMergeKeyCount counts the tree that is about to be. *)
LEMMA ProjectionIsExact ==
    ASSUME NewTree(config), NEW p \in Paths, NEW x \in Kinds, keyCount = treeKeys(config)
    PROVE  treeKeys(write(config, p, x)) = projectedMergeKeyCount(p, x)
<1>. DEFINE t == write(config, p, x)
            gone == {q \in Arrays(config) : overlap(q, p)}
            present == {n \in Nodes : isPathPrefix(n, p)}
            blocking == {q \in DOMAIN config : q # p /\ isPathPrefix(q, p) /\ config[q] # "empty"}
<1>1. /\ p \in Strings /\ DOMAIN config \subseteq Strings
      /\ Cardinality(Nodes) \in Nat
      /\ NewTree(t)
    BY WrittenTree
<1>2. Nodes = {n \in Strings : n # << >> /\ \E r \in DOMAIN config : isPathPrefix(n, r)} /\ p # << >>
    BY WrittenTree
<1>3. isPathPrefix(p, p) /\ Len(p) \in Nat
    BY <1>1, PrefixBasics
<1>4. /\ Cardinality(Arrays(config)) \in Nat /\ Cardinality(gone) \in Nat
      /\ Cardinality(Arrays(t)) = Cardinality(Arrays(config)) - Cardinality(gone) + (IF x = "array" THEN 1 ELSE 0)
    BY WrittenArrays
<1>5. Cardinality(Arrays(t)) \in Nat
    <2>1. Arrays(t) \in SUBSET DOMAIN t
        BY DEF Arrays
    <2>. HIDE DEF t
    <2>2. QED
        BY <1>1, <2>1, FS_Subset, FS_CardinalityType DEF NewTree, IsTree
<1>6. ArrayKeys * Cardinality(Arrays(t)) =
        ArrayKeys * Cardinality(Arrays(config)) - ArrayKeys * Cardinality(gone) + nestedKeyCount(x)
    <2>. DEFINE e == IF x = "array" THEN 1 ELSE 0
    <2>1. e \in {0, 1} /\ nestedKeyCount(x) = IF e = 1 THEN ArrayKeys ELSE 0
        BY DEF nestedKeyCount
    <2>2. Cardinality(Arrays(t)) = Cardinality(Arrays(config)) - Cardinality(gone) + e
        BY <1>4
    <2>. HIDE DEF e, t, gone
    <2>3. QED
        BY <1>4, <1>5, <2>1, <2>2, ArrayDifference
<1>7. /\ ArrayKeys \in Nat /\ nestedKeyCount(x) \in Nat
      /\ ArrayKeys * Cardinality(Arrays(config)) \in Nat /\ ArrayKeys * Cardinality(gone) \in Nat
    <2>1. ArrayKeys \in Nat
        BY MergeConstants DEF MergeConstants
    <2>2. \A a, b \in Nat : a * b \in Nat
        OBVIOUS
    <2>. HIDE DEF gone
    <2>3. QED
        BY <1>4, <2>1, <2>2 DEF nestedKeyCount
<1>8. /\ treeKeys(t) = Cardinality(nodesOf(t)) + ArrayKeys * Cardinality(Arrays(t))
      /\ keyCount = Cardinality(Nodes) + ArrayKeys * Cardinality(Arrays(config))
    BY DEF treeKeys, Arrays, Nodes
<1>. DEFINE a == ArrayKeys * Cardinality(Arrays(config))
            b == ArrayKeys * Cardinality(Arrays(t))
            g == ArrayKeys * Cardinality(gone)
            e == nestedKeyCount(x)
            c == Cardinality(Nodes)
<1>9. a \in Nat /\ g \in Nat /\ e \in Nat /\ c \in Nat /\ b = a - g + e
    BY <1>1, <1>6, <1>7
<1>10. treeKeys(t) = Cardinality(nodesOf(t)) + b /\ keyCount = c + a
    BY <1>8
<1>11. CASE p \in Nodes
    <2>. DEFINE low == {n \in Nodes : n # p /\ isPathPrefix(p, n)}
    <2>1. Cardinality(low) \in Nat /\ Cardinality(nodesOf(t)) = Cardinality(Nodes) - Cardinality(low)
        BY <1>11, FewerNodes
    <2>2. PICK r \in DOMAIN config : isPathPrefix(p, r)
        BY <1>2, <1>11
    <2>3. \A q \in DOMAIN config : overlap(q, p) <=> isPathPrefix(p, q)
        <3>1. ASSUME NEW q \in DOMAIN config, isPathPrefix(q, p) PROVE isPathPrefix(p, q)
            <4>1. isPathPrefix(q, r)
                BY <1>1, <2>2, <3>1, PrefixBasics
            <4>2. q = r
                BY <4>1 DEF NewTree, IsTree, overlap
            <4>3. QED
                BY <2>2, <4>2
        <3>2. QED
            BY <3>1 DEF overlap
    <2>4. gone = {q \in under(p, config) : config[q] = "array"}
        BY <2>3 DEF Arrays, under
    <2>5. keysBelow(p, config) = Cardinality(low) + ArrayKeys * Cardinality(gone)
        BY <2>4 DEF keysBelow, Nodes
    <2>6. projectedMergeKeyCount(p, x) = keyCount + nestedKeyCount(x) - keysBelow(p, config)
        BY <1>3, <1>11 DEF projectedMergeKeyCount, Nodes
    <2>7. keysBelow(p, config) = Cardinality(low) + g /\ Cardinality(nodesOf(t)) = c - Cardinality(low)
          /\ projectedMergeKeyCount(p, x) = keyCount + e - keysBelow(p, config)
        BY <2>1, <2>5, <2>6
    <2>. HIDE DEF low, gone, t, a, b, g, e, c
    <2>8. treeKeys(t) = projectedMergeKeyCount(p, x)
        BY <1>9, <1>10, <2>1, <2>7
    <2>9. QED
        BY <2>8 DEF t
<1>12. CASE p \notin Nodes /\ blocking # {}
    <2>. DEFINE q == CHOOSE q \in blocking : TRUE
    <2>1. q \in DOMAIN config /\ q # p /\ isPathPrefix(q, p) /\ config[q] # "empty"
        BY <1>12
    <2>2. projectedMergeKeyCount(p, x) = keyCount + Len(p) - Len(q) + nestedKeyCount(x) - nestedKeyCount(config[q])
        BY <1>12 DEF projectedMergeKeyCount, Nodes
    <2>. HIDE DEF q
    <2>3. Len(q) \in 0..Len(p) /\ Cardinality(nodesOf(t)) = Cardinality(Nodes) + (Len(p) - Len(q))
        BY <1>12, <2>1, WayEndsAtLeaf, NewNodes
    <2>4. ASSUME NEW r \in DOMAIN config, overlap(r, p) PROVE r = q
        <3>1. ~isPathPrefix(p, r)
            BY <1>1, <1>2, <1>12
        <3>2. isPathPrefix(r, p)
            BY <2>4, <3>1 DEF overlap
        <3>3. r \in Paths /\ q \in Paths
            BY <2>1 DEF NewTree
        <3>4. overlap(r, q)
            BY <2>1, <3>2, <3>3, MergePaths
        <3>5. QED
            BY <2>1, <3>4 DEF NewTree, IsTree
    <2>5. gone = IF config[q] = "array" THEN {q} ELSE {}
        <3>1. overlap(q, p)
            BY <2>1 DEF overlap
        <3>2. \A r : r \in gone <=> r = q /\ config[q] = "array"
            BY <2>1, <2>4, <3>1 DEF Arrays
        <3>. HIDE DEF gone
        <3>3. QED
            BY <3>2
    <2>6. Cardinality(gone) = IF config[q] = "array" THEN 1 ELSE 0
        BY <2>5, FS_Singleton, FS_EmptySet
    <2>7. ArrayKeys * Cardinality(gone) = nestedKeyCount(config[q])
        BY <1>7, <2>6 DEF nestedKeyCount
    <2>8. Cardinality(nodesOf(t)) = c + (Len(p) - Len(q)) /\ g = nestedKeyCount(config[q])
          /\ projectedMergeKeyCount(p, x) = keyCount + Len(p) - Len(q) + e - nestedKeyCount(config[q])
        BY <2>2, <2>3, <2>7
    <2>. HIDE DEF gone, t, a, b, g, e, c
    <2>9. treeKeys(t) = projectedMergeKeyCount(p, x)
        BY <1>3, <1>9, <1>10, <2>3, <2>8
    <2>10. QED
        BY <2>9 DEF t
<1>13. CASE p \notin Nodes /\ blocking = {}
    <2>. DEFINE m == Largest({0} \cup {Len(n) : n \in present})
    <2>1. projectedMergeKeyCount(p, x) = keyCount + Len(p) - m + nestedKeyCount(x)
        BY <1>13 DEF projectedMergeKeyCount, Nodes
    <2>2. m \in 0..Len(p) /\ \A n \in 1..Len(p) : SubSeq(p, 1, n) \in Nodes <=> n <= m
        BY <1>13, WayEnds
    <2>. HIDE DEF m
    <2>3. Cardinality(nodesOf(t)) = Cardinality(Nodes) + (Len(p) - m)
        BY <1>13, <2>2, NewNodes
    <2>4. gone = {}
        <3>1. SUFFICES ASSUME NEW r \in DOMAIN config, config[r] = "array", overlap(r, p) PROVE FALSE
            BY DEF Arrays
        <3>2. ~isPathPrefix(p, r)
            BY <1>1, <1>2, <1>13
        <3>3. isPathPrefix(r, p) /\ r # p
            BY <1>3, <3>1, <3>2 DEF overlap
        <3>4. QED
            BY <1>13, <3>1, <3>3
    <2>5. Cardinality(gone) = 0
        BY <2>4, FS_EmptySet
    <2>6. ArrayKeys * Cardinality(gone) = 0
        <3>1. \A k \in Nat : k * 0 = 0
            OBVIOUS
        <3>2. QED
            BY <1>7, <2>5, <3>1
    <2>7. Cardinality(nodesOf(t)) = c + (Len(p) - m) /\ g = 0
          /\ projectedMergeKeyCount(p, x) = keyCount + Len(p) - m + e
        BY <2>1, <2>3, <2>6
    <2>. HIDE DEF gone, t, a, b, g, e, c
    <2>8. treeKeys(t) = projectedMergeKeyCount(p, x)
        BY <1>3, <1>9, <1>10, <2>2, <2>7
    <2>9. QED
        BY <2>8 DEF t
<1>14. QED
    BY <1>11, <1>12, <1>13

-----------------------------------------------------------------------------
(***************************************************************************)
(* Coercion: a tree is hung in at the place of a scalar leaf.              *)
(***************************************************************************)
LEMMA Concatenation ==
    ASSUME NEW p \in Strings
    PROVE  /\ p \o << >> = p
           /\ \A r \in Strings : /\ p \o r \in Strings /\ Len(p \o r) = Len(p) + Len(r)
                                 /\ isPathPrefix(p, p \o r)
                                 /\ SubSeq(p \o r, Len(p) + 1, Len(p \o r)) = r
           /\ \A n \in Strings : isPathPrefix(p, n) => \E r \in Strings : n = p \o r
           /\ \A a, b \in Strings : /\ isPathPrefix(p \o a, p \o b) <=> isPathPrefix(a, b)
                                    /\ p \o a = p \o b => a = b
<1>1. p \o << >> = p
    BY DEF Strings
<1>2. ASSUME NEW r \in Strings
      PROVE  /\ p \o r \in Strings /\ Len(p \o r) = Len(p) + Len(r)
             /\ isPathPrefix(p, p \o r)
             /\ SubSeq(p \o r, Len(p) + 1, Len(p \o r)) = r
    <2>1. p \o r \in Strings /\ Len(p \o r) = Len(p) + Len(r)
        BY DEF Strings
    <2>2. isPathPrefix(p, p \o r)
        BY DEF Strings, isPathPrefix
    <2>3. SubSeq(p \o r, Len(p) + 1, Len(p \o r)) = r
        BY DEF Strings
    <2>4. QED
        BY <2>1, <2>2, <2>3
<1>3. ASSUME NEW n \in Strings, isPathPrefix(p, n) PROVE \E r \in Strings : n = p \o r
    <2>. DEFINE r == SubSeq(n, Len(p) + 1, Len(n))
    <2>1. Len(p) \in Nat /\ Len(n) \in Nat /\ Len(p) <= Len(n)
        BY <1>3, PrefixBasics
    <2>2. r \in Strings /\ Len(r) = Len(n) - Len(p) /\ \A i \in 1..Len(r) : r[i] = n[Len(p) + i]
        BY <2>1 DEF Strings
    <2>3. n = p \o r
        BY <1>3, <2>1, <2>2 DEF Strings, isPathPrefix
    <2>4. QED
        BY <2>2, <2>3
<1>4. ASSUME NEW a \in Strings, NEW b \in Strings
      PROVE  isPathPrefix(p \o a, p \o b) <=> isPathPrefix(a, b)
    <2>1. /\ Len(p) \in Nat /\ Len(a) \in Nat /\ Len(b) \in Nat
          /\ Len(p \o a) = Len(p) + Len(a) /\ Len(p \o b) = Len(p) + Len(b)
        BY <1>2, PrefixBasics
    <2>2. /\ \A i \in 1..Len(p) : (p \o a)[i] = p[i] /\ (p \o b)[i] = p[i]
          /\ \A i \in 1..Len(a) : (p \o a)[Len(p) + i] = a[i]
          /\ \A i \in 1..Len(b) : (p \o b)[Len(p) + i] = b[i]
        BY DEF Strings
    <2>3. ASSUME isPathPrefix(a, b) PROVE isPathPrefix(p \o a, p \o b)
        <3>1. Len(a) <= Len(b) /\ \A i \in 1..Len(a) : a[i] = b[i]
            BY <2>3 DEF isPathPrefix
        <3>2. ASSUME NEW i \in 1..Len(p) + Len(a) PROVE (p \o a)[i] = (p \o b)[i]
            <4>1. CASE i <= Len(p)
                BY <2>1, <2>2, <4>1
            <4>2. CASE ~(i <= Len(p))
                <5>. DEFINE j == i - Len(p)
                <5>1. j \in 1..Len(a) /\ j \in 1..Len(b) /\ i = Len(p) + j
                    BY <2>1, <3>1, <4>2
                <5>. HIDE DEF j
                <5>2. QED
                    BY <2>2, <3>1, <5>1
            <4>3. QED
                BY <4>1, <4>2
        <3>3. QED
            BY <2>1, <3>1, <3>2 DEF isPathPrefix
    <2>4. ASSUME isPathPrefix(p \o a, p \o b) PROVE isPathPrefix(a, b)
        <3>1. Len(p) + Len(a) <= Len(p) + Len(b) /\ \A i \in 1..Len(p) + Len(a) : (p \o a)[i] = (p \o b)[i]
            BY <2>1, <2>4 DEF isPathPrefix
        <3>2. Len(a) <= Len(b)
            BY <2>1, <3>1
        <3>3. ASSUME NEW i \in 1..Len(a) PROVE a[i] = b[i]
            <4>1. Len(p) + i \in 1..Len(p) + Len(a) /\ i \in 1..Len(b)
                BY <2>1, <3>2
            <4>2. QED
                BY <2>2, <3>1, <4>1
        <3>4. QED
            BY <3>2, <3>3 DEF isPathPrefix
    <2>5. QED
        BY <2>3, <2>4
<1>5. \A a, b \in Strings : p \o a = p \o b => a = b
    BY <1>2
<1>6. QED
    BY <1>1, <1>2, <1>3, <1>4, <1>5

LEMMA Shifted ==
    ASSUME NEW p \in Strings, NEW S \in SUBSET Strings, IsFiniteSet(S)
    PROVE  IsFiniteSet({p \o r : r \in S}) /\ Cardinality({p \o r : r \in S}) = Cardinality(S)
<1>. DEFINE T == {p \o r : r \in S}
            f == [r \in S |-> p \o r]
<1>1. f \in Bijection(S, T)
    <2>1. f \in [S -> T] /\ \A x \in T : \E r \in S : f[r] = x
        OBVIOUS
    <2>2. ASSUME NEW a \in S, NEW b \in S, f[a] = f[b] PROVE a = b
        <3>1. a \in Strings /\ b \in Strings /\ p \o a = p \o b
            BY <2>2
        <3>2. QED
            BY <3>1, Concatenation
    <2>. HIDE DEF f, T
    <2>3. QED
        BY <2>1, <2>2 DEF Bijection, Injection, Surjection, IsInjective
<1>. HIDE DEF f, T
<1>2. ExistsBijection(S, T)
    BY <1>1 DEF ExistsBijection
<1>3. QED
    BY <1>2, FS_Bijection DEF T

LEMMA ExpandedTree ==
    ASSUME NewTree(config), NEW p \in DOMAIN config, config[p] = "scalar", NEW t \in Decoded,
           \A r \in DOMAIN t : p \o r \in Paths
    PROVE  /\ NewTree(expanded(p, t))
           /\ Cardinality(nodesOf(expanded(p, t))) = Cardinality(Nodes) + Cardinality(nodesOf(t))
           /\ Cardinality(Arrays(expanded(p, t))) = Cardinality(Arrays(config)) + Cardinality(Arrays(t))
           /\ Cardinality(Nodes) \in Nat /\ Cardinality(nodesOf(t)) \in Nat
           /\ Cardinality(Arrays(config)) \in Nat /\ Cardinality(Arrays(t)) \in Nat
<1>. DEFINE c == expanded(p, t)
            hung == {p \o r : r \in DOMAIN t}
<1>1. /\ DOMAIN config \subseteq Paths /\ DOMAIN config \subseteq Strings /\ p \in Strings /\ p # << >>
      /\ IsFiniteSet(DOMAIN config) /\ config \in [DOMAIN config -> Kinds]
      /\ \A q, r \in DOMAIN config : overlap(q, r) => q = r
    BY MergeConstants DEF MergeConstants, NewTree, IsTree, Strings
<1>2. /\ DOMAIN t \subseteq Strings /\ DOMAIN t # {} /\ IsFiniteSet(DOMAIN t) /\ t \in [DOMAIN t -> Kinds]
      /\ \A q, r \in DOMAIN t : overlap(q, r) => q = r
    BY DecodedAreTrees DEF IsTree, Strings
<1>3. ASSUME NEW q \in DOMAIN config, isPathPrefix(p, q) PROVE q = p
    BY <1>1, <1>3 DEF overlap
<1>4. ASSUME NEW r \in DOMAIN t
      PROVE  p \o r \in DOMAIN c /\ p \o r \in Strings /\ isPathPrefix(p, p \o r) /\ c[p \o r] = t[r]
    <2>1. p \o r \in Strings /\ isPathPrefix(p, p \o r) /\ SubSeq(p \o r, Len(p) + 1, Len(p \o r)) = r
        BY <1>1, <1>2, Concatenation
    <2>2. QED
        BY <2>1 DEF expanded
<1>5. ASSUME NEW q \in DOMAIN config, q # p PROVE q \in DOMAIN c /\ c[q] = config[q] /\ ~isPathPrefix(p, q)
    <2>1. ~isPathPrefix(p, q)
        BY <1>3, <1>5
    <2>2. QED
        BY <1>5, <2>1 DEF expanded
<1>6. DOMAIN c = (DOMAIN config \ {p}) \cup hung /\ c = [q \in DOMAIN c |-> c[q]]
    BY DEF expanded
<1>. HIDE DEF c
<1>7. DOMAIN c \subseteq Strings /\ DOMAIN c \subseteq Paths
    BY <1>1, <1>4, <1>6
<1>8. IsFiniteSet(DOMAIN c)
    <2>1. IsFiniteSet(DOMAIN config \ {p})
        BY <1>1, FS_Difference
    <2>2. IsFiniteSet(hung)
        BY <1>1, <1>2, Shifted
    <2>. HIDE DEF hung
    <2>3. QED
        BY <1>6, <2>1, <2>2, FS_Union
<1>9. c \in [DOMAIN c -> Kinds]
    <2>1. ASSUME NEW q \in DOMAIN c PROVE c[q] \in Kinds
        <3>1. CASE q \in DOMAIN config /\ q # p
            BY <1>1, <1>5, <3>1
        <3>2. ASSUME NEW r \in DOMAIN t, q = p \o r PROVE c[q] \in Kinds
            BY <1>2, <1>4, <3>2
        <3>3. QED
            BY <1>6, <3>1, <3>2
    <2>. HIDE DEF hung
    <2>2. QED
        BY <1>6, <2>1
<1>10. \A q, r \in DOMAIN c : isPathPrefix(q, r) => q = r
    <2>1. ASSUME NEW q \in DOMAIN config, q # p, NEW r \in DOMAIN t PROVE ~overlap(q, p \o r)
        <3>1. q \in Strings /\ Len(q) \in Nat /\ Len(p) \in Nat
            BY <1>1, PrefixBasics
        <3>2. ASSUME isPathPrefix(q, p \o r) PROVE FALSE
            <4>1. CASE Len(q) <= Len(p)
                <5>1. isPathPrefix(q, p)
                    BY <1>1, <1>4, <3>1, <3>2, <4>1, PrefixBasics
                <5>2. QED
                    BY <1>1, <2>1, <5>1 DEF overlap
            <4>2. CASE Len(p) <= Len(q)
                <5>1. isPathPrefix(p, q)
                    BY <1>1, <1>4, <3>1, <3>2, <4>2, PrefixBasics
                <5>2. QED
                    BY <1>3, <2>1, <5>1
            <4>3. QED
                BY <3>1, <4>1, <4>2
        <3>3. ASSUME isPathPrefix(p \o r, q) PROVE FALSE
            <4>1. isPathPrefix(p, q)
                BY <1>1, <1>4, <3>1, <3>3, PrefixBasics
            <4>2. QED
                BY <1>3, <2>1, <4>1
        <3>4. QED
            BY <3>2, <3>3 DEF overlap
    <2>2. ASSUME NEW q \in DOMAIN t, NEW r \in DOMAIN t, isPathPrefix(p \o q, p \o r) PROVE q = r
        <3>1. isPathPrefix(q, r)
            BY <1>1, <1>2, <2>2, Concatenation
        <3>2. QED
            BY <1>2, <3>1 DEF overlap
    <2>3. ASSUME NEW q \in DOMAIN c, NEW r \in DOMAIN c, isPathPrefix(q, r) PROVE q = r
        <3>1. CASE q \in DOMAIN config /\ q # p /\ r \in DOMAIN config
            BY <1>1, <2>3, <3>1 DEF overlap
        <3>2. ASSUME q \in DOMAIN config, q # p, NEW s \in DOMAIN t, r = p \o s PROVE FALSE
            BY <2>1, <2>3, <3>2 DEF overlap
        <3>3. ASSUME r \in DOMAIN config, r # p, NEW s \in DOMAIN t, q = p \o s PROVE FALSE
            BY <2>1, <2>3, <3>3 DEF overlap
        <3>4. ASSUME NEW u \in DOMAIN t, q = p \o u, NEW s \in DOMAIN t, r = p \o s PROVE q = r
            BY <2>2, <2>3, <3>4
        <3>5. QED
            BY <1>6, <3>1, <3>2, <3>3, <3>4
    <2>4. QED
        BY <2>3
<1>11. NewTree(c)
    BY <1>7, <1>8, <1>9, <1>10 DEF NewTree, IsTree, overlap
<1>12. /\ IsFiniteSet(Nodes) /\ Cardinality(Nodes) \in Nat
       /\ IsFiniteSet(nodesOf(t)) /\ Cardinality(nodesOf(t)) \in Nat
    BY <1>1, <1>2, NodesAreFinite DEF Nodes
<1>13. Nodes = {n \in Strings : n # << >> /\ \E q \in DOMAIN config : isPathPrefix(n, q)}
    BY <1>1, NodesArePrefixes DEF Nodes
<1>14. nodesOf(t) = {n \in Strings : n # << >> /\ \E q \in DOMAIN t : isPathPrefix(n, q)}
    BY <1>2, NodesArePrefixes
<1>15. nodesOf(c) = {n \in Strings : n # << >> /\ \E q \in DOMAIN c : isPathPrefix(n, q)}
    BY <1>7, NodesArePrefixes
<1>. DEFINE grown == {p \o n : n \in nodesOf(t)}
<1>16. nodesOf(c) = Nodes \cup grown
    <2>1. ASSUME NEW n \in nodesOf(c) PROVE n \in Nodes \cup grown
        <3>1. PICK q \in DOMAIN c : n \in Strings /\ n # << >> /\ isPathPrefix(n, q)
            BY <1>15, <2>1
        <3>2. CASE q \in DOMAIN config
            BY <1>13, <3>1, <3>2
        <3>3. ASSUME NEW r \in DOMAIN t, q = p \o r PROVE n \in Nodes \cup grown
            <4>1. Len(n) \in Nat /\ Len(p) \in Nat
                BY <1>1, <3>1, PrefixBasics
            <4>2. CASE Len(n) <= Len(p)
                <5>1. isPathPrefix(n, p)
                    BY <1>1, <1>4, <3>1, <3>3, <4>2, PrefixBasics
                <5>2. QED
                    BY <1>13, <3>1, <5>1
            <4>3. CASE Len(p) <= Len(n)
                <5>1. isPathPrefix(p, n)
                    BY <1>1, <1>4, <3>1, <3>3, <4>3, PrefixBasics
                <5>2. PICK s \in Strings : n = p \o s
                    BY <1>1, <3>1, <5>1, Concatenation
                <5>3. isPathPrefix(s, r)
                    BY <1>1, <1>2, <3>1, <3>3, <5>2, Concatenation
                <5>4. CASE s = << >>
                    <6>1. n = p
                        BY <1>1, <5>2, <5>4, Concatenation
                    <6>2. isPathPrefix(p, p)
                        BY <1>1, PrefixBasics
                    <6>3. QED
                        BY <1>1, <1>13, <6>1, <6>2
                <5>5. CASE s # << >>
                    BY <1>14, <5>2, <5>3, <5>5
                <5>6. QED
                    BY <5>4, <5>5
            <4>4. QED
                BY <4>1, <4>2, <4>3
        <3>4. QED
            BY <1>6, <3>2, <3>3
    <2>2. ASSUME NEW n \in Nodes PROVE n \in nodesOf(c)
        <3>1. PICK q \in DOMAIN config : n \in Strings /\ n # << >> /\ isPathPrefix(n, q)
            BY <1>13, <2>2
        <3>2. CASE q # p
            BY <1>5, <1>15, <3>1, <3>2
        <3>3. CASE q = p
            <4>1. PICK r \in DOMAIN t : TRUE
                BY <1>2
            <4>2. isPathPrefix(n, p \o r)
                BY <1>1, <1>4, <3>1, <3>3, PrefixBasics
            <4>3. QED
                BY <1>4, <1>15, <3>1, <4>2
        <3>4. QED
            BY <3>2, <3>3
    <2>3. ASSUME NEW n \in nodesOf(t) PROVE p \o n \in nodesOf(c)
        <3>1. PICK r \in DOMAIN t : n \in Strings /\ isPathPrefix(n, r)
            BY <1>14
        <3>2. p \o n \in Strings /\ isPathPrefix(p \o n, p \o r) /\ Len(p \o n) = Len(p) + Len(n)
            BY <1>1, <1>2, <3>1, Concatenation
        <3>3. p \o n # << >>
            BY <1>1, <3>1, <3>2, PrefixBasics
        <3>4. QED
            BY <1>4, <1>15, <3>2, <3>3
    <2>4. \A n \in grown : n \in nodesOf(c)
        BY <2>3
    <2>. HIDE DEF grown
    <2>5. QED
        BY <2>1, <2>2, <2>4
<1>17. Nodes \cap grown = {}
    <2>1. ASSUME NEW n \in nodesOf(t), p \o n \in Nodes PROVE FALSE
        <3>1. n \in Strings /\ n # << >>
            BY <1>14
        <3>2. PICK q \in DOMAIN config : isPathPrefix(p \o n, q)
            BY <1>13, <2>1
        <3>3. p \o n \in Strings /\ isPathPrefix(p, p \o n) /\ Len(p \o n) = Len(p) + Len(n)
            BY <1>1, <3>1, Concatenation
        <3>4. isPathPrefix(p, q)
            BY <1>1, <3>2, <3>3, PrefixBasics
        <3>5. q = p
            BY <1>3, <3>4
        <3>6. Len(p \o n) <= Len(p)
            BY <1>1, <3>2, <3>3, <3>5, PrefixBasics
        <3>7. QED
            BY <1>1, <3>1, <3>3, <3>6, PrefixBasics
    <2>2. QED
        BY <2>1
<1>18. IsFiniteSet(grown) /\ Cardinality(grown) = Cardinality(nodesOf(t))
    <2>1. nodesOf(t) \in SUBSET Strings
        BY <1>14
    <2>2. QED
        BY <1>1, <1>12, <2>1, Shifted
<1>. HIDE DEF grown
<1>19. Cardinality(nodesOf(c)) = Cardinality(Nodes) + Cardinality(nodesOf(t))
    <2>1. Cardinality(Nodes \cup grown) = Cardinality(Nodes) + Cardinality(grown) - Cardinality(Nodes \cap grown)
        BY <1>12, <1>18, FS_Union
    <2>2. Cardinality(Nodes \cap grown) = 0
        BY <1>17, FS_EmptySet
    <2>3. QED
        BY <1>12, <1>16, <1>18, <2>1, <2>2
<1>. DEFINE more == {p \o r : r \in Arrays(t)}
<1>20. /\ IsFiniteSet(Arrays(config)) /\ Cardinality(Arrays(config)) \in Nat
       /\ IsFiniteSet(Arrays(t)) /\ Cardinality(Arrays(t)) \in Nat
    <2>1. Arrays(config) \in SUBSET DOMAIN config /\ Arrays(t) \in SUBSET DOMAIN t
        BY DEF Arrays
    <2>2. QED
        BY <1>1, <1>2, <2>1, FS_Subset, FS_CardinalityType
<1>21. Arrays(c) = Arrays(config) \cup more
    <2>1. ASSUME NEW q \in Arrays(c) PROVE q \in Arrays(config) \cup more
        <3>1. q \in DOMAIN c /\ c[q] = "array"
            BY DEF Arrays
        <3>2. CASE q \in DOMAIN config \ {p}
            BY <1>5, <3>1, <3>2 DEF Arrays
        <3>3. ASSUME NEW r \in DOMAIN t, q = p \o r PROVE q \in more
            BY <1>4, <3>1, <3>3 DEF Arrays
        <3>4. QED
            BY <1>6, <3>1, <3>2, <3>3
    <2>2. \A q \in Arrays(config) : q \in Arrays(c)
        BY <1>5 DEF Arrays
    <2>3. \A r \in Arrays(t) : p \o r \in Arrays(c)
        BY <1>4 DEF Arrays
    <2>4. \A q \in more : q \in Arrays(c)
        BY <2>3
    <2>. HIDE DEF more
    <2>5. QED
        BY <2>1, <2>2, <2>4
<1>22. Arrays(config) \cap more = {}
    <2>1. ASSUME NEW r \in Arrays(t) PROVE p \o r \notin Arrays(config)
        <3>1. isPathPrefix(p, p \o r)
            BY <1>4 DEF Arrays
        <3>2. p \notin Arrays(config)
            BY DEF Arrays
        <3>3. QED
            BY <1>3, <3>1, <3>2 DEF Arrays
    <2>2. QED
        BY <2>1
<1>23. IsFiniteSet(more) /\ Cardinality(more) = Cardinality(Arrays(t))
    <2>1. Arrays(t) \in SUBSET Strings
        BY <1>2 DEF Arrays
    <2>2. QED
        BY <1>1, <1>20, <2>1, Shifted
<1>. HIDE DEF more
<1>24. Cardinality(Arrays(c)) = Cardinality(Arrays(config)) + Cardinality(Arrays(t))
    <2>1. Cardinality(Arrays(config) \cup more) =
            Cardinality(Arrays(config)) + Cardinality(more) - Cardinality(Arrays(config) \cap more)
        BY <1>20, <1>23, FS_Union
    <2>2. Cardinality(Arrays(config) \cap more) = 0
        BY <1>22, FS_EmptySet
    <2>3. QED
        BY <1>20, <1>21, <1>23, <2>1, <2>2
<1>25. QED
    BY <1>11, <1>12, <1>19, <1>20, <1>24 DEF c

(* One rule of the coercion counts what it decodes. *)
LEMMA CoercionIsExact ==
    ASSUME NewTree(config), keyCount = treeKeys(config), NEW p \in DOMAIN config, config[p] = "scalar",
           NEW t \in Decoded, ~overBudget(p, t)
    PROVE  /\ NewTree(expanded(p, t))
           /\ treeKeys(expanded(p, t)) = keyCount + treeKeys(t)
           /\ keyCount + treeKeys(t) \in Nat /\ keyCount + treeKeys(t) <= MaxKeyCount
<1>1. \A r \in DOMAIN t : p \o r \in Paths
    BY DEF overBudget
<1>. DEFINE a == Cardinality(Arrays(config))
            b == Cardinality(Arrays(t))
            m == Cardinality(Nodes)
            n == Cardinality(nodesOf(t))
<1>2. /\ NewTree(expanded(p, t))
      /\ Cardinality(nodesOf(expanded(p, t))) = m + n
      /\ Cardinality(Arrays(expanded(p, t))) = a + b
      /\ m \in Nat /\ n \in Nat /\ a \in Nat /\ b \in Nat
    BY <1>1, ExpandedTree
<1>3. /\ treeKeys(expanded(p, t)) = m + n + ArrayKeys * (a + b)
      /\ keyCount = m + ArrayKeys * a
      /\ treeKeys(t) = n + ArrayKeys * b
    BY <1>2 DEF treeKeys, Arrays, Nodes
<1>4. ArrayKeys \in Nat /\ MaxKeyCount \in Nat
    BY MergeConstants DEF MergeConstants
<1>. HIDE DEF a, b, m, n
<1>5. \A k, i, j \in Nat : k * i \in Nat /\ k * j \in Nat /\ k * (i + j) = k * i + k * j
    OBVIOUS
<1>6. /\ ArrayKeys * a \in Nat /\ ArrayKeys * b \in Nat
      /\ ArrayKeys * (a + b) = ArrayKeys * a + ArrayKeys * b
    BY <1>2, <1>4, <1>5
<1>7. treeKeys(expanded(p, t)) = keyCount + treeKeys(t) /\ keyCount + treeKeys(t) \in Nat
    BY <1>2, <1>3, <1>6
<1>8. keyCount + treeKeys(t) <= MaxKeyCount
    BY <1>4, <1>7 DEF overBudget, exceeds
<1>9. QED
    BY <1>2, <1>7, <1>8

-----------------------------------------------------------------------------
CountInv ==
    /\ NewTree(config) /\ keyCount \in Nat
    /\ ~Dropped => keyCount = treeKeys(config)
    /\ treeKeys(config) <= MaxKeyCount

LEMMA EmptyTree ==
    ASSUME NEW t, t = << >>
    PROVE  NewTree(t) /\ treeKeys(t) = 0 /\ 0 <= MaxKeyCount
<1>1. DOMAIN t = {}
    OBVIOUS
<1>2. NewTree(t)
    BY <1>1, FS_EmptySet DEF NewTree, IsTree
<1>3. nodesOf(t) = {} /\ Arrays(t) = {}
    BY <1>1 DEF nodesOf, Arrays
<1>4. Cardinality(nodesOf(t)) = 0 /\ Cardinality(Arrays(t)) = 0
    BY <1>3, FS_EmptySet
<1>5. ArrayKeys * 0 = 0 /\ 0 <= MaxKeyCount
    <2>1. \A k \in Nat : k * 0 = 0 /\ 0 <= k
        OBVIOUS
    <2>2. QED
        BY <2>1, MergeConstants DEF MergeConstants
<1>6. treeKeys(t) = 0
    BY <1>4, <1>5 DEF treeKeys, Arrays
<1>7. QED
    BY <1>2, <1>5, <1>6

LEMMA CountInit == Init => CountInv
BY EmptyTree DEF Init, CountInv

LEMMA CountEntry ==
    ASSUME OverlayInv, CountInv, NEW p \in DOMAIN entries, applyEntry(p)
    PROVE  CountInv'
<1>1. stage = "entries" /\ Underway /\ keyCount = treeKeys(config)
    BY DEF applyEntry, OverlayInv, CountInv, Dropped
<1>2. p \in Paths /\ entries[p] \in Kinds
    <2>1. whole \in Contents /\ p \in DOMAIN whole /\ entries[p] = whole[p]
        BY <1>1 DEF Underway
    <2>2. QED
        BY <2>1, ContentsAreTrees DEF IsTree
<1>. DEFINE t == write(config, p, entries[p])
            n == projectedMergeKeyCount(p, entries[p])
<1>3. NewTree(t) /\ treeKeys(t) = n
    BY <1>1, <1>2, WrittenTree, ProjectionIsExact DEF CountInv
<1>4. n \in Nat
    <2>1. IsFiniteSet(nodesOf(t)) /\ Cardinality(nodesOf(t)) \in Nat
        <3>1. DOMAIN t \subseteq Strings
            BY <1>2, WrittenTree DEF CountInv
        <3>2. IsFiniteSet(DOMAIN t)
            BY <1>3 DEF NewTree, IsTree
        <3>. HIDE DEF t
        <3>3. QED
            BY <3>1, <3>2, NodesAreFinite
    <2>2. Cardinality(Arrays(t)) \in Nat
        <3>1. Arrays(t) \in SUBSET DOMAIN t /\ IsFiniteSet(DOMAIN t)
            BY <1>3 DEF Arrays, NewTree, IsTree
        <3>2. QED
            BY <3>1, FS_Subset, FS_CardinalityType
    <2>3. treeKeys(t) = Cardinality(nodesOf(t)) + ArrayKeys * Cardinality(Arrays(t))
        BY DEF treeKeys, Arrays
    <2>4. \A i, j, k \in Nat : i + j * k \in Nat
        OBVIOUS
    <2>5. ArrayKeys \in Nat
        BY MergeConstants DEF MergeConstants
    <2>. HIDE DEF t, n
    <2>6. QED
        BY <1>3, <2>1, <2>2, <2>3, <2>4, <2>5
<1>5. \/ UNCHANGED <<config, keyCount>>
      \/ ~exceeds(n) /\ config' = t /\ keyCount' = n
    BY DEF applyEntry, treeVars
<1>. HIDE DEF t, n
<1>6. CASE UNCHANGED <<config, keyCount>>
    BY <1>1, <1>6 DEF CountInv, NewTree, treeKeys, nodesOf
<1>7. CASE ~exceeds(n) /\ config' = t /\ keyCount' = n
    <2>1. MaxKeyCount \in Nat
        BY MergeConstants DEF MergeConstants
    <2>2. NewTree(config') /\ keyCount' = treeKeys(config') /\ keyCount' \in Nat /\ keyCount' <= MaxKeyCount
        BY <1>3, <1>4, <1>7, <2>1 DEF exceeds
    <2>3. QED
        BY <2>2 DEF CountInv, NewTree, treeKeys, nodesOf
<1>8. QED
    BY <1>5, <1>6, <1>7

LEMMA CountCoercion ==
    ASSUME CountInv, NEW p \in DOMAIN config, NEW t \in Decoded, CoerceRule(p, t)
    PROVE  CountInv'
<1>0. keyCount = treeKeys(config)
    BY DEF CountInv, Dropped, CoerceRule
<1>1. config[p] = "scalar" /\
        \/ UNCHANGED <<config, keyCount>>
        \/ ~overBudget(p, t) /\ config' = expanded(p, t) /\ keyCount' = keyCount + treeKeys(t)
    BY DEF CoerceRule
<1>2. CASE UNCHANGED <<config, keyCount>>
    BY <1>0, <1>2 DEF CountInv, NewTree, treeKeys, nodesOf
<1>3. CASE ~overBudget(p, t) /\ config' = expanded(p, t) /\ keyCount' = keyCount + treeKeys(t)
    <2>1. /\ NewTree(expanded(p, t))
          /\ treeKeys(expanded(p, t)) = keyCount + treeKeys(t)
          /\ keyCount + treeKeys(t) \in Nat /\ keyCount + treeKeys(t) <= MaxKeyCount
        BY <1>0, <1>1, <1>3, CoercionIsExact DEF CountInv
    <2>2. NewTree(config') /\ keyCount' = treeKeys(config') /\ keyCount' \in Nat /\ keyCount' <= MaxKeyCount
        BY <1>3, <2>1
    <2>3. QED
        BY <2>2 DEF CountInv, NewTree, treeKeys, nodesOf
<1>4. QED
    BY <1>1, <1>2, <1>3

LEMMA CountInvStep == OverlayInv /\ CountInv /\ [Next]_vars => CountInv'
<1>. SUFFICES ASSUME OverlayInv, CountInv, [Next]_vars PROVE CountInv'
    OBVIOUS
<1>. DEFINE Same == UNCHANGED <<config, keyCount>> /\ (Dropped => Dropped')
<1>1. ASSUME Same PROVE CountInv'
    BY <1>1 DEF CountInv, NewTree, treeKeys, nodesOf
<1>2. ASSUME NEW pri \in Priorities, RejectSource(pri) PROVE Same
    BY <1>2 DEF RejectSource, Dropped
<1>3. ASSUME NEW pri \in Priorities, NEW c \in Contents, NEW warned \in BOOLEAN, BeginSource(c, pri, warned) PROVE Same
    BY <1>3 DEF BeginSource, Dropped
<1>4. ASSUME NEW p \in DOMAIN entries, applyEntry(p) PROVE CountInv'
    BY <1>4, CountEntry
<1>5. CASE EndSource
    BY <1>1, <1>5 DEF EndSource, treeVars, Dropped
<1>6. CASE EndMerge
    BY <1>1, <1>6 DEF EndMerge, treeVars, Dropped
<1>7. CASE Finish
    BY <1>1, <1>7 DEF Finish, Dropped
<1>8. ASSUME NEW p \in DOMAIN config, NEW t \in Decoded, CoerceRule(p, t) PROVE CountInv'
    BY <1>8, CountCoercion
<1>9. CASE RefuseRules
    <2>1. config' = << >> /\ keyCount' = keyCount /\ Dropped'
        BY <1>9 DEF RefuseRules, OverlayInv, Dropped
    <2>2. NewTree(config') /\ treeKeys(config') = 0 /\ 0 <= MaxKeyCount
        BY <2>1, EmptyTree
    <2>3. QED
        BY <2>1, <2>2 DEF CountInv, NewTree, treeKeys, nodesOf
<1>10. CASE UNCHANGED vars
    BY <1>1, <1>10 DEF vars, treeVars, issueVars, Dropped
<1>. HIDE DEF Same
<1>11. QED
    BY <1>1, <1>2, <1>3, <1>4, <1>5, <1>6, <1>7, <1>8, <1>9, <1>10 DEF Next

(* KeyCountIsExact for all trees and budgets: the count that is kept write by     *)
(* write, projected before each (projectedMergeKeyCount) and added to by coercion, *)
(* is that of the tree, until the tree is given up, and the tree is within its     *)
(* budget.                                                                         *)
THEOREM KeyCountIsExactHolds == Spec => []KeyCountIsExact
<1>1. CountInv /\ ReportInv => KeyCountIsExact
    BY DroppedIsGivenUp DEF CountInv, KeyCountIsExact
<1>2. QED
    BY <1>1, CountInit, CountInvStep, OverlayInvHolds, ReportInvHolds, PTL DEF Spec

-----------------------------------------------------------------------------
(***************************************************************************)
(* The result.                                                             *)
(***************************************************************************)
(* The tree of a result with the objects above its leaves, as comparison has it. *)
resultTree ==
    [p \in {<< >>} \cup nodesOf(config) |-> IF p \in DOMAIN config THEN config[p] ELSE "object"]

ResultAsDeclared ==
    stage = "done" =>
        /\ << >> \in DOMAIN resultTree /\ DOMAIN resultTree \subseteq Seq(STRING)
        /\ \A p \in DOMAIN resultTree : \A n \in 0..Len(p) : SubSeq(p, 1, n) \in DOMAIN resultTree
        /\ DOMAIN resolved \subseteq Seq(STRING) /\ (ok => DOMAIN resolved \subseteq DOMAIN resultTree)
        /\ \A p \in DOMAIN resolved : \A q \in DOMAIN resultTree \cup DOMAIN resolved :
              q # p /\ isPathPrefix(q, p) =>
                  q \notin DOMAIN resolved /\ (q \in DOMAIN resultTree => resultTree[q] = "object")

LEMMA NodesOfTree ==
    ASSUME NewTree(config)
    PROVE  /\ DOMAIN config \subseteq Seq(STRING) /\ DOMAIN config \subseteq nodesOf(config)
           /\ nodesOf(config) \subseteq Seq(STRING)
           /\ \A p \in nodesOf(config) : \A n \in 1..Len(p) : SubSeq(p, 1, n) \in nodesOf(config)
<1>1. DOMAIN config \subseteq Seq(STRING) /\ << >> \notin DOMAIN config
    BY MergeConstants DEF NewTree, MergeConstants
<1>2. ASSUME NEW p \in DOMAIN config
      PROVE  p \in nodesOf(config)
    <2>1. Len(p) \in 1..Len(p) /\ SubSeq(p, 1, Len(p)) = p
        BY <1>1
    <2>2. p \in {SubSeq(p, 1, n) : n \in 1..Len(p)}
        BY <2>1
    <2>3. QED
        BY <2>2 DEF nodesOf
<1>3. ASSUME NEW p \in nodesOf(config)
      PROVE  p \in Seq(STRING) /\ \A n \in 1..Len(p) : SubSeq(p, 1, n) \in nodesOf(config)
    <2>1. PICK r \in DOMAIN config : \E k \in 1..Len(r) : p = SubSeq(r, 1, k)
        BY DEF nodesOf
    <2>2. PICK k \in 1..Len(r) : p = SubSeq(r, 1, k)
        BY <2>1
    <2>3. r \in Seq(STRING)
        BY <1>1
    <2>4. p \in Seq(STRING) /\ Len(p) = k
        BY <2>2, <2>3
    <2>5. ASSUME NEW n \in 1..Len(p) PROVE SubSeq(p, 1, n) \in nodesOf(config)
        <3>1. n \in 1..Len(r)
            BY <2>3, <2>4
        <3>2. SubSeq(p, 1, n) = SubSeq(r, 1, n)
            BY <2>2, <2>3, <2>4
        <3>3. QED
            BY <3>1, <3>2 DEF nodesOf
    <2>6. QED
        BY <2>4, <2>5
<1>4. QED
    BY <1>1, <1>2, <1>3

(* A finished merge, whatever it has rejected, cut short or coerced, hands over what  *)
(* InputsAsDeclared assumes of a result to compare: a tree with all that leads to its *)
(* nodes, where what is above an owned leaf is an object and has no owner itself.     *)
(* Owners without a leaf are only those of a failed result, whose tree was given up   *)
(* because there were too many coercion rules.                                        *)
THEOREM ResultAsDeclaredHolds == Spec => []ResultAsDeclared
<1>1. OverlayInv /\ ReportInv /\ CountInv => ResultAsDeclared
    <2>. SUFFICES ASSUME OverlayInv, ReportInv, CountInv, stage = "done" PROVE ResultAsDeclared
        BY DEF ResultAsDeclared
    <2>. DEFINE D == {<< >>} \cup nodesOf(config)
    <2>1. /\ DOMAIN config \subseteq Seq(STRING) /\ DOMAIN config \subseteq nodesOf(config)
          /\ nodesOf(config) \subseteq Seq(STRING)
          /\ \A p \in nodesOf(config) : \A n \in 1..Len(p) : SubSeq(p, 1, n) \in nodesOf(config)
        BY NodesOfTree DEF CountInv
    <2>2. DOMAIN resultTree = D /\ \A q \in D : q \notin DOMAIN config => resultTree[q] = "object"
        BY DEF resultTree
    <2>3. << >> \in D /\ D \subseteq Seq(STRING)
        <3>1. << >> \in Seq(STRING)
            OBVIOUS
        <3>2. << >> \in D
            OBVIOUS
        <3>3. nodesOf(config) \subseteq Seq(STRING)
            BY <2>1
        <3>4. QED
            BY <3>1, <3>2, <3>3
    <2>4. \A p \in D : \A n \in 0..Len(p) : SubSeq(p, 1, n) \in D
        <3>1. ASSUME NEW p \in D, NEW n \in 0..Len(p) PROVE SubSeq(p, 1, n) \in D
            <4>1. CASE n = 0
                BY <2>3, <4>1
            <4>2. CASE n # 0
                <5>1. n \in 1..Len(p) /\ p # << >>
                    BY <2>3, <4>2
                <5>2. QED
                    BY <2>1, <5>1
            <4>3. QED
                BY <4>1, <4>2
        <3>2. QED
            BY <3>1
    <2>5. CASE Dropped
        <3>1. DOMAIN resolved \subseteq Seq(STRING) /\ \A p, q \in DOMAIN resolved : overlap(p, q) => p = q
            BY <2>5, MergeConstants DEF OverlayInv, Leaves, MergeConstants
        <3>2. ~ok
            BY <2>5, DroppedIsGivenUp DEF GivenUp
        <3>3. D = {<< >>} /\ resultTree[<< >>] = "object" /\ << >> \notin DOMAIN config
            BY <2>2, <2>5 DEF Dropped, nodesOf
        <3>4. << >> \notin DOMAIN resolved
            BY <2>5, MergeConstants DEF OverlayInv, Leaves, MergeConstants
        <3>. HIDE DEF D
        <3>5. ASSUME NEW p \in DOMAIN resolved, NEW q \in D \cup DOMAIN resolved, q # p, isPathPrefix(q, p)
              PROVE  q \notin DOMAIN resolved /\ (q \in D => resultTree[q] = "object")
            BY <3>1, <3>3, <3>4, <3>5 DEF overlap
        <3>6. QED
            BY <2>2, <2>3, <2>4, <3>1, <3>2, <3>5 DEF ResultAsDeclared
    <2>6. CASE ~Dropped
        <3>1. DOMAIN resolved = DOMAIN config /\ \A p, q \in DOMAIN config : overlap(p, q) => p = q
            BY <2>6 DEF OverlayInv, CountInv, NewTree, IsTree
        <3>2. \A p \in DOMAIN config : \A q \in D : q # p /\ isPathPrefix(q, p) => q \notin DOMAIN config
            BY <3>1 DEF overlap
        <3>3. DOMAIN resolved \subseteq D /\ DOMAIN resolved \subseteq Seq(STRING)
            BY <2>1, <3>1
        <3>. HIDE DEF D
        <3>4. QED
            BY <2>2, <2>3, <2>4, <3>1, <3>2, <3>3 DEF ResultAsDeclared
    <2>7. QED
        BY <2>5, <2>6
<1>2. QED
    BY <1>1, CountInit, CountInvStep, OverlayInvHolds, ReportInvHolds, PTL DEF Spec
=============================================================================
