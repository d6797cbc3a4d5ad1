-------------------------------- MODULE Merge --------------------------------
(***************************************************************************)
(* resolveConfig of packages/core/src/merge.ts: sources in the order of    *)
(* their priority are flattened and written entry by entry into one tree,  *)
(* with the owner of every leaf, the key budget of merge-key-budget.ts and *)
(* the bounded diagnostics of diagnostics.ts; coercion follows.            *)
(*                                                                         *)
(* A tree is the function from the paths of its leaves to their kinds; its *)
(* inner objects are the prefixes of these paths.  An array is a leaf: it  *)
(* is written as a whole.                                                  *)
(***************************************************************************)
EXTENDS FiniteSets, ConfigPath, Diagnostics

CONSTANTS
    Paths,              \* the paths within maxDepth and maxPathLength
    Contents,           \* the trees that sources may hold
    Decoded,            \* what a coerced string may stand for: trees over relative paths
    Priorities, MaxSources,
    ArrayKeys,          \* how many keys the contents of an array count for
    MaxKeyCount, MaxProvenanceEvents, MaxResolvedPaths

ASSUME MergeConstants ==
    /\ Paths \subseteq Seq(STRING) /\ << >> \notin Paths
    /\ Priorities \subseteq Nat /\ MaxSources \in Nat /\ ArrayKeys \in Nat
    /\ {MaxKeyCount, MaxProvenanceEvents, MaxResolvedPaths} \subseteq Nat \ {0}

VARIABLES
    stage,              \* "sources", "entries", "coercion", "finish", "done"
    source, priority,   \* the number of sources begun; the priority of the last
    entries, last,      \* entries of the current source to come; the path of the last one
    config,
    resolved,           \* resolvedIndex: the owner of every leaf
    displaced,          \* displacedParents of the current source
    issues,             \* the codes of the issues
    provenance,         \* how many events
    keyCount, exceeded, \* keyBudget
    coerced,            \* didCoerce
    (* Auxiliary. *)
    base, whole,        \* tree and owners before the current source; its content
    failed,             \* some error was reported
    writes              \* <<source, priority, path>> of every write

issueVars == <<issues, failed>>
treeVars == <<config, resolved, displaced, keyCount, exceeded, provenance, writes>>
inputVars == <<source, priority, base, whole>>
vars == <<stage, entries, last, coerced, issueVars, treeVars, inputVars>>

Kinds == {"scalar", "empty", "array"}
Owner == [winner : Nat, priority : Nat, overridden : SUBSET Nat]

(* A tree is finite, and its leaves are not above one another. *)
IsTree(c) == IsFiniteSet(DOMAIN c) /\ c \in [DOMAIN c -> Kinds] /\ \A p, q \in DOMAIN c : overlap(p, q) => p = q

ASSUME ContentsAreTrees == \A c \in Contents : IsTree(c) /\ DOMAIN c \subseteq Paths
ASSUME DecodedAreTrees == \A t \in Decoded : IsTree(t) /\ DOMAIN t \subseteq Seq(STRING) /\ DOMAIN t # {}

ErrorCodes == {"rejected", "conflict", "keys", "provenance", "paths", "coercion", "overflow"}

TypeOK ==
    /\ stage \in {"sources", "entries", "coercion", "finish", "done"}
    /\ source \in Nat /\ priority \in Nat /\ keyCount \in Nat
    /\ provenance \in 0..MaxProvenanceEvents
    /\ issues \in Seq(ErrorCodes \cup {"warning"}) /\ Len(issues) <= MaxDiagnostics
    /\ DOMAIN config \subseteq Paths /\ DOMAIN entries \subseteq Paths
    /\ \A p \in DOMAIN config : config[p] \in Kinds
    /\ \A o \in {resolved[p] : p \in DOMAIN resolved} \cup {displaced[p] : p \in DOMAIN displaced} : o \in Owner
    /\ exceeded \in BOOLEAN /\ coerced \in BOOLEAN /\ failed \in BOOLEAN

-----------------------------------------------------------------------------
(***************************************************************************)
(* Paths and trees.                                                        *)
(***************************************************************************)
under(p, t) == {q \in DOMAIN t : isPathPrefix(p, q)}

(* Writing a leaf displaces what is above and below it. *)
write(t, p, x) ==
    [q \in {r \in DOMAIN t : ~overlap(r, p)} \cup {p} |-> IF q = p THEN x ELSE t[q]]

isNonEmptyObject(p) == \E q \in DOMAIN config : q # p /\ isPathPrefix(p, q)

(* Keys and array indexes at and below the nodes of a tree. *)
nodesOf(t) == UNION {{SubSeq(p, 1, n) : n \in 1..Len(p)} : p \in DOMAIN t}
nestedKeyCount(x) == IF x = "array" THEN ArrayKeys ELSE 0
keysBelow(p, t) ==
    Cardinality({n \in nodesOf(t) : n # p /\ isPathPrefix(p, n)})
        + ArrayKeys * Cardinality({q \in under(p, t) : t[q] = "array"})

treeKeys(t) == Cardinality(nodesOf(t)) + ArrayKeys * Cardinality({q \in DOMAIN t : t[q] = "array"})

Largest(S) == CHOOSE n \in S : \A m \in S : m <= n

(* The walk down p ends at p, at a leaf that is no object, or at a missing key. *)
Bug_projectedMergeKeyCount(p, x) ==     \* a replaced array is still counted
    IF p \in nodesOf(config) THEN keyCount + nestedKeyCount(x)
    ELSE keyCount + Len(p) - Largest({0} \cup {Len(n) : n \in {m \in nodesOf(config) : isPathPrefix(m, p)}})
             + nestedKeyCount(x)
projectedMergeKeyCount(p, x) ==
    LET blocking == {q \in DOMAIN config : q # p /\ isPathPrefix(q, p) /\ config[q] # "empty"}
        present == {n \in nodesOf(config) : isPathPrefix(n, p)}
    IN  IF p \in present THEN keyCount + nestedKeyCount(x) - keysBelow(p, config)
        ELSE IF blocking # {}
        THEN LET q == CHOOSE q \in blocking : TRUE
             IN  keyCount + Len(p) - Len(q) + nestedKeyCount(x) - nestedKeyCount(config[q])
        ELSE keyCount + Len(p) - Largest({0} \cup {Len(n) : n \in present}) + nestedKeyCount(x)

-----------------------------------------------------------------------------
(***************************************************************************)
(* Limits and provenance.                                                  *)
(***************************************************************************)
once(s, code) == IF contains(s, code) THEN s ELSE append(s, code)

(* An event is recorded, or its loss is reported once. *)
recorded(s) == IF provenance < MaxProvenanceEvents THEN s ELSE once(s, "provenance")
recordEvent ==
    provenance' = IF provenance < MaxProvenanceEvents THEN provenance + 1 ELSE provenance

-----------------------------------------------------------------------------
(***************************************************************************)
(* Sources.                                                                *)
(***************************************************************************)
(* The next source in the order of priorities, with the issues of its adapter; *)
(* by itself it is within the key budget.                                      *)
BeginSource(c, pri, warned) ==
    /\ treeKeys(c) <= MaxKeyCount
    /\ stage = "sources" /\ source < MaxSources /\ pri >= priority
    /\ stage' = "entries" /\ source' = source + 1 /\ priority' = pri
    /\ entries' = c /\ whole' = c /\ last' = << >>
    /\ base' = [config |-> config, resolved |-> resolved]
    /\ displaced' = << >>
    /\ issues' = IF warned THEN append(issues, "warning") ELSE issues
    /\ UNCHANGED <<config, resolved, keyCount, exceeded, provenance, writes, coerced, failed>>

(* A source whose adapter failed, or whose value is no proper tree, is left out. *)
RejectSource(pri) ==
    /\ stage = "sources" /\ source < MaxSources /\ pri >= priority
    /\ source' = source + 1 /\ priority' = pri
    /\ issues' = recorded(append(issues, "rejected")) /\ failed' = TRUE
    /\ recordEvent
    /\ UNCHANGED <<stage, entries, last, coerced, config, resolved, displaced, keyCount,
                   exceeded, writes, base, whole>>

EndSource ==
    /\ stage = "entries" /\ DOMAIN entries = {}
    /\ stage' = "sources"
    /\ UNCHANGED <<entries, last, coerced, issueVars, treeVars, inputVars>>

-----------------------------------------------------------------------------
(***************************************************************************)
(* One entry.                                                              *)
(***************************************************************************)
(* Entries come in depth-first order: the next one shares most with the last. *)
shared(p, q) == Largest({n \in 0..Len(p) : isPathPrefix(SubSeq(p, 1, n), q)})
isNext(p) == \A q \in DOMAIN entries : shared(last, q) <= shared(last, p)

Bug_relatedOwners(p) == {resolved[q] : q \in {r \in DOMAIN resolved : overlap(r, p)}}
relatedOwners(p) ==
    {resolved[q] : q \in {r \in DOMAIN resolved : overlap(r, p)}}
        \cup {displaced[q] : q \in {r \in DOMAIN displaced : overlap(r, p)}}

conflict(p) == \E o \in relatedOwners(p) : o.priority = priority /\ o.winner # source

exceeds(n) == n > MaxKeyCount

history(p) == (UNION {o.overridden \cup {o.winner} : o \in relatedOwners(p)}) \ {source}

isEmptyOverlay(p) == entries[p] = "empty" /\ isNonEmptyObject(p)

applyEntry(p) ==
    /\ stage = "entries" /\ p \in DOMAIN entries /\ isNext(p)
    /\ last' = p
    /\ entries' = [q \in DOMAIN entries \ {p} |-> entries[q]]
    /\ IF isEmptyOverlay(p)
       THEN UNCHANGED <<stage, treeVars, issueVars>>
       ELSE LET checked == IF conflict(p) THEN append(issues, "conflict") ELSE issues
                count == projectedMergeKeyCount(p, entries[p])
                owner == [winner |-> source, priority |-> priority, overridden |-> history(p)]
            IN  IF exceeds(count)
                THEN /\ exceeded' = TRUE /\ stage' = "finish"
                     /\ issues' = append(checked, "keys") /\ failed' = TRUE
                     /\ UNCHANGED <<config, resolved, displaced, keyCount, provenance, writes>>
                ELSE /\ config' = write(config, p, entries[p])
                     /\ resolved' = write(resolved, p, owner)
                     /\ displaced' = [q \in DOMAIN displaced \cup
                               {r \in DOMAIN resolved : overlap(r, p) /\ Len(r) < Len(p)} |->
                                  IF q \in DOMAIN resolved THEN resolved[q] ELSE displaced[q]]
                     /\ keyCount' = count
                     /\ issues' = recorded(checked) /\ recordEvent
                     /\ failed' = (failed \/ conflict(p) \/ provenance = MaxProvenanceEvents)
                     /\ writes' = writes \cup {<<source, priority, p>>}
                     /\ UNCHANGED <<stage, exceeded>>
    /\ UNCHANGED <<coerced, inputVars>>

-----------------------------------------------------------------------------
(***************************************************************************)
(* Coercion and the result.                                                *)
(***************************************************************************)
EndMerge ==
    /\ stage = "sources"
    /\ stage' = IF hasError(issues) THEN "finish" ELSE "coercion"
    /\ UNCHANGED <<entries, last, coerced, issueVars, treeVars, inputVars>>

(* More rules than events are allowed: the coercion answers with an empty tree and *)
(* an error, and the merge takes this tree over; the owners stay what they were.   *)
RefuseRules ==
    /\ stage = "sources" /\ ~hasError(issues)
    /\ stage' = "finish" /\ config' = << >>
    /\ issues' = append(issues, "coercion") /\ failed' = TRUE
    /\ UNCHANGED <<entries, last, coerced, resolved, displaced, keyCount, exceeded, provenance,
                   writes, inputVars>>

(* One rule turns a string leaf into what it encodes; the first rule whose result *)
(* would exceed a budget ends the coercion.  (So does an overflow of the rules'   *)
(* own diagnostics; here the rules may go on, on a result that has failed.)       *)
expanded(p, t) ==
    [q \in (DOMAIN config \ {p}) \cup {p \o r : r \in DOMAIN t} |->
        IF isPathPrefix(p, q) THEN t[SubSeq(q, Len(p) + 1, Len(q))] ELSE config[q]]
overBudget(p, t) ==
    \/ provenance = MaxProvenanceEvents
    \/ \E r \in DOMAIN t : p \o r \notin Paths
    \/ exceeds(keyCount + treeKeys(t))

CoerceRule(p, t) ==
    /\ stage = "coercion"
    /\ p \in DOMAIN config /\ config[p] = "scalar"
    /\ \/ /\ provenance < MaxProvenanceEvents           \* the string does not decode
          /\ issues' = append(issues, "coercion") /\ failed' = TRUE
          /\ UNCHANGED <<stage, config, keyCount, provenance, coerced>>
       \/ /\ overBudget(p, t)
          /\ issues' = append(issues, "coercion") /\ failed' = TRUE /\ stage' = "finish"
          /\ UNCHANGED <<config, keyCount, provenance, coerced>>
       \/ /\ ~overBudget(p, t)
          /\ config' = expanded(p, t)
          /\ keyCount' = keyCount + treeKeys(t)
          /\ recordEvent /\ coerced' = TRUE
          /\ UNCHANGED <<stage, issueVars>>
    /\ UNCHANGED <<entries, last, resolved, displaced, exceeded, writes, inputVars>>

(* The new leaves inherit the owner of the value that encoded them. *)
ownersAfterCoercion ==
    LET owner(q) == CHOOSE r \in DOMAIN resolved : isPathPrefix(r, q)
    IN  IF coerced THEN [q \in DOMAIN config |-> resolved[owner(q)]] ELSE resolved

Finish ==
    /\ stage \in {"coercion", "finish"} /\ stage' = "done"
    /\ resolved' = ownersAfterCoercion
    /\ LET many == Cardinality(DOMAIN resolved') > MaxResolvedPaths
       IN  /\ issues' = IF many THEN once(issues, "paths") ELSE issues
           /\ failed' = (failed \/ many)
    /\ UNCHANGED <<entries, last, coerced, config, displaced, keyCount, exceeded, provenance,
                   writes, inputVars>>

ok == ~hasError(issues)

Init ==
    /\ stage = "sources" /\ source = 0 /\ priority = 0
    /\ entries = << >> /\ last = << >> /\ config = << >> /\ resolved = << >> /\ displaced = << >>
    /\ issues = << >> /\ provenance = 0 /\ keyCount = 0
    /\ exceeded = FALSE /\ coerced = FALSE /\ failed = FALSE
    /\ base = [config |-> << >>, resolved |-> << >>] /\ whole = << >> /\ writes = {}

Next ==
    \/ \E pri \in Priorities :
        RejectSource(pri) \/ \E c \in Contents, warned \in BOOLEAN : BeginSource(c, pri, warned)
    \/ \E p \in DOMAIN entries : applyEntry(p)
    \/ EndSource \/ EndMerge \/ RefuseRules \/ Finish
    \/ \E p \in DOMAIN config, t \in Decoded : CoerceRule(p, t)

Spec == Init /\ [][Next]_vars

-----------------------------------------------------------------------------
(***************************************************************************)
(* Reference: a whole source is laid over a tree at once.                  *)
(***************************************************************************)
contributed == {p \in DOMAIN whole :
    ~(whole[p] = "empty" /\ \E q \in DOMAIN base.config : q # p /\ isPathPrefix(p, q))}
displacedBy(p) == {q \in DOMAIN base.config : overlap(p, q)}
kept == {q \in DOMAIN base.config : \A p \in contributed : ~overlap(p, q)}

Overlaid ==
    /\ config = [p \in kept \cup contributed |->
                     IF p \in contributed THEN whole[p] ELSE base.config[p]]
    /\ resolved = [p \in kept \cup contributed |->
           IF p \in kept THEN base.resolved[p]
           ELSE [winner |-> source, priority |-> priority,
                 overridden |-> UNION {base.resolved[q].overridden \cup {base.resolved[q].winner} :
                                          q \in displacedBy(p)}]]

(* The tree has been given up for a failed result without one. *)
GivenUp == stage \in {"finish", "done"} /\ config = << >> /\ ~ok

(* Entry by entry, a source changes the tree and its ownership as the deep merge *)
(* of the whole source would: the order of its entries, and that the first of    *)
(* them displaced the parent that its siblings override too, do not show.  In    *)
(* the end exactly the leaves have owners, also where a coercion has made trees: *)
(* only a failed result that has no tree may come with owners, those of the tree *)
(* that was given up because there were too many rules for it.                   *)
MergeIsDeepMerge ==
    /\ stage = "entries" /\ DOMAIN entries = {} => Overlaid
    /\ stage = "done" => DOMAIN resolved = DOMAIN config \/ GivenUp

(* The incremental key count is that of the tree, as long as there is one, and   *)
(* the tree is within its budget.                                                *)
KeyCountIsExact == (keyCount = treeKeys(config) \/ GivenUp) /\ treeKeys(config) <= MaxKeyCount

(* No error is lost to the bounds on diagnostics and events, and no two sources  *)
(* of one priority wrote overlapping paths of a good result.                     *)
ErrorsSurvive ==
    ok => ~failed /\ \A v, w \in writes : v[2] = w[2] /\ v[1] # w[1] => ~overlap(v[3], w[3])
=============================================================================
