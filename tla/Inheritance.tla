---------------------------- MODULE Inheritance ----------------------------
(***************************************************************************)
(* loadPipelineDeclarationContext of packages/node: a declaration is read  *)
(* with the declarations it extends, depth first, each once, parents       *)
(* before children, inside a workspace and within budgets, while others    *)
(* may edit the files and retarget the links.                              *)
(*                                                                         *)
(* The read of one file is FileRead's; here it is one step.                *)
(***************************************************************************)
EXTENDS Naturals, Sequences, FiniteSets

CONSTANTS
    Paths, Missing,
    Layouts,                \* maps from paths to canonical paths, or Missing
    Documents,              \* what a file may hold: see Document
    Disks,                  \* what the files may hold at first
    Entry,                  \* the path of the selected declaration
    Workspace,              \* canonical paths inside the workspace
    EntryRoot,              \* ... and inside the boundary of the first read
    MaxDeclarations, MaxDeclarationBytes, MaxFileBytes, DefaultMaxSources,
    WithProfile,            \* a profile is asked for
    MaxEdits

(* maxSources is 0 when the declaration sets no limit; profile: it declares the *)
(* profile asked for, whose sources are among its sources.                      *)
Document == [extends : Seq(Paths), size : Nat, sources : SUBSET STRING,
             maxSources : Nat, profile : BOOLEAN]

ASSUME InheritanceConstants ==
    /\ Missing \notin Paths /\ Entry \in Paths /\ Workspace \subseteq Paths /\ EntryRoot \subseteq Paths
    /\ \A l \in Layouts : /\ l \in [Paths -> Paths \cup {Missing}]
                          /\ \A p \in Paths : l[p] # Missing => l[l[p]] = l[p]
    /\ Documents \subseteq Document /\ Disks \subseteq [Paths -> Documents]
    /\ {MaxDeclarations, MaxFileBytes, DefaultMaxSources} \subseteq Nat \ {0}
    /\ MaxDeclarationBytes \in Nat /\ MaxFileBytes <= MaxDeclarationBytes
    /\ WithProfile \in BOOLEAN /\ MaxEdits \in Nat

VARIABLES
    link, disk, edits,      \* the file system: realpath, contents, changes so far
    phase,                  \* "start", "entry", "notify", "parents", "read", "compile", "done", "failed"
    failureCode,            \* the code it failed with
    stack,                  \* of visit: the declarations being read, innermost last
    path,                   \* path of the current parent
    seen, complete,
    ordered,                \* the declarations visited, in order
    bytes,
    sourceConfigPaths,      \* where each source was declared
    announced,              \* paths handed to onDependencies
    (* Auxiliary. *)
    edges,                  \* <<child, parent>> by canonical path, as they were resolved
    reads                   \* <<path as written, canonical path>> of the files opened

fileVars == <<link, disk, edits>>
visitVars == <<stack, path, seen, complete, ordered, bytes>>
logVars == <<announced, edges, reads>>
inheritanceVars == <<fileVars, phase, failureCode, visitVars, sourceConfigPaths, logVars>>

top == stack[Len(stack)]
activePaths == {stack[i].file : i \in 1..Len(stack)}
written == top.document.extends[top.next]       \* the parent, as the declaration names it

fail(code) == phase' = "failed" /\ failureCode' = code

-----------------------------------------------------------------------------
(* Someone edits a file or retargets a link. *)
Edit ==
    /\ edits < MaxEdits /\ edits' = edits + 1
    /\ \/ link' \in Layouts /\ UNCHANGED disk
       \/ \E p \in Paths, d \in Documents : disk' = [disk EXCEPT ![p] = d] /\ UNCHANGED link
    /\ UNCHANGED <<phase, failureCode, visitVars, sourceConfigPaths, logVars>>

(* readSingleDeclaration: a file that can be read from the boundary within a limit. *)
readable(p, root, limit) == link[p] # Missing /\ link[p] \in root /\ disk[link[p]].size <= limit

enter(frames, f, d) ==
    /\ stack' = Append(frames, [file |-> f, document |-> d, next |-> 1])
    /\ phase' = IF d.extends = << >> THEN "parents" ELSE "notify"

(* onDependencies is awaited before any read, and may refuse. *)
Begin ==
    /\ phase = "start"
    /\ announced' = {Entry}
    /\ \/ phase' = "entry" /\ UNCHANGED failureCode
       \/ fail("refused")
    /\ UNCHANGED <<fileVars, visitVars, sourceConfigPaths, edges, reads>>

ReadEntry ==
    /\ phase = "entry"
    /\ reads' = {<<Entry, link[Entry]>>}
    /\ LET f == link[Entry]
       IN  \/ /\ readable(Entry, EntryRoot, MaxFileBytes) /\ f \in Workspace
              /\ enter(<< >>, f, disk[f])
              /\ seen' = {f} /\ bytes' = disk[f].size /\ UNCHANGED failureCode
           \/ /\ f \in Paths \ Workspace /\ readable(Entry, EntryRoot, MaxFileBytes)
              /\ fail("outside") /\ UNCHANGED <<stack, seen, bytes>>
           \/ fail("unreadable") /\ UNCHANGED <<stack, seen, bytes>>     \* or invalid
    /\ UNCHANGED <<fileVars, path, complete, ordered, sourceConfigPaths, announced, edges>>

Notify ==
    /\ phase = "notify"
    /\ announced' = announced \cup {top.document.extends[i] : i \in 1..Len(top.document.extends)}
    /\ \/ phase' = "parents" /\ UNCHANGED failureCode
       \/ fail("refused")
    /\ UNCHANGED <<fileVars, visitVars, sourceConfigPaths, edges, reads>>

(* The next parent: refused, known, or to be read. *)
Bug_isActive(p) == p \in seen           \* one set of visited files for both questions
isActive(p) == p \in activePaths
Bug_isComplete(p) == FALSE              \* shared parents visited again
isComplete(p) == p \in complete
withinBudgets == Cardinality(seen) < MaxDeclarations /\ bytes < MaxDeclarationBytes

LookUpParent ==
    /\ phase = "parents" /\ top.next <= Len(top.document.extends)
    /\ path' = link[written]
    /\ edges' = edges \cup {<<top.file, path'>>}
    /\ \/ /\ path' = Missing
          /\ fail("unreadable") /\ UNCHANGED <<stack, seen>>
       \/ /\ path' \in Paths \ Workspace
          /\ fail("outside") /\ UNCHANGED <<stack, seen>>
       \/ /\ path' \in Workspace /\ isActive(path')
          /\ fail("cycle") /\ UNCHANGED <<stack, seen>>
       \/ /\ path' \in Workspace /\ ~isActive(path') /\ isComplete(path')
          /\ stack' = [stack EXCEPT ![Len(stack)].next = @ + 1]
          /\ UNCHANGED <<phase, failureCode, seen>>
       \/ /\ path' \in Workspace /\ ~isActive(path') /\ ~isComplete(path')
          /\ IF withinBudgets
             THEN phase' = "read" /\ seen' = seen \cup {path'} /\ UNCHANGED <<failureCode, stack>>
             ELSE fail("budget") /\ UNCHANGED <<stack, seen>>
    /\ UNCHANGED <<fileVars, complete, ordered, bytes, sourceConfigPaths, announced, reads>>

(* The path is resolved again by the read: it must still be the file looked up. *)
remaining == MaxDeclarationBytes - bytes
Bug_sameFile == TRUE
sameFile == link[path] = path

ReadParent ==
    /\ phase = "read"
    /\ reads' = reads \cup {<<written, link[path]>>}
    /\ \/ /\ readable(path, Workspace, IF remaining < MaxFileBytes THEN remaining ELSE MaxFileBytes)
          /\ sameFile
          /\ enter([stack EXCEPT ![Len(stack)].next = @ + 1], path, disk[link[path]])
          /\ bytes' = bytes + disk[link[path]].size /\ UNCHANGED failureCode
       \/ link[path] \in Workspace /\ ~sameFile /\ fail("identity") /\ UNCHANGED <<stack, bytes>>
       \/ fail("unreadable") /\ UNCHANGED <<stack, bytes>>     \* invalid, too long or gone
    /\ UNCHANGED <<fileVars, path, seen, complete, ordered, sourceConfigPaths, announced, edges>>

(* All parents of the innermost declaration have been visited. *)
Leave ==
    /\ phase = "parents" /\ top.next > Len(top.document.extends)
    /\ complete' = complete \cup {top.file}
    /\ ordered' = Append(ordered, [file |-> top.file, document |-> top.document])
    /\ stack' = SubSeq(stack, 1, Len(stack) - 1)
    /\ phase' = IF Len(stack) = 1 THEN "compile" ELSE "parents"
    /\ UNCHANGED <<fileVars, failureCode, path, seen, bytes, sourceConfigPaths, logVars>>

(* The limits of a later declaration win; ids of sources are unique. *)
places == 1..Len(ordered)
maxSources ==
    LET setters == {i \in places : ordered[i].document.maxSources # 0}
    IN  IF setters = {} THEN DefaultMaxSources
        ELSE ordered[CHOOSE i \in setters : \A j \in setters : j <= i].document.maxSources
declared == {x \in places \X UNION {ordered[i].document.sources : i \in places} :
                x[2] \in ordered[x[1]].document.sources}
idsUnique == \A x, y \in declared : x[2] = y[2] => x = y

Compile ==
    /\ phase = "compile"
    /\ IF WithProfile /\ ~\E i \in places : ordered[i].document.profile
       THEN fail("profile") /\ UNCHANGED sourceConfigPaths
       ELSE IF Cardinality(declared) > maxSources
       THEN fail("budget") /\ UNCHANGED sourceConfigPaths
       ELSE IF ~idsUnique THEN fail("invalid") /\ UNCHANGED sourceConfigPaths
       ELSE /\ phase' = "done" /\ UNCHANGED failureCode
            /\ sourceConfigPaths' = {<<x[2], ordered[x[1]].file>> : x \in declared}
    /\ UNCHANGED <<fileVars, visitVars, logVars>>

-----------------------------------------------------------------------------
InheritanceInit ==
    /\ link \in Layouts /\ disk \in Disks /\ edits = 0
    /\ phase = "start" /\ failureCode = "none"
    /\ stack = << >> /\ path = Missing /\ seen = {} /\ complete = {} /\ ordered = << >> /\ bytes = 0
    /\ sourceConfigPaths = {} /\ announced = {} /\ edges = {} /\ reads = {}

InheritanceNext ==
    \/ Edit \/ Begin \/ ReadEntry \/ Notify \/ LookUpParent \/ ReadParent \/ Leave \/ Compile

InheritanceSpec == InheritanceInit /\ [][InheritanceNext]_inheritanceVars

-----------------------------------------------------------------------------
(* The declarations that were visited: each once, parents before children as    *)
(* they were resolved, the entry last, all from inside the workspace and within *)
(* both budgets, whatever was edited meanwhile.                                 *)
ParentsFirst ==
    phase = "done" =>
        /\ \A i, j \in places : ordered[i].file = ordered[j].file => i = j
        /\ \A e \in edges : \E i, j \in places :
              i < j /\ ordered[i].file = e[2] /\ ordered[j].file = e[1]
        /\ \A i \in places : i = Len(ordered) \/ \E e \in edges : e[2] = ordered[i].file
        /\ Len(ordered) \in 1..MaxDeclarations /\ bytes <= MaxDeclarationBytes
        /\ \A i \in places : ordered[i].file \in Workspace

(* A cycle is reported when there is one, and not for a diamond. *)
Reaches(f, g) ==
    \E n \in 1..MaxDeclarations, w \in [1..MaxDeclarations + 1 -> Paths] :
        w[1] = f /\ w[n + 1] = g /\ \A i \in 1..n : <<w[i], w[i + 1]>> \in edges
CycleIsReal ==
    /\ failureCode = "cycle" => Reaches(path, path)
    /\ phase = "done" => ~\E i \in places : Reaches(ordered[i].file, ordered[i].file)

(* Whatever is opened was announced to onDependencies under the name it was     *)
(* opened by; so was every file of the result.                                  *)
ReadsAnnounced ==
    /\ \A r \in reads : r[1] \in announced
    /\ phase = "done" => \A i \in places : \E r \in reads : r[2] = ordered[i].file
=============================================================================
