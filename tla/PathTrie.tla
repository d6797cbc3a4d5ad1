------------------------------ MODULE PathTrie ------------------------------
(***************************************************************************)
(* The tree of target paths: the paths that end at a node, and the nodes   *)
(* at or below which one ends; which path that is only words a message.    *)
(* The same code checks a declaration (declaration-validation.ts) and      *)
(* applies its mappings (mapping.ts).                                      *)
(***************************************************************************)
EXTENDS ConfigPath, TLC

emptyTrie == [terminal |-> {}, first |-> {}]

prefixesOf(path) == {SubSeq(path, 1, n) : n \in 0..Len(path)}

(* The conflict of a path with those added before it, or "none". *)
conflictWith(trie, path) ==
    IF \E p \in prefixesOf(path) \ {path} : p \in trie.terminal THEN "overlap"
    ELSE IF path \in trie.terminal THEN "exact"
    ELSE IF path \in trie.first THEN "overlap" ELSE "none"

(* A path in conflict is not added; the nodes made on its way hold nothing. *)
addPath(trie, path) ==
    IF conflictWith(trie, path) # "none" THEN trie
    ELSE [terminal |-> trie.terminal \cup {path}, first |-> trie.first \cup prefixesOf(path)]
=============================================================================
