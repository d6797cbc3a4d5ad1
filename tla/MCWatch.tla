------------------------------ MODULE MCWatch ------------------------------
(* Small instances of the watcher for TLC. *)
EXTENDS Watch, TLC

CONSTANTS c, s, t, d1, d2, m, n

(* A declaration and two sources; a link may take a source to another directory. *)
MCPaths == {c, s, t}
MCLayouts ==
    {[p \in MCPaths |-> IF p = c THEN <<d1, m>> ELSE IF p = s THEN <<d1, n>> ELSE <<d2, n>>],
     [p \in MCPaths |-> IF p = c THEN <<d1, m>> ELSE <<d2, IF p = s THEN m ELSE n>>]}

(* The declaration and one source, side by side. *)
MCTwoPaths == {c, s}
MCOneLayout == {[p \in MCTwoPaths |-> <<d1, IF p = c THEN m ELSE n>>]}
=============================================================================
