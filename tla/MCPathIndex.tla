---------------------------- MODULE MCPathIndex ----------------------------
(* All paths of up to three segments over two keys. *)
EXTENDS PathIndex

CONSTANTS x, y

MCPaths == UNION {[1..n -> {x, y}] : n \in 0..3}
=============================================================================
