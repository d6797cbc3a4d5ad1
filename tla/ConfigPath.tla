----------------------------- MODULE ConfigPath -----------------------------
(* Configuration paths: path.ts of packages/core. *)
EXTENDS Naturals, Sequences

isPathPrefix(prefix, path) ==
    /\ Len(prefix) <= Len(path)
    /\ \A i \in 1..Len(prefix) : prefix[i] = path[i]

overlap(p, q) == isPathPrefix(p, q) \/ isPathPrefix(q, p)
=============================================================================
