--------------------------- MODULE MCInheritance ---------------------------
(* A child with two parents, a link, and a place outside the workspace. *)
EXTENDS Inheritance

MCPaths == {"child", "left", "right", "base", "outside", "alias"}
MCWorkspace == {"child", "left", "right", "base"}
plain == [p \in MCPaths |-> IF p = "alias" THEN "base" ELSE p]
MCLayouts == {plain,
    [plain EXCEPT !["alias"] = "outside"],
    [plain EXCEPT !["alias"] = "child"],
    [plain EXCEPT !["left"] = "right"],
    [plain EXCEPT !["base"] = "none", !["alias"] = "none"]}

doc(e, n, s, m, p) == [extends |-> e, size |-> n, sources |-> s, maxSources |-> m, profile |-> p]
diamond == doc(<<"left", "right">>, 1, {"a"}, 0, FALSE)
chain == doc(<<"alias">>, 1, {"b"}, 0, TRUE)
root == doc(<< >>, 2, {}, 3, FALSE)
long == doc(<<"base">>, 3, {"b"}, 0, TRUE)
MCDocuments == {diamond, chain, root, long}
MCDisks == {d \in [MCPaths -> MCDocuments] :
    d["child"] = diamond /\ d["outside"] = root /\ d["alias"] = root}
=============================================================================
