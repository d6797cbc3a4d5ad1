--------------------------- MODULE MCApplication ---------------------------
(* A declaration, selected by a link, that extends one in another directory,   *)
(* by its path or by a link; sources that may move or lead outside.            *)
EXTENDS Application

MCConfigs == {"app", "base"}
MCParentPaths == {"base", "baseLink"}
MCPaths == MCConfigs \cup {"start", "baseLink", "ws", "dirA", "dirB", "A/s", "B/s", "far"}
MCLexical == [x \in MCConfigs \X {"s", "far"} |->
                 IF x[2] = "far" THEN "far" ELSE IF x[1] = "app" THEN "A/s" ELSE "B/s"]
MCDirOf == [c \in MCConfigs |-> IF c = "app" THEN "dirA" ELSE "dirB"]
MCUnder == {<<"ws", p>> : p \in MCPaths \ {"far"}} \cup {<<"dirA", "A/s">>, <<"dirB", "B/s">>}

straight == [p \in MCPaths |-> IF p = "start" THEN "app" ELSE IF p = "baseLink" THEN "base" ELSE p]
MCLayouts == {straight,
    [straight EXCEPT !["A/s"] = "B/s", !["start"] = "base"],
    [straight EXCEPT !["A/s"] = "far", !["B/s"] = "Missing"],
    [straight EXCEPT !["base"] = "app", !["baseLink"] = "app"],
    [straight EXCEPT !["app"] = "Missing", !["start"] = "Missing"]}

src(t, c) == [target |-> t, config |-> c]
decl(s, v) == [sources |-> s, validators |-> v]
MCDeclarations == {
    decl(<<src("s", "base"), src("s", "app")>>, 2),
    decl(<<src("inline", "app"), src("s", "base")>>, 1),
    decl(<<src("far", "app"), src("s", "app"), src("s", "app")>>, 0),
    decl(<<src("inline", "app")>>, 3),
    decl(<<src("inline", "app"), src("inline", "app"), src("s", "app"), src("s", "base")>>, 0)}
MCStart ==                  \* a load that follows a search finds the files where they were
    /\ Cardinality({c \in Candidates : entry[c] # "absent"}) <= 2
    /\ search # "done" => link = straight /\ options = [workspace |-> TRUE, validate |-> TRUE]
MCInit == Init /\ MCStart
MCSpec == MCInit /\ [][Next]_vars

MCReports == {<< >>, <<"warning">>, <<"error">>, <<"warning", "warning">>}
=============================================================================
