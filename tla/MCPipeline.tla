----------------------------- MODULE MCPipeline -----------------------------
(* Reports that are empty, fit, and overflow the bound on diagnostics. *)
EXTENDS Pipeline

MCReports == {<< >>, <<"warning">>, <<"error">>, <<"warning", "warning", "error">>}
=============================================================================
