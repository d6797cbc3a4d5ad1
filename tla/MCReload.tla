------------------------------ MODULE MCReload ------------------------------
(* A small instance of the reloader for TLC: one refresh() runs, another joins *)
(* its successor, a third follows it.                                          *)
EXTENDS Reload

ThreeRequests == {"r1", "r2", "r3"}
=============================================================================
