----------------------------- MODULE MCFileRead -----------------------------
(* A small instance of file reading for TLC. *)
EXTENDS FileRead

CONSTANTS inside, outside

(* Two files of a device, and one with the same inode elsewhere. *)
ThreeFiles == {<<1, 1>>, <<1, 2>>, <<2, 1>>}

(* Each read is asked for while the path leads to a small file inside the root. *)
Quiet ==
    /\ target = inside /\ size = [f \in Files |-> 1]
    /\ content[inside] = <<1, 1>> /\ content[outside] \in {<<1, 2>>, <<2, 1>>}

MCInit == Init /\ Quiet
MCSpec == MCInit /\ [][Next]_vars /\ \A r \in Reads : WF_vars(IOReturns(r))
=============================================================================
