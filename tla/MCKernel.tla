------------------------------ MODULE MCKernel ------------------------------
(* Three PCBs over two terminals: enough for a shell on each terminal plus *)
(* one child, for a full pid table, and for halt of a child and of a root. *)
EXTENDS Kernel

MCPids == 0..2
MCTerms == 0..1

(* Two PCBs for the liveness runs: a shell on each terminal, or a shell   *)
(* and its child, which is already enough for the rotation to have to skip *)
(* a SLEEPING parent; three make the temporal check too large.            *)
MCPidsLive == 0..1

(* Names of at most 2 characters stand for MAX_STRING_LEN = 32; "a" is  *)
(* the one executable, "aa" a data file.  Processes run "a", " a a"       *)
(* (arguments) and "aa" (not executable).                                 *)
MCDentries == {<<"a">>, <<"a", "a">>}
MCPrograms == {<<"a">>}
MCCommands == {<<"a">>, <<" ", "a", " ", "a">>, <<"a", "a">>}
=============================================================================
