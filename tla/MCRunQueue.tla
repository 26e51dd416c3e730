----------------------------- MODULE MCRunQueue -----------------------------
(* Three PCBs, the queue bounded by their number as MAX_PROG_NUM bounds it. *)
EXTENDS RunQueue

MCPids == 0..2
=============================================================================
