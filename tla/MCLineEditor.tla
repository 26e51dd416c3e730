---------------------------- MODULE MCLineEditor ----------------------------
EXTENDS LineEditor

(* One directory entry "ab" of full length (no NUL), so a completion can  *)
(* fill buf exactly.                                                       *)
MCNames == {[i \in 0..1 |-> IF i = 0 THEN "a" ELSE "b"]}

(* One entry "ab" NUL padded to L bytes (with L = 3): strncpy then writes *)
(* a NUL after every completion.                                           *)
MCNamesPadded == {[i \in 0..L - 1 |-> CASE i = 0 -> "a" [] i = 1 -> "b" [] OTHER -> "NUL"]}
(* init_terminal's "no cmd here": a short text with spaces.              *)
MCHistInit == <<"a", " ">>

(* The shell passes the line terminal_read returned to execute, which     *)
(* parses it with get_file_name and add_args_to_buf (Command).            *)
Cmd == INSTANCE Command WITH NameMax <- L, Dentries <- {}, Programs <- {}

(* Every line Enter commits, whatever mix of typing, backspace, tab       *)
(* completion and history recall produced it, is split by execute's       *)
(* parser into the same program name and arguments as the reference      *)
(* split at spaces.                                                       *)
ParseMatchesReference == lastLine # NoRead => Cmd!ParsesLikeReference(lastLine)
=============================================================================
