------------------------------- MODULE Command -------------------------------
(***************************************************************************)
(* execute's command-line handling (systemcalls.c): get_file_name splits  *)
(* off the program name, add_args_to_buf copies the arguments, and        *)
(* validate_file accepts the name when a directory entry of exactly that  *)
(* length matches it and the file starts with the executable magic.       *)
(* A command is a sequence of characters; the NUL terminator is the       *)
(* position after its end.  Indices below are C indices (from 0).         *)
(***************************************************************************)
EXTENDS Integers, Sequences

CONSTANTS
    NameMax,      \* MAX_STRING_LEN: the longest name get_file_name ends
    Dentries,     \* the names in the directory
    Programs      \* the names among them whose data starts with the magic

SP == " "
EOS == "NUL"
Unset == -1     \* filename_end left unwritten

(* command[i] in C, with the terminator past the end.                      *)
At(cmd, i) == IF i \in 0..Len(cmd) - 1 THEN cmd[i + 1] ELSE EOS

(* The leading-space loop of get_file_name and of add_args_to_buf.  (The  *)
(* '\0' test inside get_file_name's loop can never be true there.)         *)
RECURSIVE SkipSpaces(_, _)
SkipSpaces(cmd, i) == IF At(cmd, i) = SP THEN SkipSpaces(cmd, i + 1) ELSE i

(* Mutant: the copy loop stops one name byte early (i < MAX_STRING_LEN).  *)
RECURSIVE WordEndShort(_, _, _)
WordEndShort(cmd, s, i) ==
    IF i >= NameMax THEN Unset
    ELSE IF At(cmd, s + i) \in {SP, EOS} THEN s + i
    ELSE WordEndShort(cmd, s, i + 1)

(* get_file_name's copy loop for i = 0..MAX_STRING_LEN: filename_end is   *)
(* the first space or terminator; a longer word never sets it.            *)
RECURSIVE WordEnd(_, _, _)
WordEnd(cmd, s, i) ==
    IF i > NameMax THEN Unset
    ELSE IF At(cmd, s + i) \in {SP, EOS} THEN s + i
    ELSE WordEnd(cmd, s, i + 1)

(* get_file_name: the name and filename_end.                              *)
GetFileName(cmd) ==
    LET s == SkipSpaces(cmd, 0)
        e == WordEnd(cmd, s, 0)
    IN [fend |-> e, name |-> IF e = Unset THEN <<>> ELSE SubSeq(cmd, s + 1, e)]

(* add_args_to_buf: from filename_end, skip spaces, copy up to the NUL.    *)
AddArgsToBuf(cmd, fend) == LET i == SkipSpaces(cmd, fend) IN SubSeq(cmd, i + 1, Len(cmd))

(* get_inode_from_name: an entry whose name has the same length and the   *)
(* same bytes.  The unused entries of the boot block have length 0, so    *)
(* an empty name finds one of them.                                        *)
GetInodeFromName(name) == name \in Dentries \/ name = <<>>

(* validate_file: the name resolves and the data starts with the magic.   *)
ValidateFile(name) == GetInodeFromName(name) /\ name \in Programs

(* execute gets past its parsing and validation (before the pid check).    *)
ExecOk(cmd) ==
    LET r == GetFileName(cmd) IN r.fend # Unset /\ ValidateFile(r.name)

(* Reference: the command line split at spaces into a first word and the  *)
(* rest, with the spaces between them dropped.                            *)
NonSpace(cmd) == {i \in 1..Len(cmd) : cmd[i] # SP}
RefWord(cmd) ==
    IF NonSpace(cmd) = {} THEN <<>>
    ELSE LET s == CHOOSE i \in NonSpace(cmd) : \A j \in 1..i - 1 : cmd[j] = SP
             e == CHOOSE k \in s..Len(cmd) : (\A j \in s..k : cmd[j] # SP) /\ (k = Len(cmd) \/ cmd[k + 1] = SP)
         IN SubSeq(cmd, s, e)
RefArgs(cmd) ==
    LET afterWord == {i \in 1..Len(cmd) : \E w \in 1..i - 1 : cmd[w] # SP /\ \E j \in w..i - 1 : cmd[j] = SP}
        rest == {i \in afterWord : cmd[i] # SP}
    IN IF rest = {} THEN <<>>
       ELSE SubSeq(cmd, CHOOSE i \in rest : \A j \in rest : i <= j, Len(cmd))

(* get_file_name and add_args_to_buf split cmd as the reference does,    *)
(* when its first word fits in a file name.                               *)
ParsesLikeReference(cmd) ==
    Len(RefWord(cmd)) <= NameMax =>
        LET r == GetFileName(cmd) IN
        /\ r.fend # Unset
        /\ r.name = RefWord(cmd)
        /\ AddArgsToBuf(cmd, r.fend) = RefArgs(cmd)
=============================================================================
