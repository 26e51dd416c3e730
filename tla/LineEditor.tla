------------------------------ MODULE LineEditor ------------------------------
(***************************************************************************)
(* One terminal's line editor (keyboard.c) and the process reading it      *)
(* (terminal_read).  terminal_t lays out  enter_flag, buf[BUF_SIZE],       *)
(* return_buffer[RET_BUF_SIZE]  back to back, and the code indexes buf     *)
(* past both ends (buf[-1], buf[buf_idx] with buf_idx = BUF_SIZE, strlen   *)
(* of a full buf, strncpy padding), so the two arrays are one byte array   *)
(* mem: mem[0..B-1] is buf, mem[B..2B] is return_buffer.  buf[-1] is the   *)
(* high byte of enter_flag (always 0) and the bytes after return_buffer    *)
(* are the structure's padding (0); writes past mem are not kept.          *)
(*                                                                         *)
(* Sizes are scaled: B = BUF_SIZE (128), L = MAX_STRING_LEN (32),          *)
(* H = HISTORY_SIZE (5).  Every handler runs with interrupts off and is    *)
(* one step; terminal_read's two spin loops are where keys interleave.     *)
(***************************************************************************)
EXTENDS Integers, Sequences, FiniteSets, Functions

CONSTANTS
    B,          \* BUF_SIZE; return_buffer has B + 1 bytes
    L,          \* MAX_STRING_LEN: file-name length and tab's copy width
    H,          \* HISTORY_SIZE
    Typed,      \* printable keys the user may type
    Names,      \* file_name[] of the directory entries, NUL padded
    NBytes,     \* nbytes values a reader may pass
    LineLimit,  \* the user types or tabs only while buf_idx < LineLimit
    HistInit    \* the text init_terminal puts in every history entry

NUL == "NUL"
NL  == "NL"

ASSUME /\ B \in Nat \ {0} /\ L \in 2..B /\ H \in 2..B
       /\ " " \in Typed /\ NUL \notin Typed /\ NL \notin Typed
       /\ Len(HistInit) < B

VARIABLES
    mem,        \* buf ++ return_buffer
    bufIdx,     \* buf_idx
    autoComp,   \* auto_comp_index
    histIdx,    \* cmd_hist_idx
    hist,       \* cmd_history[H][B]
    enterFlag,  \* enter_flag
    rdPc,       \* the reader: "idle", spinning on enter_flag ("wait"), or past it ("copy")
    rdN,        \* the reader's nbytes
    lastLine,   \* the characters of the most recent Enter (history)
    fresh,      \* an Enter has happened since the last terminal_read call (history)
    got         \* the bytes the last terminal_read copied to the caller

vars == <<mem, bufIdx, autoComp, histIdx, hist, enterFlag, rdPc, rdN, lastLine, fresh, got>>

MemIdx == 0..2 * B
BufIdx == 0..B - 1
Bytes  == Typed \cup {NUL, NL} \cup Range(HistInit) \cup UNION {{n[i] : i \in 0..L - 1} : n \in Names}
NoRead == <<"none">>

(* A read of byte i: outside mem it is enter_flag's high byte or padding. *)
Byte(m, i) == IF i \in MemIdx THEN m[i] ELSE NUL

(* A write of byte i; a write past return_buffer is not kept.              *)
Put(m, i, c) == IF i \in MemIdx THEN [m EXCEPT ![i] = c] ELSE m

RECURSIVE StrLenFrom(_, _)
StrLenFrom(m, i) == IF Byte(m, i) = NUL THEN 0 ELSE 1 + StrLenFrom(m, i + 1)

(* strlen(buf): runs on into return_buffer when buf holds no NUL.         *)
StrLen(m) == StrLenFrom(m, 0)

(* strncpy(dst, src, n) of a byte array src: the bytes up to the first    *)
(* NUL, then NUL padding up to n.                                          *)
StrnCopy(src, n) ==
    [i \in 0..n - 1 |-> IF \A j \in 0..i : src[j] # NUL THEN src[i] ELSE NUL]

BufOf(m) == [i \in BufIdx |-> m[i]]

(* buf replaced by the first B bytes of arr.                              *)
SetBuf(m, arr) == [i \in MemIdx |-> IF i < B THEN arr[i] ELSE m[i]]

(* find_autocomp_index: the last space at or before buf[buf_idx], + 1.    *)
RECURSIVE LastSpace(_, _)
LastSpace(m, i) == IF i < 0 \/ Byte(m, i) = " " THEN i ELSE LastSpace(m, i - 1)

FindAutocompIndex(m, idx) == LastSpace(m, idx) + 1

(* handle_backspace's loop back to the start of the previous word.         *)
RECURSIVE WordStartFrom(_, _)
WordStartFrom(m, a) == IF a > 0 /\ Byte(m, a - 1) # " " THEN WordStartFrom(m, a - 1) ELSE a

(* strncmp(fname, query, n) = 0 for a query starting at buf[q].            *)
StrnEq(fname, m, q, n) ==
    \A j \in 0..n - 1 : (\A k \in 0..j - 1 : fname[k] # NUL) => fname[j] = Byte(m, q + j)

(* all_files[] past total_dentries is zeroed, and the loop visits it too. *)
EmptyName == [i \in 0..L - 1 |-> NUL]
AllFiles == Names \cup {EmptyName}

(* handle_tab's most_common_suffix after the loop over matching names M:  *)
(* the first match's suffix, cut with NULs where any later match differs. *)
CommonSuffix(M, sq) ==
    LET first == CHOOSE f \in M : TRUE IN
    [k \in 0..L - 1 |->
        IF k < L - sq /\ \A k2 \in 0..k : \A f, g \in M : f[sq + k2] = g[sq + k2]
        THEN first[sq + k] ELSE NUL]

RECURSIVE ArrLen(_, _)
ArrLen(a, i) == IF i \notin DOMAIN a \/ a[i] = NUL THEN 0 ELSE 1 + ArrLen(a, i + 1)

(* handle_newline's copy loop return_buffer[i] = buf[i], i < buf_idx: one *)
(* byte at a time, so a buf_idx beyond B reads bytes it already wrote.     *)
RECURSIVE CopyToReturn(_, _, _)
CopyToReturn(m, i, n) == IF i >= n THEN m ELSE CopyToReturn(Put(m, B + i, Byte(m, i)), i + 1, n)

(* terminal_read's copy loop: return_buffer up to and including '\n', at  *)
(* most n bytes.                                                           *)
RECURSIVE ReadOut(_, _, _)
ReadOut(m, i, n) ==
    IF i >= n THEN <<>>
    ELSE IF Byte(m, B + i) = NL THEN <<NL>>
    ELSE <<Byte(m, B + i)>> \o ReadOut(m, i + 1, n)

LineOf(m, n) == [i \in 1..n |-> Byte(m, i - 1)]
-----------------------------------------------------------------------------
Init ==
    /\ mem = [i \in MemIdx |-> NUL]
    /\ bufIdx = 0 /\ autoComp = 0 /\ histIdx = 0
    /\ hist = [h \in 0..H - 1 |-> [i \in BufIdx |-> IF i < Len(HistInit) THEN HistInit[i + 1] ELSE NUL]]
    /\ enterFlag = 0
    /\ rdPc = "idle" /\ rdN = 0
    /\ lastLine = NoRead /\ fresh = FALSE /\ got = NoRead

Reader == <<rdPc, rdN, got>>

(* keyboard_int_handler, printable key: stored only while buf has room;   *)
(* a space starts a new word; the draft is saved as history[0] when no    *)
(* history entry is being shown.                                           *)
TypeChar(c) ==
    /\ bufIdx < B /\ bufIdx < LineLimit
    /\ mem' = Put(mem, bufIdx, c)
    /\ bufIdx' = bufIdx + 1
    /\ autoComp' = IF c = " " THEN bufIdx + 1 ELSE autoComp
    /\ hist' = IF histIdx = 0 THEN [hist EXCEPT ![0] = StrnCopy(BufOf(mem'), B)] ELSE hist
    /\ UNCHANGED <<histIdx, enterFlag, lastLine, fresh>> /\ UNCHANGED Reader

(* Mutant: backspace without its buf_idx > 0 check.                       *)
BackspaceNoGuard ==
    LET k == bufIdx - 1 IN
    /\ bufIdx' = k
    /\ autoComp' = CASE Byte(mem, k) = " " /\ Byte(mem, k - 1) # " " -> WordStartFrom(mem, k)
                     [] Byte(mem, k) = " " /\ Byte(mem, k - 1) = " " -> autoComp - 1
                     [] OTHER -> autoComp
    /\ mem' = Put(mem, k, NUL)
    /\ UNCHANGED <<histIdx, hist, enterFlag, lastLine, fresh>> /\ UNCHANGED Reader

(* Mutant: backspace moves buf_idx back but leaves the character in buf.  *)
BackspaceKeepChar ==
    /\ IF bufIdx > 0
       THEN LET k == bufIdx - 1 IN
            /\ bufIdx' = k
            /\ autoComp' = CASE Byte(mem, k) = " " /\ Byte(mem, k - 1) # " " -> WordStartFrom(mem, k)
                             [] Byte(mem, k) = " " /\ Byte(mem, k - 1) = " " -> autoComp - 1
                             [] OTHER -> autoComp
            /\ UNCHANGED mem
       ELSE /\ autoComp' = 0 /\ UNCHANGED <<mem, bufIdx>>
    /\ UNCHANGED <<histIdx, hist, enterFlag, lastLine, fresh>> /\ UNCHANGED Reader

(* handle_backspace.                                                       *)
Backspace ==
    /\ IF bufIdx > 0
       THEN LET k == bufIdx - 1 IN
            /\ bufIdx' = k
            /\ autoComp' = CASE Byte(mem, k) = " " /\ Byte(mem, k - 1) # " " -> WordStartFrom(mem, k)
                             [] Byte(mem, k) = " " /\ Byte(mem, k - 1) = " " -> autoComp - 1
                             [] OTHER -> autoComp
            /\ mem' = Put(mem, k, NUL)
       ELSE /\ autoComp' = 0 /\ UNCHANGED <<mem, bufIdx>>
    /\ UNCHANGED <<histIdx, hist, enterFlag, lastLine, fresh>> /\ UNCHANGED Reader

(* handle_newline: copy the line and '\n' to return_buffer, push it on    *)
(* the history (history[0] is overwritten before the shift, so the shift  *)
(* drops the old history[0]), clear buf, raise enter_flag.                *)
Newline ==
    LET m1 == CopyToReturn(mem, 0, bufIdx)
        m2 == Put(m1, B + bufIdx, NL)
        line == StrnCopy(BufOf(m2), B)
        h1 == [h \in 0..H - 1 |-> IF h <= 1 THEN line ELSE hist[h - 1]]
        empty == [i \in BufIdx |-> NUL]
    IN /\ mem' = SetBuf(m2, empty)
       /\ hist' = [h1 EXCEPT ![0] = empty]
       /\ autoComp' = 0 /\ histIdx' = 0 /\ bufIdx' = 0
       /\ enterFlag' = 1
       /\ lastLine' = LineOf(mem, bufIdx) /\ fresh' = TRUE
       /\ UNCHANGED Reader

(* handle_tab: complete the word starting at auto_comp_index with the     *)
(* longest suffix common to all file names it prefixes.  strncpy writes   *)
(* MAX_STRING_LEN - size_query bytes at buf[buf_idx] whatever the suffix; *)
(* buf_idx becomes strlen(buf).                                            *)
Tab ==
    LET sq == bufIdx - autoComp
        M == {f \in AllFiles : StrnEq(f, mem, autoComp, sq)}
        mcs == IF M = {} THEN EmptyName ELSE CommonSuffix(M, sq)
        m1 == [i \in MemIdx |-> IF i \in bufIdx..bufIdx + L - sq - 1 THEN mcs[i - bufIdx] ELSE mem[i]]
    IN /\ bufIdx < LineLimit
       /\ sq < L /\ autoComp < bufIdx
       /\ ArrLen(mcs, 0) + bufIdx <= B
       /\ mem' = m1
       /\ bufIdx' = StrLen(m1)
       /\ UNCHANGED <<autoComp, histIdx, hist, enterFlag, lastLine, fresh>> /\ UNCHANGED Reader

(* Up and Down arrows (get_char): show history entry cmd_hist_idx +/- 1.  *)
ShowHistory(k) ==
    LET m1 == SetBuf(mem, StrnCopy(hist[k], B))
        n == IF StrLen(m1) > B THEN B ELSE StrLen(m1)
    IN /\ histIdx' = k
       /\ mem' = m1
       /\ bufIdx' = n
       /\ autoComp' = FindAutocompIndex(m1, n)
       /\ UNCHANGED <<hist, enterFlag, lastLine, fresh>> /\ UNCHANGED Reader

UpArrow == histIdx < H - 1 /\ ShowHistory(histIdx + 1)

DownArrow == histIdx > 0 /\ ShowHistory(histIdx - 1)

(* Mutant: terminal_read's entry leaves enter_flag alone.                 *)
ReadStartNoClear(fd, n) ==
    /\ rdPc = "idle"
    /\ rdPc' = IF fd = 0 THEN "wait" ELSE "idle"
    /\ rdN' = n
    /\ got' = NoRead
    /\ fresh' = FALSE
    /\ UNCHANGED <<mem, bufIdx, autoComp, histIdx, hist, enterFlag, lastLine>>
(* terminal_read's entry: enter_flag is cleared before the fd check, so a *)
(* read of stdout also discards an entered line.                           *)
ReadStart(fd, n) ==
    /\ rdPc = "idle"
    /\ enterFlag' = 0
    /\ rdPc' = IF fd = 0 THEN "wait" ELSE "idle"
    /\ rdN' = n
    /\ got' = NoRead
    /\ fresh' = FALSE
    /\ UNCHANGED <<mem, bufIdx, autoComp, histIdx, hist, lastLine>>

(* The first spin loop ends and clears enter_flag again.                   *)
ReadWake ==
    /\ rdPc = "wait" /\ enterFlag = 1
    /\ enterFlag' = 0
    /\ rdPc' = "copy"
    /\ UNCHANGED <<mem, bufIdx, autoComp, histIdx, hist, lastLine, fresh, rdN, got>>

(* After the scheduling loop, cli and the copy of return_buffer.           *)
ReadCopy ==
    /\ rdPc = "copy"
    /\ got' = ReadOut(mem, 0, rdN)
    /\ rdPc' = "idle"
    /\ UNCHANGED <<mem, bufIdx, autoComp, histIdx, hist, enterFlag, lastLine, fresh, rdN>>

Next ==
    \/ \E c \in Typed : TypeChar(c)
    \/ Backspace
    \/ Newline
    \/ Tab
    \/ UpArrow
    \/ DownArrow
    \/ \E fd \in {0, 1}, n \in NBytes : ReadStart(fd, n)
    \/ ReadWake
    \/ ReadCopy

Spec == Init /\ [][Next]_vars
-----------------------------------------------------------------------------
TypeOK ==
    /\ mem \in [MemIdx -> Bytes]
    /\ bufIdx \in 0..2 * B + 1 /\ autoComp \in -1..2 * B + 2 /\ histIdx \in 0..H - 1
    /\ hist \in [0..H - 1 -> [BufIdx -> Bytes]]
    /\ enterFlag \in {0, 1}
    /\ rdPc \in {"idle", "wait", "copy"} /\ rdN \in NBytes \cup {0}
    /\ fresh \in BOOLEAN

(* buf_idx never leaves buf: handle_tab sets it to strlen(buf), which     *)
(* runs on into return_buffer when the completion fills buf exactly.      *)
BufIdxWithinBuffer == bufIdx <= B

(* auto_comp_index is the start of the word being typed: one past the     *)
(* last space before buf_idx.  Backspace, tab and the arrows each         *)
(* recompute it their own way (find_autocomp_index starts at buf_idx).    *)
AutoCompIsWordStart == autoComp = LastSpace(mem, bufIdx - 1) + 1

(* buf holds NULs from buf_idx on: strlen(buf) is buf_idx, which the      *)
(* arrows and tab rely on.                                                 *)
BufTerminated == \A i \in bufIdx..B - 1 : mem[i] = NUL

(* The editor's state agrees with buf after every key handler: buf_idx in *)
(* buf, buf terminated at buf_idx, auto_comp_index at the word start.      *)
EditorConsistent == BufIdxWithinBuffer /\ AutoCompIsWordStart /\ BufTerminated

(* The line Enter committed and its '\n', cut to the reader's nbytes.    *)
LineCut(l, n) == SubSeq(l \o <<NL>>, 1, IF n < Len(l) + 1 THEN n ELSE Len(l) + 1)

(* A terminal_read that returns hands back the newest entered line whole  *)
(* (cut only by nbytes, ending at its '\n'), and that line was entered    *)
(* after the read was called: the clear of enter_flag at entry discards a *)
(* line typed ahead, and no later key can leave return_buffer half        *)
(* rewritten when the copy runs, however Enters, reads and edits of the   *)
(* next line interleave with terminal_read's two loops.                   *)
ReadReturnsNewLine ==
    [][rdPc = "copy" /\ rdPc' = "idle" => fresh /\ got' = LineCut(lastLine, rdN)]_vars
=============================================================================
