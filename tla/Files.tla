-------------------------------- MODULE Files --------------------------------
(***************************************************************************)
(* The per-process file-descriptor tables and what the file system calls  *)
(* do to them: open/close/read dispatch (systemcalls.c), find_open_idx and *)
(* init_pcb's descriptor set-up (pcb.c), read_file/read_directory and      *)
(* read_data (file_sys.c), rtc_read/rtc_close and the RTC interrupt's      *)
(* shared read_flag (rtc.c), and halt's close loop.                        *)
(*                                                                         *)
(* One root shell per terminal: pid t runs on terminal t, so pcb_term[t]   *)
(* is t, and halt of pid t re-executes a shell that gets pid t again (the  *)
(* other pids are in use).  The PIT tick hands the CPU round robin from   *)
(* one RUNNING process to the next (Kernel.tla models the tick itself).    *)
(* Terminal reads and writes are Kernel.tla's and the screen's.            *)
(***************************************************************************)
EXTENDS Integers, Sequences, FiniteSets

CONSTANTS
    Procs,        \* pids 0..N-1, one root shell per terminal, pid = terminal
    FdMax,        \* FD_ARRAY_MAX
    FileLen,      \* inode index -> file length in bytes (the boot block's inodes)
    BlockSize,    \* BLOCK_SIZE
    NumDentries,  \* total_dentries
    NBytes,       \* the nbytes a read passes
    GarbageInode, \* values an uninitialised file_desc_t.inode can hold
    GarbagePos,   \* values an uninitialised file_desc_t.file_position can hold
    FgOnlyRead,   \* TRUE: only processes of the foreground terminal read files
    WriteFreqs,   \* the frequencies a write to the RTC passes
    ReadLens      \* the lengths read_data is checked with

ASSUME Procs = 0..(Cardinality(Procs) - 1) /\ FdMax \in Nat /\ FdMax > 2
ASSUME BlockSize \in Nat \ {0} /\ FgOnlyRead \in BOOLEAN

Inodes == DOMAIN FileLen          \* 0 .. num_inodes-1
Fds == 0..(FdMax - 1)
Ops == {"std", "rtc", "dir", "file"}
Error == -1

(* What open() can resolve a name to, as the operation table and inode it *)
(* stores: the RTC and the directory get inode 0, a regular file its own   *)
(* (a name that resolves to nothing fails and changes nothing).           *)
Objects == {<<"rtc", 0>>, <<"dir", 0>>} \cup {<<"file", i>> : i \in Inodes}

VARIABLES
    fdt,       \* pcb_t.file_desc_array: [used (flags & IN_USE), ops, inode, pos]
    capacity,  \* pcb_t.capacity
    curr,      \* scheduler.curr_process
    fg,        \* curr_term_idx
    pc,        \* "user" or spinning in rtc_read
    readFlag,  \* rtc.c read_flag
    rtcRate,   \* the rate bits of the RTC's register A
    rtcAsked   \* the frequency of the last rtc_write that set the rate

vars == <<fdt, capacity, curr, fg, pc, readFlag, rtcRate, rtcAsked>>

StdFd == [used |-> TRUE, ops |-> "std", inode |-> 0, pos |-> 0]

(* init_pcb's descriptors: stdin/stdout in use; the other slots get a      *)
(* local whose flags alone are set, so inode and position are whatever the *)
(* stack held.                                                             *)
FreshTables ==
    LET Unused == [used : {FALSE}, ops : {"std"}, inode : GarbageInode, pos : GarbagePos]
    IN {[fd \in Fds |-> IF fd < 2 THEN StdFd ELSE g[fd]] : g \in [2..(FdMax - 1) -> Unused]}

-----------------------------------------------------------------------------
(* Mutant: the copy loop moves to the next data block without resetting   *)
(* data_offset to 0.                                                       *)
RECURSIVE CopyLoopNoReset(_, _, _, _, _, _)
CopyLoopNoReset(i, iters, dOff, dIdx, dCount, len) ==
    IF i >= iters \/ dOff >= len THEN <<>>
    ELSE LET here == <<dIdx * BlockSize + dOff>> IN
         IF dOff + 1 >= len THEN here
         ELSE IF dOff + 1 >= BlockSize
              THEN IF dIdx >= dCount THEN here
                   ELSE here \o CopyLoopNoReset(i + 1, iters, dOff + 1, dIdx + 1, dCount, len)
              ELSE here \o CopyLoopNoReset(i + 1, iters, dOff + 1, dIdx, dCount, len)

(* read_data's copy loop, as the file offsets of the bytes it copies:     *)
(* byte data_offset of the inode's data block dblock_offset is file byte   *)
(* dblock_offset * BLOCK_SIZE + data_offset.  It stops when the offset     *)
(* inside the block reaches file_len, and moves to the next data block at  *)
(* the end of one unless the file has no more.                            *)
RECURSIVE CopyLoop(_, _, _, _, _, _)
CopyLoop(i, iters, dOff, dIdx, dCount, len) ==
    IF i >= iters \/ dOff >= len THEN <<>>
    ELSE LET here == <<dIdx * BlockSize + dOff>> IN
         IF dOff + 1 >= len THEN here
         ELSE IF dOff + 1 >= BlockSize
              THEN IF dIdx >= dCount THEN here
                   ELSE here \o CopyLoop(i + 1, iters, 0, dIdx + 1, dCount, len)
              ELSE here \o CopyLoop(i + 1, iters, dOff + 1, dIdx, dCount, len)

(* read_data's result: ERROR, or the bytes copied (as file offsets).       *)
Failed == [ok |-> FALSE, bytes |-> <<>>]
Copied(b) == [ok |-> TRUE, bytes |-> b]

(* Mutant: read_data without the file_len - offset bound on iterations. *)
ReadDataNoBound(inode, offset, length) ==
    IF inode \notin Inodes THEN Failed
    ELSE IF length = 0 THEN Copied(<<>>)
    ELSE LET len == FileLen[inode]
             dCount == (len \div BlockSize) + (IF len % BlockSize # 0 THEN 1 ELSE 0)
         IN Copied(CopyLoop(0, length, offset % BlockSize, offset \div BlockSize, dCount, len))

(* read_data: ERROR for an inode past num_inodes, 0 for length 0, else the *)
(* bytes copied.  file_len - offset is unsigned: past the end of the file  *)
(* it wraps to more than any length, and length bytes are attempted.       *)
ReadData(inode, offset, length) ==
    IF inode \notin Inodes THEN Failed
    ELSE IF length = 0 THEN Copied(<<>>)
    ELSE LET len == FileLen[inode]
             dCount == (len \div BlockSize) + (IF len % BlockSize # 0 THEN 1 ELSE 0)
             iters == IF offset <= len /\ length >= len - offset THEN len - offset
                      ELSE length
         IN Copied(CopyLoop(0, iters, offset % BlockSize, offset \div BlockSize, dCount, len))

(* find_open_idx: ERROR at capacity FD_ARRAY_MAX, else the lowest unused   *)
(* slot from 2 on (ERROR if none).                                         *)
FindOpenIdx(t, cap) ==
    IF cap >= FdMax \/ \A fd \in 2..(FdMax - 1) : t[fd].used THEN Error
    ELSE CHOOSE fd \in 2..(FdMax - 1) :
            ~t[fd].used /\ \A g \in 2..(fd - 1) : t[g].used

(* Mutant: close without the STDIN_FD/STDOUT_FD refusal. *)
ClosableStd(t, fd) == fd \in Fds /\ t[fd].used

(* close's checks: fd in range, not stdin/stdout, and in use. *)
Closable(t, fd) == fd \in 2..(FdMax - 1) /\ t[fd].used

(* close clears the slot's IN_USE flag and nothing else of it. *)
CloseSlot(t, fd) == [t EXCEPT ![fd].used = FALSE]

-----------------------------------------------------------------------------
(* init_pcb_one_time / the first shells on each terminal.                  *)
Init ==
    /\ fdt \in [Procs -> FreshTables]
    /\ capacity = [p \in Procs |-> 2]
    /\ curr \in Procs
    /\ fg \in Procs
    /\ pc = [p \in Procs |-> "user"]
    /\ readFlag = FALSE
    /\ rtcRate = 15 /\ rtcAsked = 2   \* rtc_init: rate 0x0F, 2 Hz

(* The current process runs user code. *)
InUser(p) == curr = p /\ pc[p] = "user"

(* open(name): a free slot by find_open_idx, the operation table and      *)
(* inode by file type, position 0, in use (flags |= IN_USE), and           *)
(* capacity + 1; the table's open (rtc_open, open_file, open_directory)    *)
(* changes nothing.                                                        *)
Open(p, obj) ==
    /\ InUser(p)
    /\ LET pos == FindOpenIdx(fdt[p], capacity[p]) IN
       /\ pos # Error
       /\ fdt' = [fdt EXCEPT ![p][pos] =
                    [used |-> TRUE, ops |-> obj[1], inode |-> obj[2], pos |-> 0]]
       /\ capacity' = [capacity EXCEPT ![p] = @ + 1]
    /\ UNCHANGED <<curr, fg, pc, readFlag, rtcRate, rtcAsked>>

(* close(fd) on the current process's table: capacity drops and the file  *)
(* type's close runs (rtc_close clears read_flag, the others do nothing).  *)
Close(p, fd) ==
    /\ InUser(p)
    /\ Closable(fdt[p], fd)
    /\ fdt' = [fdt EXCEPT ![p] = CloseSlot(@, fd)]
    /\ capacity' = [capacity EXCEPT ![p] = @ - 1]
    /\ readFlag' = IF fdt[p][fd].ops = "rtc" THEN FALSE ELSE readFlag
    /\ UNCHANGED <<curr, fg, pc, rtcRate, rtcAsked>>

(* The process whose table read_file and read_directory use:              *)
(* pcb_term[curr_term_idx], the foreground terminal's newest process.      *)
FileOwner == fg

(* read()'s checks before it dispatches: fd in range and in use in the    *)
(* calling process's table, whose file-operations table names op.          *)
Dispatch(p, fd, op) == fd \in Fds /\ fdt[p][fd].used /\ fdt[p][fd].ops = op

(* write()'s checks: the same, on a copy of the caller's descriptor.       *)
Writable(p, fd) == fd \in Fds /\ fdt[p][fd].used

(* read(fd) of a regular file: read() checks the caller's slot and         *)
(* dispatches on its table; read_file then reads through the foreground    *)
(* process's slot fd and advances that slot's position (ERROR: 0 bytes).   *)
ReadFile(p, fd) ==
    /\ InUser(p)
    /\ FgOnlyRead => p = fg
    /\ Dispatch(p, fd, "file")
    /\ \E n \in NBytes :
          LET s == fdt[FileOwner][fd]
              r == ReadData(s.inode, s.pos, n)
          IN fdt' = IF ~r.ok THEN fdt
                    ELSE [fdt EXCEPT ![FileOwner][fd].pos = @ + Len(r.bytes)]
    /\ UNCHANGED <<capacity, curr, fg, pc, readFlag, rtcRate, rtcAsked>>

(* read(fd) of the directory: read_directory copies the next file name and *)
(* advances the foreground process's slot fd, until total_dentries.       *)
ReadDir(p, fd) ==
    /\ InUser(p)
    /\ FgOnlyRead => p = fg
    /\ Dispatch(p, fd, "dir")
    /\ fdt' = IF fdt[FileOwner][fd].pos >= NumDentries THEN fdt
              ELSE [fdt EXCEPT ![FileOwner][fd].pos = @ + 1]
    /\ UNCHANGED <<capacity, curr, fg, pc, readFlag, rtcRate, rtcAsked>>

(* read(fd) of the RTC: rtc_read clears read_flag and spins with           *)
(* interrupts on.                                                          *)
RtcReadStart(p, fd) ==
    /\ InUser(p)
    /\ Dispatch(p, fd, "rtc")
    /\ readFlag' = FALSE
    /\ pc' = [pc EXCEPT ![p] = "rtcWait"]
    /\ UNCHANGED <<fdt, capacity, curr, fg, rtcRate, rtcAsked>>

(* The spinning reader sees read_flag set and returns 0.                   *)
RtcReadDone(p) ==
    /\ curr = p /\ pc[p] = "rtcWait"
    /\ readFlag
    /\ pc' = [pc EXCEPT ![p] = "user"]
    /\ UNCHANGED <<fdt, capacity, curr, fg, readFlag, rtcRate, rtcAsked>>

(* Mutant: rtc_write's rate counter starts at 0 instead of 1. *)
RECURSIVE RateLoopFromZero(_, _)
RateLoopFromZero(temp, rate) ==
    IF temp = 1 THEN rate - 1
    ELSE IF temp \div 2 = 0 THEN Error
    ELSE RateLoopFromZero(temp \div 2, rate + 1)

(* rtc_write's loop: halve temp = MAX_SHORT / ir until it is 1, counting   *)
(* the halvings from rate = 1 (ERROR if temp reaches 0).                   *)
RECURSIVE RateLoop(_, _)
RateLoop(temp, rate) ==
    IF temp = 1 THEN rate
    ELSE IF temp \div 2 = 0 THEN Error
    ELSE RateLoop(temp \div 2, rate + 1)

(* The loop's result for each frequency written (a constant table).        *)
WriteRate == [ir \in WriteFreqs |-> RateLoop(32768 \div ir, 1)]

(* set_interrupt_rate ignores a rate outside 6..15.                        *)
RateAccepted(rate) == rate \in 6..15

(* write(fd) on an RTC descriptor of the caller's table: rtc_write takes  *)
(* the frequency ir, computes MAX_SHORT / ir (a fault for ir = 0, kept out *)
(* of WriteFreqs), refuses ir outside FREQ_LOW..FREQ_HIGH, and hands the   *)
(* loop's rate to set_interrupt_rate, which writes it to register A.       *)
RtcWrite(p, fd) ==
    /\ InUser(p)
    /\ Writable(p, fd) /\ fdt[p][fd].ops = "rtc"
    /\ \E ir \in WriteFreqs :
          LET rate == WriteRate[ir]
              set  == ir \in 2..1024 /\ rate # Error /\ RateAccepted(rate)
          IN /\ rtcRate' = IF set THEN rate ELSE rtcRate
             /\ rtcAsked' = IF set THEN ir ELSE rtcAsked
    /\ UNCHANGED <<fdt, capacity, curr, fg, pc, readFlag>>

(* rtc_int_handler: read_flag = 1. *)
RtcInt ==
    /\ readFlag' = TRUE
    /\ UNCHANGED <<fdt, capacity, curr, fg, pc, rtcRate, rtcAsked>>

(* Mutant: the re-executed shell's table without init_pcb's capacity = 2. *)
HaltKeepCapacity(p) ==
    /\ InUser(p)
    /\ readFlag' = IF \E fd \in Fds : Closable(fdt[p], fd) /\ fdt[p][fd].ops = "rtc"
                   THEN FALSE ELSE readFlag
    /\ fdt' \in {[fdt EXCEPT ![p] = t] : t \in FreshTables}
    /\ UNCHANGED <<capacity, curr, fg, pc, rtcRate, rtcAsked>>

(* halt of a root shell: close(i) for every slot (through                  *)
(* scheduler.curr_process), then execute("shell") gives the same pid a     *)
(* fresh init_pcb table.                                                   *)
Halt(p) ==
    /\ InUser(p)
    /\ readFlag' = IF \E fd \in Fds : Closable(fdt[p], fd) /\ fdt[p][fd].ops = "rtc"
                   THEN FALSE ELSE readFlag
    /\ fdt' \in {[fdt EXCEPT ![p] = t] : t \in FreshTables}
    /\ capacity' = [capacity EXCEPT ![p] = 2]
    /\ UNCHANGED <<curr, fg, pc, rtcRate, rtcAsked>>

(* The PIT tick moves the CPU to the next process of the run queue.        *)
Tick ==
    /\ curr' = (curr + 1) % Cardinality(Procs)
    /\ UNCHANGED <<fdt, capacity, fg, pc, readFlag, rtcRate, rtcAsked>>

(* Alt+Fn: switch_term makes another terminal the foreground one.          *)
Switch(t) ==
    /\ fg' = t
    /\ UNCHANGED <<fdt, capacity, curr, pc, readFlag, rtcRate, rtcAsked>>

Next ==
    \/ \E p \in Procs :
          \/ \E obj \in Objects : Open(p, obj)
          \/ \E fd \in Fds : Close(p, fd) \/ ReadFile(p, fd) \/ ReadDir(p, fd)
                             \/ RtcReadStart(p, fd) \/ RtcWrite(p, fd)
          \/ RtcReadDone(p)
          \/ Halt(p)
    \/ RtcInt
    \/ Tick
    \/ \E t \in Procs : Switch(t)

Spec == Init /\ [][Next]_vars

(* The RTC interrupts periodically and the PIT tick keeps moving the CPU;  *)
(* a process spinning in rtc_read tests read_flag whenever it holds the    *)
(* CPU.  What processes do in user mode is up to them (no fairness).       *)
FairSpec ==
    /\ Spec
    /\ WF_vars(RtcInt) /\ WF_vars(Tick)
    /\ \A p \in Procs : SF_vars(RtcReadDone(p))

-----------------------------------------------------------------------------
TypeOK ==
    /\ fdt \in [Procs -> [Fds -> [used : BOOLEAN, ops : Ops,
                                  inode : Inodes \cup GarbageInode, pos : Nat]]]
    /\ capacity \in [Procs -> 2..FdMax]
    /\ curr \in Procs /\ fg \in Procs
    /\ pc \in [Procs -> {"user", "rtcWait"}]
    /\ readFlag \in BOOLEAN
    /\ rtcRate \in 6..15 /\ rtcAsked \in 2..1024

(* A process that calls read on an RTC descriptor returns once the RTC    *)
(* has interrupted (rtc_read's contract: wait for the next interrupt).     *)
RtcReaderReturns == \A p \in Procs : pc[p] = "rtcWait" ~> pc[p] = "user"

(* Each table keeps stdin/stdout in slots 0 and 1 and its capacity counts  *)
(* them plus the slots in use: open, close, halt's close loop and the      *)
(* fresh init_pcb table each move capacity and the in-use flags in         *)
(* separate statements, and find_open_idx trusts capacity alone to refuse  *)
(* a full table.                                                           *)
FdTableConsistent ==
    \A p \in Procs :
        /\ fdt[p][0] = StdFd /\ fdt[p][1] = StdFd
        /\ capacity[p] = 2 + Cardinality({fd \in 2..(FdMax - 1) : fdt[p][fd].used})

(* The position of an open descriptor never passes the end of what it      *)
(* reads: a regular file's length (beyond it read_data's unsigned          *)
(* file_len - offset wraps and it copies from blocks past the file) and a  *)
(* directory's total_dentries.                                             *)
PositionWithinFile ==
    \A p \in Procs, fd \in 2..(FdMax - 1) :
        LET s == fdt[p][fd] IN
        /\ (s.used /\ s.ops = "file") => s.pos <= FileLen[s.inode]
        /\ (s.used /\ s.ops = "dir") => s.pos <= NumDentries
(* The frequency of rate r: 32768 >> (r - 1).                              *)
Freq(r) == 32768 \div (2 ^ (r - 1))

(* Reference: the smallest power of two at or above f.                     *)
CeilPow2(f) == CHOOSE x \in {2 ^ k : k \in 0..15} : x >= f /\ 2 * f > x

(* The RTC interrupts at the smallest power of two at or above the         *)
(* frequency of the last rtc_write that changed the rate, whichever        *)
(* process wrote it: rtc_write's halving loop and set_interrupt_rate's     *)
(* bounds turn every accepted request into that rate, and refused ones    *)
(* leave the previous rate.                                               *)
RtcFrequencyIsRequested == Freq(rtcRate) = CeilPow2(rtcAsked)

(* Reference: the file offsets from pos on, up to length bytes or the end.  *)
FileBytesFrom(inode, pos, length) ==
    LET n == IF pos >= FileLen[inode] THEN 0
             ELSE IF length < FileLen[inode] - pos THEN length ELSE FileLen[inode] - pos
    IN [i \in 1..n |-> pos + i - 1]

(* From the position of every open regular file, read_data copies exactly *)
(* the file's next bytes, in order, up to the length asked or the end of   *)
(* the file: its block-by-block copy loop moves to the next data block at  *)
(* the right byte and stops at file_len.                                   *)
ReadReturnsFileBytes ==
    \A p \in Procs, fd \in 2..(FdMax - 1), n \in ReadLens :
        LET s == fdt[p][fd] IN
        (s.used /\ s.ops = "file") =>
            ReadData(s.inode, s.pos, n) = Copied(FileBytesFrom(s.inode, s.pos, n))
=============================================================================
