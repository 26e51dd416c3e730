# TLA+ models of the MangOS kernel

MangOS (`src/student-distrib/`) is a single-core x86 teaching kernel. It runs
three terminals and at most six processes (`MAX_PROG_NUM`). It has a round-robin
scheduler driven by the PIT, and `execute`/`halt` system calls that pass control
between kernel stacks. Its file system is read-only, and it has an RTC driver.
This directory holds TLA+ modules and TLC configurations for the parts of it
whose correctness depends on interleavings, plus what those checks show.

## The system's parts and how they interact

| Part | Source | State | Operations |
|---|---|---|---|
| Process table | `pcb.c` | `pid_arr`, `pcb_term[3]`, `num_processes`, `curr_term_idx`, the PCBs at `8MB-(pid+1)*8KB` (tid, parent, state, esp/ebp, curr_esp/curr_ebp, descriptors, capacity) | `init_pcb_one_time`, `get_available_pid`, `set_pid`, `free_pid`, `init_pcb`, `find_open_idx` |
| Run queue | `sched.c` | `scheduler`: head, tail, size, max_size, curr_process; `pcb.next/prev` | `add_process_to_runqueue`, `remove_process_from_runqueue`, `runqueue_rotate`, `push`, `pop` |
| Process lifecycle | `systemcalls.c` | page-directory slot 32 (program frame), `tss.esp0` | `execute` (parse, validate, pick pid, bind frame, load, `init_pcb`, `set_pid`, save esp/ebp, `iret`), `halt` (close all, unlink, respawn or continuation jump to `halt_called`), `vidmap`, `getargs` |
| Preemption | `pit.c` | the same slots plus `curr_esp/curr_ebp` | `pit_int_handler`: rotate to a RUNNING head, rebind frame/vidmap/esp0, swap stacks |
| Terminals | `terminal.c` | `terminals[3]`, `curr_term`, vidmap tables, slot 33 | `switch_term`, `terminal_write`, `init_terms` |
| Keyboard | `keyboard.c` | per-terminal line buffer, `return_buffer`, `enter_flag`, history | `keyboard_int_handler` (Alt+F1..F3 switch and launch, Enter, backspace, tab), `terminal_read` |
| Descriptors | `systemcalls.c` | `file_desc_array[8]`, `capacity` | `open`, `close`, `read`, `write` dispatch through operation tables |
| File system | `file_sys.c` | the boot image (read-only) | `read_data`, `read_file`, `read_directory`, dentry lookup |
| RTC | `rtc.c` | global `read_flag`, device rate | `rtc_read`, `rtc_write`, `rtc_close`, `rtc_int_handler` |
| PIC, IDT, paging | `i8259.c`, `idt.c`, `paging_init.c` | device and table set-up | initialisation, EOI |

The components interact in these ways:

- Every system call enters through an interrupt gate (`idt.c`), so `execute`,
  `halt`, `open` and the others run with interrupts off. Each is one atomic step.
- Only `terminal_read` and `rtc_read` re-enable interrupts, to busy-wait.
- PIT, keyboard and RTC interrupts can fire whenever the CPU is in user mode or
  in one of those wait loops.
- The keyboard handler itself calls `execute("shell")` when Alt+F2/F3 opens a
  terminal for the first time.
- `halt` of a terminal's root shell calls `execute` half-way through its own
  teardown.
- Three routines act on the foreground terminal's state rather than the
  caller's: `read_file`, `read_directory` and `terminal_read`.

## Modules

| Module | Models | State ↔ code |
|---|---|---|
| `RunQueueAbs` | what the run queue promises: a sequence of pids, the current process, states, parents | `queue` is the list order; `AbsAdd/AbsRemove/AbsRotate/AbsPop` are the four operations |
| `ProcessStacks` | what process management promises: each terminal a call stack of programs, the CPU on the top of one, a pid table | `stacks[t]` oldest first, `cpu`, `used`; `Start` (a terminal's first shell), `Call` (execute), `Return` (halt of a child), `Respawn` (halt of a root shell), `Switch` (the tick) |
| `RunQueue` | `sched.c` as written: an intrusive doubly-linked list | `head, tail, nxt, prv, size, currProc, pstate, parent`; the links of a PCB outside the list start arbitrary (uninitialised memory) |
| `Kernel` | process management: `pcb.c`, execute/halt/vidmap, the PIT tick, terminal switching, the keyboard's Alt+F keys and Enter, `terminal_read`'s loops | one variable per kernel global; saved stack pointers are modelled by *whose instruction stream* they resume (`run`, `ctx` = curr_esp/ebp, `retCtx` = esp/ebp) |
| `Files` | descriptor tables, `open/close/read/write` dispatch (`Dispatch` and `Writable` are `read()`'s and `write()`'s checks), `read_data`, `read_file`, `read_directory`, `rtc_read`/`rtc_write`/`rtc_close`/RTC interrupt, `set_interrupt_rate`, halt's close loop | `fdt[p][fd]` = `[used, ops, inode, pos]`, `capacity`, `readFlag`, `rtcRate` (register A's rate bits), `rtcAsked` (the frequency of the last write that set the rate, a history variable); one root shell per terminal |
| `LineEditor` | one terminal's keyboard line editor (`keyboard.c` `get_char` cases for characters, backspace, Enter, tab completion, up/down history) and `terminal_read` | `mem` is `buf[BUF_SIZE]` followed by `return_buffer[BUF_SIZE+1]` as one byte array, so that writes past `buf` land where the C layout puts them; `bufIdx`, `autoComp` (`auto_comp_index`), `histIdx`, `hist`, `enterFlag`; the reader's `rdPc`, `rdN`, `got`; the history variables `lastLine` (the last committed line) and `fresh` (an Enter since the last `terminal_read` call), kept only to state properties |
| `Command` | `execute`'s parsing: `get_file_name`, `add_args_to_buf`, `get_inode_from_name`, `validate_file` | pure operators over a command line (a sequence of characters, C indices from 0) |
| `MCRunQueue`, `MCKernel`, `MCFiles`, `MCLineEditor` | the constants TLC checks with; `MCLineEditor` also composes the editor with `Command` | |

`RunQueue` is shown to implement `RunQueueAbs`: `Abs == INSTANCE RunQueueAbs WITH
queue <- Walk(head, size)`, and `AbsRefinement == Abs!AbsSpec` is checked as a
property. `Kernel` uses the sequence form of the queue.

`Kernel` is shown to implement `ProcessStacks`: `Stacks == INSTANCE
ProcessStacks WITH stacks <- [t \in Terms |-> Reverse(Chain(t))], cpu <- run
(or `Null` for the boot stream), used <- Live`, and `ImplementsProcessStacks`
is checked as a property in `kernel_core`. It says that execute pushes on the
caller's own terminal, that halt pops the running process and resumes the one
below it (or puts a fresh shell in its place), that a pid stays allocated
exactly while its process is on a stack, and that a tick only runs a stack's
top. The property is written as `Stacks!Spec` with the stuttering disjunct
first, which TLC checks faster.

The main correspondences in `Kernel`:

- `Launch` is `execute` from the point where a pid is available. It calls
  `InitPcb`, which is `init_pcb`.
- `Halt` retires `pcb_term[tid[curr]]`. When that process has no parent, it
  re-runs `Launch` on the half-updated state.
- `PitTick` is `pit_int_handler`. `KeySwitch` is the Alt+F cases of `get_char`.
  `PitTick`'s guard is the negation of the handler's early returns, which
  skip `send_eoi` and would leave IRQ0 in service. `PidTableMatchesQueue`
  and `CpuConsistent` imply that guard whenever a process stream holds the
  CPU.
- `terminal_write` changes no state the model keeps. It runs inside the
  writer's system call with interrupts off, so the `scheduler.curr_process`
  it routes by is the writer whenever `CpuConsistent` holds.
- `ReadStart`, `ReadWake` and `ReadDone` are `terminal_read` up to its two loop
  exits.
- `Execute` takes a command line from `Commands` that `Command!ExecOk`
  accepts; a line it refuses changes nothing and is a stuttering step.

The main correspondences in `LineEditor`:

- Each action is one case of `get_char` or `terminal_read`, with everything
  the case calls: `TypeChar` includes the `strncpy` of the line into history
  slot 0, `Newline` the copy into `return_buffer`, the history shift and the
  reset, `Tab` the search, the `strncpy` of `MAX_STRING_LEN - strlen(word)`
  bytes of the completion and the `strlen` that sets `buf_idx`.
- `StrLen`, `LastSpace`, `CopyToReturn` and `ReadOut` are the C loops as
  RECURSIVE operators, reading `mem` beyond `buf` where the C does.
- `ReadStart` clears `enter_flag` and resets `fresh`; `Newline` sets it.
  `ReadReturnsNewLine` checks `ReadCopy` against these: what is copied is
  the newest line, entered after the call.
- The byte before `buf` is `enter_flag`'s high byte (0) and the byte after
  `return_buffer` is padding (0).

## Runs

| Run | cfg | Result | What it shows |
|---|---|---|---|
| runqueue_refinement | `MCRunQueue.cfg` | pass | `ListWellFormed`: every add/remove/rotate/pop sequence from arbitrary stale links keeps one well-formed list of `size` PCBs; `AbsRefinement`: the list implements `RunQueueAbs` |
| kernel_core | `MCKernel.cfg` | pass | `PidTableMatchesQueue`, `TerminalChains`, `CpuConsistent`, `LiveVideoIsForeground` hold over every interleaving of syscalls (execute with parsed command lines), ticks, switches, terminal launches and reads, when execute is called from the foreground terminal; `ImplementsProcessStacks`: the kernel implements `ProcessStacks` |
| kernel_sched_settled | `MCKernel_sched_live.cfg` | pass | `ScheduledOnceSettled`: once no process is created or retired, every RUNNING process gets the CPU |
| files_core | `MCFiles.cfg` | pass | `FdTableConsistent` (capacity = 2 + slots in use, stdio intact) and `PositionWithinFile` when only foreground processes read files; `ReadReturnsFileBytes`: from every reachable position `read_data`'s block-by-block loop copies exactly the file's next bytes; `RtcFrequencyIsRequested`: the RTC runs at the power-of-two ceiling of the last accepted `rtc_write`, whichever process wrote it |
| kernel_bg_launch | `MCKernel_bg_launch.cfg` | violation of `CpuConsistent` | execute from a background process binds the child to the foreground terminal; its halt jumps to the caller's stack with another process bound |
| kernel_stale_resume | `MCKernel_stale_resume.cfg` | violation of `NoStaleResume` | Alt+F2 launches a shell inside the keyboard interrupt; the abandoned process is later resumed from init_pcb's top-of-stack `curr_esp` |
| kernel_read_line | `MCKernel_read_line.cfg` | violation of `ReadOwnLine` | terminal_read returns the foreground terminal's line after a switch |
| kernel_bg_video | `MCKernel_bg_video.cfg` | violation of `BackgroundOffLivePage` | Alt+F1 while terminal 1's shell runs: `switch_term` points slot 33 at terminal 0's table, which maps the live page, and the terminal-1 shell keeps running with the live screen in its user-accessible window (`vidmap` from a background process does the same) |
| files_bg_read | `MCFiles_bg_read.cfg` | violation of `PositionWithinFile` | a background `read_directory` bumps the foreground process's file position past the end |
| editor_core | `MCLineEditor.cfg` | pass | `EditorConsistent` (`buf_idx` within `buf`, `auto_comp_index` at the start of the last word, `buf` terminated at `buf_idx`), `ParseMatchesReference` (every entered line is split by `get_file_name`/`add_args_to_buf` like the reference split at spaces), `ReadReturnsNewLine` (a read that returns copies the newest line whole, cut only by `nbytes`, and that line was entered after the call), over every sequence of keys, completions, history moves and reads |
| editor_buf_overrun | `MCLineEditor_buf_overrun.cfg` | violation of `BufIdxWithinBuffer` | a completion that fills `buf` exactly leaves no NUL, and the `strlen` that sets `buf_idx` runs on into `return_buffer` |
| files_rtc_wait | `MCFiles_rtc_wait.cfg` | violation of `RtcReaderReturns` | another process's `rtc_close`/`rtc_read` clears the shared `read_flag` before a waiting reader sees it, forever |

`PROJECT.json` records, for every passing property, a mutant: a plausible bug
in a mapped definition under which TLC finds the property violated. The
mutants cover a dropped unlink update, `free_pid` doing nothing, a parent
not woken, a tick that ignores states, a switch that leaves the old table
live, a missing `num_processes++`, `init_pcb` not linking the new PCB to
its terminal's previous process, closing stdin, a halt that does not reset
capacity, `read_data` without its end-of-file bound, `read_data` moving to
the next block without resetting its in-block offset, `rtc_write`'s rate
counter starting at 0, `terminal_read` not clearing `enter_flag` at entry, backspace without its
`buf_idx > 0` guard or without clearing the byte, and `get_file_name` stopping one byte early.

### Bounds and why they suffice

- **MCRunQueue: 3 PCBs, `max_size` 3, every initial link assignment (4096
  initial states).** All four unlink cases, rotation with 1, 2 and 3 members,
  and a full queue are reached.
- **MCKernel: 3 pids, 2 terminals.**
  - This covers a shell on each terminal plus a child, a full pid table, the
    refused Alt+F2, halt of a child, halt of a root shell with its nested
    execute, and a terminal launch from the keyboard on top of a running
    process. That last case needs 3 pids.
  - About 950k states; with the refinement property, about 90 s.
  - The liveness run uses 2 pids, which still forces the rotation to skip a
    SLEEPING parent. With 3 pids the temporal check does not finish in
    reasonable time.
- **MCFiles: 2 root shells, 4 descriptor slots (2 beyond stdio), files of 1
  and 5 bytes with 4-byte blocks, 3 directory entries, reads of 2 bytes.**
  - This reaches a full table, a read that crosses a block boundary, a read at
    end of file, and directory end.
  - `files_core` uses 2 directory entries (the violation runs 3), which still
    reaches directory end, and RTC writes of 3 Hz (rounded up to 4) and
    1025 Hz (refused): each distinct rate multiplies the state space, and
    about 3.4M states is what fits the time budget. `ReadReturnsFileBytes`
    is checked for read lengths 3 (crossing the block boundary from
    position 2) and 6 (past the end) from every reachable position.
  - Uninitialised `inode`/`file_position` of a fresh unused slot are given one
    value each, an invalid inode and 0. In the passing run no read looks at an
    unused slot; in the violation run the overrun comes from a used slot.

- **MCLineEditor: `BUF_SIZE` 4, `MAX_STRING_LEN` 2, `HISTORY_SIZE` 2, keys
  'a' and ' ', one directory entry "ab" of full length, reads of 2 and 4
  bytes.**
  - `LineLimit = 3` lets the user type and complete only while `buf_idx <
    3`. It stands for `BUF_SIZE - MAX_STRING_LEN + 1`: with real sizes, lines
    shorter than 97 characters, where no completion can reach the end of
    `buf`. `editor_buf_overrun` uses `BUF_SIZE` 3 and lifts the limit to 4.
  - This reaches a completion, backspace over a completion, recall of both
    history entries and of the initial "no cmd here" stand-in, reads shorter
    and longer than the line, and Enter on an empty line. About 790k states, 30 s.
  - `ParseMatchesReference` is checked on every line Enter commits, including
    lines made by completion ("ab"), leading spaces and lines with an
    argument ("a a"), so `add_args_to_buf`'s copy of a non-empty tail is
    checked. Lines of 3 characters are the shortest that hold a name, a
    space and an argument.

### Fairness

- `WF` on the PIT tick: the PIT interrupts every quantum whenever interrupts
  are on, which is always the case outside a system call.
- `SF` on leaving `terminal_read`'s and `rtc_read`'s loops: a spinning process
  tests its condition every time it holds the CPU, and a tick can take the CPU
  away between tests.
- `WF` on the RTC interrupt: it is periodic.
- Keys, `execute`, `halt`, `open`, `close` and reads are the user's choice and
  get no fairness.

### Environment restrictions in passing runs

- `FgOnlyLaunch = TRUE` restricts `execute` and root-shell `halt` to
  processes of the foreground terminal. It is set to FALSE in
  `kernel_bg_launch`, which shows what goes wrong otherwise.
- `FgOnlyRead = TRUE` likewise restricts file and directory reads to the
  foreground process. It is set to FALSE in `files_bg_read`.
- `LineLimit` bounds line length in `LineEditor` (see the bounds above).
- `Kernel` resumes the intended stream after a stale `curr_esp` and flags it in
  `staleResume`, so the other properties are still checked past that point.

## Not modelled, and why

- **Screen and back-buffer contents, cursor.** No property depends on text.
  Which page is mapped where, and which page `terminal_write` writes to, are
  modelled.
- **`LineEditor` is one terminal, not composed with `Kernel`.** The
  foreground-terminal confusion of `terminal_read` is checked in `Kernel`
  (`kernel_read_line`); `LineEditor` checks the buffer arithmetic.
- **First words longer than `MAX_STRING_LEN`.** `get_file_name` then leaves
  `filename_end` uninitialised; the model refuses such a line.
- **PIC, IDT, paging set-up and the fault handlers.** These are static
  initialisation or port I/O. The masks are written once at boot, and every
  handler path that returns after the first shell runs sends its EOI inside
  the atomic handler, so in-service bits are never visible between steps.
  The PIT handler's early returns skip the EOI, but only with an empty
  queue, before the first shell. A fault stops the machine; `rtc_write(0)`
  (a divide fault) is therefore left out of the written frequencies.
- **File contents and the boot image.** There is no file-system image in
  the repository. `validate_file`'s magic check, `get_entry_point` and the
  program load therefore succeed exactly for the names the model declares
  executable. For a file shorter than the 3 bytes compared, the magic check
  reads leftover stack bytes, and the model cannot say what they are.
- **Character output (`putc_mod`, `putc_page`).** These routines live in
  `lib.c`, which is not in the repository.
- **Starvation under process churn.** While execute and halt keep moving the
  current process, the tick's rotation from the queue head can pass a RUNNING
  process over. `ScheduledOnceSettled` checks the settled case; no run states
  the unsettled one.
- **The kernel entry that executes the first shell.** It is not under `src/`,
  so `Boot` is modelled from the specification.

## Plan for further work

1. A module composing `Kernel` with `Files`, so that descriptors follow real
   process creation and halt, including halt's close loop running on
   `scheduler.curr_process`.
2. The Shift/Caps/Ctrl/Alt flags of `get_char`. They only choose which
   character a key yields (letters by shift XOR caps, others by shift), a
   mapping no property of the editor depends on; Ctrl+L only redraws.
