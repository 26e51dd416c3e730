-------------------------------- MODULE Kernel --------------------------------
(***************************************************************************)
(* Process management of the kernel on one CPU: the pid table (pcb.c),    *)
(* the run queue (sched.c, here the sequence RunQueue.tla shows the list  *)
(* implements), execute/halt/vidmap (systemcalls.c), the PIT tick         *)
(* (pit.c), terminal switching and terminal launch from the keyboard      *)
(* handler (terminal.c, keyboard.c) and the two busy-wait loops of        *)
(* terminal_read (keyboard.c).                                            *)
(*                                                                         *)
(* Every system call enters through an interrupt gate, so execute, halt   *)
(* and vidmap run with interrupts off and are single steps.  Interrupts   *)
(* (PIT, keyboard) can arrive whenever the CPU is in user mode or spinning *)
(* in terminal_read with interrupts on.                                   *)
(*                                                                         *)
(* Saved stack pointers are modelled by whose instruction stream they      *)
(* resume: run is the stream the CPU executes, ctx[p] the stream parked in *)
(* p's curr_esp/curr_ebp by a tick (Null: no frame, as init_pcb leaves it  *)
(* or once a tick has resumed it), retCtx[p] the stream whose esp/ebp      *)
(* execute stored in p's esp/ebp for halt to jump back to.                *)
(***************************************************************************)
EXTENDS Naturals, Sequences, SequencesExt, Command

CONSTANTS
    Pids,          \* 0..MAX_PROG_NUM-1: pid i owns the i-th 8 KiB PCB/stack and 4 MiB frame
    Terms,         \* 0..NUM_TERMS-1
    Null,          \* NULL pointer / not-present page entry
    Kernel,        \* the boot stream of the kernel's main, which launches the first shell
    FgOnlyLaunch,  \* TRUE: only processes of the foreground terminal call execute or exit a root shell
    Commands       \* the command lines processes pass to execute

ASSUME Pids = 0..(Cardinality(Pids) - 1) /\ Terms = 0..(Cardinality(Terms) - 1)
ASSUME 0 \in Terms /\ Null \notin Pids \cup Terms /\ FgOnlyLaunch \in BOOLEAN

MaxProg == Cardinality(Pids)   \* MAX_PROG_NUM, also scheduler.max_size

VARIABLES
    pidUsed,    \* pid_arr
    pstate,     \* pcb_t.state
    parent,     \* pcb_t.parent
    tid,        \* pcb_t.tid
    pcbTerm,    \* pcb_term[]: the newest process of each terminal
    fg,         \* curr_term / curr_term_idx: the foreground terminal
    active,     \* terminals[].active
    enterFlag,  \* terminals[].enter_flag
    curr,       \* scheduler.curr_process
    rq,         \* scheduler.head .. tail, as a sequence of pids
    numProc,    \* num_processes
    pageExec,   \* page_directory[EXEC_PG_DIR_OFFSET]: whose program frame is mapped
    esp0,       \* tss.esp0: whose kernel stack the next ring-3 trap uses
    vidDir,     \* page_directory[VIDMAP_PG_DIR_OFFSET]: which terminal's vidmap table
    vidPte,     \* vidmap_page_table_array[t][0]: "live" video page or "back" buffer
    run,        \* the instruction stream the CPU executes
    pc,         \* where a stream stands: user mode or one of terminal_read's two loops
    rdTemp,     \* terminal_read's temp = scheduler.curr_process at entry
    lastRead,   \* whose terminal's return_buffer the last terminal_read copied
    retCtx,     \* pcb_t.esp/ebp
    ctx,        \* pcb_t.curr_esp/curr_ebp
    staleResume \* a tick has loaded a curr_esp/curr_ebp holding no live frame

vars == <<pidUsed, pstate, parent, tid, pcbTerm, fg, active, enterFlag, curr, rq,
          numProc, pageExec, esp0, vidDir, vidPte, run, pc, rdTemp, lastRead,
          retCtx, ctx, staleResume>>

Streams == Pids \cup {Kernel}
PcValues == {"user", "waitLine", "waitSched"}
Live == {p \in Pids : pidUsed[p]}

-----------------------------------------------------------------------------
(* init_pcb_one_time, sched_init, init_terms: nothing is running yet.      *)
Init ==
    /\ pidUsed = [p \in Pids |-> FALSE]
    /\ pstate = [p \in Pids |-> "UNBORN"]
    /\ parent = [p \in Pids |-> Null]
    /\ tid = [p \in Pids |-> Null]
    /\ pcbTerm = [t \in Terms |-> Null]
    /\ fg = 0
    /\ active = [t \in Terms |-> t = 0]
    /\ enterFlag = [t \in Terms |-> FALSE]
    /\ curr = Null
    /\ rq = <<>>
    /\ numProc = 0
    /\ pageExec = Null
    /\ esp0 = Null
    /\ vidDir = Null
    /\ vidPte = [t \in Terms |-> "none"]
    /\ run = Kernel
    /\ pc = [p \in Pids |-> "user"]
    /\ rdTemp = [p \in Pids |-> Null]
    /\ lastRead = [p \in Pids |-> Null]
    /\ retCtx = [p \in Pids |-> Null]
    /\ ctx = [p \in Pids |-> Null]
    /\ staleResume = FALSE

-----------------------------------------------------------------------------
(* get_available_pid: the lowest free pid.                                 *)
LowestFree(pu) == Min({p \in Pids : ~pu[p]})

(* Mutant: free_pid leaves pid_arr alone. *)
FreePidNoop(pu, p) == pu

(* free_pid *)
FreePid(pu, p) == [pu EXCEPT ![p] = FALSE]

(* add_process_to_runqueue's state update: the parent sleeps, p runs.      *)
EnrollStates(st, p, par) ==
    IF par = Null THEN [st EXCEPT ![p] = "RUNNING"]
    ELSE [st EXCEPT ![par] = "SLEEPING", ![p] = "RUNNING"]

(* Mutant: remove_process_from_runqueue forgets to wake the parent. *)
RetireStatesNoWake(st, p, par) == [st EXCEPT ![p] = "ZOMBIE"]

(* remove_process_from_runqueue's state update: p is a zombie, its parent  *)
(* runs again.                                                             *)
RetireStates(st, p, par) ==
    IF par = Null THEN [st EXCEPT ![p] = "ZOMBIE"]
    ELSE [st EXCEPT ![p] = "ZOMBIE", ![par] = "RUNNING"]

(* remove_process_from_runqueue's choice of the new current process.       *)
RetireCurrent(par, q) ==
    CASE par # Null -> par
      [] q # <<>>   -> Head(q)
      [] OTHER      -> Null

(* runqueue_rotate, once.                                                  *)
Rotate(q) == IF Len(q) <= 1 THEN q ELSE Append(Tail(q), Head(q))

(* Mutant: the tick rotates once and takes the head whatever its state. *)
RotateOnce(q, st) == Rotate(q)

(* Mutant: the tick takes the first RUNNING entry without rotating first. *)
FirstRunning(q, st) ==
    LET k == Min({i \in 1..Len(q) : st[q[i]] = "RUNNING"})
    IN SubSeq(q, k, Len(q)) \o SubSeq(q, 1, k - 1)

(* The queue after pit_int_handler's rotations: one rotation, then more    *)
(* until the head is RUNNING (the caller makes sure one is).               *)
RotateToRunning(q, st) ==
    LET q1 == Rotate(q)
        k == Min({i \in 1..Len(q1) : st[q1[i]] = "RUNNING"})
    IN SubSeq(q1, k, Len(q1)) \o SubSeq(q1, 1, k - 1)

(* Mutant: init_pcb without num_processes++. *)
InitPcbNoCount(p, term, pt, q, st, cu, n) ==
    LET par == pt[term] IN
    /\ numProc' = n
    /\ tid' = [tid EXCEPT ![p] = term]
    /\ parent' = [parent EXCEPT ![p] = par]
    /\ pcbTerm' = [pt EXCEPT ![term] = p]
    /\ IF Len(q) = MaxProg
       THEN rq' = q /\ pstate' = st /\ curr' = cu
       ELSE rq' = Append(q, p) /\ pstate' = EnrollStates(st, p, par) /\ curr' = p
    /\ ctx' = [ctx EXCEPT ![p] = Null]

(* Mutant: init_pcb does not link the new PCB to pcb_term's old entry. *)
InitPcbNoParent(p, term, pt, q, st, cu, n) ==
    /\ numProc' = n + 1
    /\ tid' = [tid EXCEPT ![p] = term]
    /\ parent' = [parent EXCEPT ![p] = Null]
    /\ pcbTerm' = [pt EXCEPT ![term] = p]
    /\ IF Len(q) = MaxProg
       THEN rq' = q /\ pstate' = st /\ curr' = cu
       ELSE rq' = Append(q, p) /\ pstate' = EnrollStates(st, p, pt[term]) /\ curr' = p
    /\ ctx' = [ctx EXCEPT ![p] = Null]

(* init_pcb with the pid execute will give it: num_processes++, tid from   *)
(* curr_term, parent from pcb_term, pcb_term updated, enrolled in the run  *)
(* queue (a full queue leaves queue and states alone), no saved frame.     *)
InitPcb(p, term, pt, q, st, cu, n) ==
    LET par == pt[term] IN
    /\ numProc' = n + 1
    /\ tid' = [tid EXCEPT ![p] = term]
    /\ parent' = [parent EXCEPT ![p] = par]
    /\ pcbTerm' = [pt EXCEPT ![term] = p]
    /\ IF Len(q) = MaxProg
       THEN rq' = q /\ pstate' = st /\ curr' = cu
       ELSE rq' = Append(q, p) /\ pstate' = EnrollStates(st, p, par) /\ curr' = p
    /\ ctx' = [ctx EXCEPT ![p] = Null]

(* execute from "the pid is available" on, for a command that names an    *)
(* executable: bind the program slot, init_pcb, set_pid, tss.esp0, save    *)
(* esp/ebp for halt, iret to ring 3.  The pre-state of the fields halt     *)
(* changes first is passed in, since halt calls execute half-way through   *)
(* its own update.                                                         *)
Launch(caller, term, pu, pt, q, st, cu, n) ==
    LET p == LowestFree(pu) IN
    /\ pageExec' = p
    /\ InitPcb(p, term, pt, q, st, cu, n)
    /\ pidUsed' = [pu EXCEPT ![p] = TRUE]
    /\ esp0' = p
    /\ retCtx' = [retCtx EXCEPT ![p] = caller]
    /\ run' = p
    /\ pc' = [pc EXCEPT ![p] = "user"]
    /\ lastRead' = [lastRead EXCEPT ![p] = Null]

(* Mutant: switch_term leaves the old foreground table on the live page. *)
SwitchTermKeepLive(t) ==
    /\ vidPte' = [vidPte EXCEPT ![t] = "live"]
    /\ fg' = t
    /\ vidDir' = t

(* switch_term: the outgoing terminal's vidmap table is pointed at its     *)
(* back buffer, the new one's at the live page (screen copies abstracted). *)
SwitchTerm(t) ==
    /\ vidPte' = [[vidPte EXCEPT ![fg] = "back"] EXCEPT ![t] = "live"]
    /\ fg' = t
    /\ vidDir' = t

-----------------------------------------------------------------------------
(* The kernel's main executes the first shell on terminal 0.               *)
Boot ==
    /\ run = Kernel
    /\ Launch(Kernel, fg, pidUsed, pcbTerm, rq, pstate, curr, numProc)
    /\ UNCHANGED <<fg, active, enterFlag, vidDir, vidPte, rdTemp, staleResume>>

(* The CPU is in ring 3 in process p's stream (interrupts on).             *)
InUser(p) == run = p /\ pc[p] = "user"

(* execute issued by the process in user mode, succeeding.  A command that *)
(* fails parsing or validation or finds no free pid returns ERROR having   *)
(* changed nothing, a stuttering step.                                     *)
Execute(p) ==
    /\ InUser(p)
    /\ \E cmd \in Commands : ExecOk(cmd)
    /\ FgOnlyLaunch => tid[p] = fg
    /\ \E q \in Pids : ~pidUsed[q]
    /\ Launch(p, fg, pidUsed, pcbTerm, rq, pstate, curr, numProc)
    /\ UNCHANGED <<fg, active, enterFlag, vidDir, vidPte, rdTemp, staleResume>>

(* halt: the newest process of the current process's terminal is retired: *)
(* pcb_term falls back to its parent, its pid is freed, it leaves the run *)
(* queue.  A child resumes its creator's execute with the parent's frame   *)
(* and kernel stack bound; a root shell is replaced by a fresh shell,     *)
(* executed from inside halt.  (close() of every descriptor: Files.tla.)  *)
Halt(p) ==
    /\ InUser(p)
    /\ curr # Null
    /\ LET t   == tid[curr]
           fin == pcbTerm[t]
           par == parent[fin]
           pt1 == [pcbTerm EXCEPT ![t] = par]
           pu1 == FreePid(pidUsed, fin)
           q1  == Remove(rq, fin)
           st1 == RetireStates(pstate, fin, par)
           cu1 == RetireCurrent(par, q1)
       IN
       /\ fin # Null
       /\ IF par = Null
          THEN /\ FgOnlyLaunch => tid[fin] = fg
               /\ Launch(fin, fg, pu1, pt1, q1, st1, cu1, numProc - 1)
          ELSE /\ pcbTerm' = pt1 /\ pidUsed' = pu1 /\ rq' = q1
               /\ pstate' = st1 /\ curr' = cu1 /\ numProc' = numProc - 1
               /\ pageExec' = par /\ esp0' = par
               /\ run' = retCtx[fin]
               /\ UNCHANGED <<tid, parent, retCtx, ctx, pc, lastRead>>
    /\ UNCHANGED <<fg, active, enterFlag, vidDir, vidPte, rdTemp, staleResume>>

(* vidmap with a pointer inside the user page: map the foreground          *)
(* terminal's vidmap table, pointing at the live video page.              *)
Vidmap(p) ==
    /\ InUser(p)
    /\ vidDir' = fg
    /\ vidPte' = [vidPte EXCEPT ![fg] = "live"]
    /\ UNCHANGED <<pidUsed, pstate, parent, tid, pcbTerm, fg, active, enterFlag, curr,
                   rq, numProc, pageExec, esp0, run, pc, rdTemp, lastRead, retCtx, ctx,
                   staleResume>>

(* pit_int_handler, when something is scheduled: pick the next RUNNING     *)
(* process, bind its program frame, vidmap table and kernel stack, park    *)
(* the executing stream in current's curr_esp/curr_ebp and load next's.   *)
PitTick ==
    /\ run \in Pids
    /\ rq # <<>> /\ curr # Null
    /\ \E i \in 1..Len(rq) : pstate[rq[i]] = "RUNNING"
    /\ LET q2   == RotateToRunning(rq, pstate)
           next == Head(q2)
           cur  == curr
           vp1  == IF tid[next] = fg THEN [vidPte EXCEPT ![tid[cur]] = "back"]
                   ELSE [vidPte EXCEPT ![tid[next]] = "back"]
           c1   == [ctx EXCEPT ![cur] = run]
       IN
       /\ rq' = q2
       /\ curr' = next
       /\ pageExec' = next
       /\ vidPte' = [vp1 EXCEPT ![fg] = "live"]
       /\ vidDir' = tid[next]
       /\ esp0' = next
       /\ run' = IF c1[next] = Null THEN next ELSE c1[next]
       /\ staleResume' = (staleResume \/ c1[next] = Null)
       /\ ctx' = [c1 EXCEPT ![next] = Null]
    /\ UNCHANGED <<pidUsed, pstate, parent, tid, pcbTerm, fg, active, enterFlag,
                   numProc, pc, rdTemp, lastRead, retCtx>>

(* Alt+F1..F3 in the keyboard handler (get_char).  Alt+F2/F3 on an unused  *)
(* terminal with the queue full is ignored.  Otherwise switch_term; an     *)
(* unused terminal is marked active and gets a shell executed from the     *)
(* interrupt, on the interrupted stream's stack.  Below MAX_PROG_NUM queued *)
(* a pid is free, so that execute("shell") succeeds.                       *)
KeySwitch(t) ==
    /\ run \in Pids
    /\ ~(t # 0 /\ Len(rq) >= MaxProg /\ ~active[t])
    /\ SwitchTerm(t)
    /\ IF t = 0 \/ active[t]
       THEN UNCHANGED <<pidUsed, pstate, parent, tid, pcbTerm, active, curr, rq,
                        numProc, pageExec, esp0, run, pc, retCtx, ctx, lastRead>>
       ELSE /\ active' = [active EXCEPT ![t] = TRUE]
            /\ Launch(run, t, pidUsed, pcbTerm, rq, pstate, curr, numProc)
    /\ UNCHANGED <<enterFlag, rdTemp, staleResume>>

(* Enter in the keyboard handler (handle_newline): the foreground          *)
(* terminal's line is complete.                                            *)
KeyEnter ==
    /\ run \in Pids
    /\ enterFlag' = [enterFlag EXCEPT ![fg] = TRUE]
    /\ UNCHANGED <<pidUsed, pstate, parent, tid, pcbTerm, fg, active, curr, rq, numProc,
                   pageExec, esp0, vidDir, vidPte, run, pc, rdTemp, lastRead, retCtx,
                   ctx, staleResume>>

(* terminal_read entry: clear the foreground terminal's enter_flag; on    *)
(* stdout return ERROR, on stdin remember curr_process and spin.           *)
ReadStart(p) ==
    /\ InUser(p)
    /\ enterFlag' = [enterFlag EXCEPT ![fg] = FALSE]
    /\ \/ UNCHANGED <<pc, rdTemp>>
       \/ /\ pc' = [pc EXCEPT ![p] = "waitLine"]
          /\ rdTemp' = [rdTemp EXCEPT ![p] = curr]
    /\ UNCHANGED <<pidUsed, pstate, parent, tid, pcbTerm, fg, active, curr, rq, numProc,
                   pageExec, esp0, vidDir, vidPte, run, lastRead, retCtx, ctx, staleResume>>

(* First loop left: temp's terminal has a line; the foreground terminal's *)
(* enter_flag is cleared.                                                  *)
ReadWake(p) ==
    /\ run = p /\ pc[p] = "waitLine"
    /\ enterFlag[tid[rdTemp[p]]]
    /\ enterFlag' = [enterFlag EXCEPT ![fg] = FALSE]
    /\ pc' = [pc EXCEPT ![p] = "waitSched"]
    /\ UNCHANGED <<pidUsed, pstate, parent, tid, pcbTerm, fg, active, curr, rq, numProc,
                   pageExec, esp0, vidDir, vidPte, run, rdTemp, lastRead, retCtx, ctx,
                   staleResume>>

(* Second loop left once curr_process is temp again: the foreground        *)
(* terminal's return_buffer is copied out.                                 *)
ReadDone(p) ==
    /\ run = p /\ pc[p] = "waitSched"
    /\ curr = rdTemp[p]
    /\ pc' = [pc EXCEPT ![p] = "user"]
    /\ lastRead' = [lastRead EXCEPT ![p] = fg]
    /\ UNCHANGED <<pidUsed, pstate, parent, tid, pcbTerm, fg, active, enterFlag, curr, rq,
                   numProc, pageExec, esp0, vidDir, vidPte, run, rdTemp, retCtx, ctx,
                   staleResume>>

Next ==
    \/ Boot
    \/ \E p \in Pids : Execute(p) \/ Halt(p) \/ Vidmap(p)
    \/ \E p \in Pids : ReadStart(p) \/ ReadWake(p) \/ ReadDone(p)
    \/ PitTick
    \/ \E t \in Terms : KeySwitch(t)
    \/ KeyEnter

Spec == Init /\ [][Next]_vars

(* The PIT fires every 20 ms whenever interrupts are on, and a process    *)
(* spinning in terminal_read re-tests its loop condition every time it     *)
(* holds the CPU; keys, execute and halt are up to the user (no fairness). *)
FairSpec ==
    /\ Spec
    /\ WF_vars(PitTick)
    /\ \A p \in Pids : SF_vars(ReadWake(p)) /\ SF_vars(ReadDone(p))

-----------------------------------------------------------------------------
TypeOK ==
    /\ pidUsed \in [Pids -> BOOLEAN]
    /\ pstate \in [Pids -> {"RUNNING", "SLEEPING", "ZOMBIE", "UNBORN"}]
    /\ parent \in [Pids -> Pids \cup {Null}]
    /\ tid \in [Pids -> Terms \cup {Null}]
    /\ pcbTerm \in [Terms -> Pids \cup {Null}]
    /\ fg \in Terms /\ active \in [Terms -> BOOLEAN] /\ enterFlag \in [Terms -> BOOLEAN]
    /\ curr \in Pids \cup {Null}
    /\ rq \in Seq(Pids) /\ numProc \in 0..MaxProg
    /\ pageExec \in Pids \cup {Null} /\ esp0 \in Pids \cup {Null}
    /\ vidDir \in Terms \cup {Null} /\ vidPte \in [Terms -> {"none", "live", "back"}]
    /\ run \in Streams /\ pc \in [Pids -> PcValues]
    /\ rdTemp \in [Pids -> Pids \cup {Null}] /\ lastRead \in [Pids -> Terms \cup {Null}]
    /\ retCtx \in [Pids -> Streams \cup {Null}] /\ ctx \in [Pids -> Streams \cup {Null}]
    /\ staleResume \in BOOLEAN

(* The pids of a terminal's parent chain, newest first (bounded, so that a *)
(* cycle shows up as a chain longer than MAX_PROG_NUM).                    *)
RECURSIVE ChainFrom(_, _)
ChainFrom(p, k) == IF p = Null \/ k = 0 THEN <<>> ELSE <<p>> \o ChainFrom(parent[p], k - 1)

Chain(t) == ChainFrom(pcbTerm[t], MaxProg + 1)

(* The pid table, the run queue and num_processes agree: every pid in use *)
(* is queued exactly once and nothing else is.  execute marks the pid used *)
(* after init_pcb has enrolled the PCB, halt frees it before unlinking it, *)
(* and halt of a root shell re-executes in between: no pid is ever handed  *)
(* to two live processes.                                                  *)
PidTableMatchesQueue ==
    /\ IsInjective(rq)
    /\ ToSet(rq) = Live
    /\ numProc = Len(rq)

(* Each terminal's processes form one parent chain from pcb_term[t]: all   *)
(* live and of that terminal, the newest RUNNING and its ancestors         *)
(* SLEEPING; and every live process is on some terminal's chain.  This is  *)
(* what lets the tick skip ancestors and halt resume the right parent.     *)
TerminalChains ==
    /\ \A t \in Terms :
          LET c == Chain(t) IN
          /\ Len(c) <= MaxProg
          /\ \A i \in 1..Len(c) :
                /\ c[i] \in Live /\ tid[c[i]] = t
                /\ pstate[c[i]] = IF i = 1 THEN "RUNNING" ELSE "SLEEPING"
    /\ \A p \in Live : \E t \in Terms : Contains(Chain(t), p)

(* Whenever a process's stream holds the CPU, it is the live, RUNNING      *)
(* process the scheduler thinks is current, its 4 MiB frame is the one     *)
(* mapped at 128 MiB and tss.esp0 names its own kernel stack.  execute,    *)
(* halt and the tick each rewrite these in a different order and from      *)
(* different pointers (pcb_term, parent, the queue head).                  *)
CpuConsistent ==
    run \in Pids =>
        /\ run \in Live /\ pstate[run] = "RUNNING"
        /\ curr = run /\ pageExec = run /\ esp0 = run

(* At most the foreground terminal's vidmap table points at the live       *)
(* video page; every other terminal's points at its back buffer.          *)
LiveVideoIsForeground == \A t \in Terms : vidPte[t] = "live" => t = fg

(* The steps that create or retire processes (execute, halt, a terminal  *)
(* launch from the keyboard), all of them the user's choice.               *)
ProcessChurn ==
    \/ \E p \in Pids : Execute(p) \/ Halt(p)
    \/ \E t \in Terms : KeySwitch(t) /\ ~active[t]

(* Once processes stop being created and retired, every RUNNING process   *)
(* gets the CPU: the tick's rotation, skipping SLEEPING ancestors, visits  *)
(* each terminal's foreground process in turn.                             *)
ScheduledOnceSettled ==
    <>[][~ProcessChurn]_vars =>
        \A p \in Pids : (p \in Live /\ pstate[p] = "RUNNING") ~> (run = p \/ pstate[p] # "RUNNING")

(* A process of a background terminal never has the live video page in  *)
(* its vidmap window: slot 33 then names a table that points at that     *)
(* terminal's back buffer, so what it draws through the window never     *)
(* reaches the screen (the spec: writes of a background process never    *)
(* touch the live page).  vidmap binds curr_term_idx's table and         *)
(* switch_term rebinds slot 33 while the interrupted process runs on.    *)
BackgroundOffLivePage ==
    (run \in Pids /\ pc[run] = "user" /\ tid[run] # fg /\ vidDir # Null)
        => vidPte[vidDir] # "live"

(* A tick only ever resumes a stream some earlier tick parked in the       *)
(* chosen PCB's curr_esp/curr_ebp.                                         *)
NoStaleResume == ~staleResume

(* terminal_read returns a line typed on the reader's own terminal.        *)
ReadOwnLine == \A p \in Pids : lastRead[p] # Null => lastRead[p] = tid[p]

(* Refinement mapping: a terminal's stack is its pcb_term parent chain,   *)
(* oldest first; the program on the CPU is the process whose stream runs  *)
(* (none while the kernel's boot stream does); the pids in use are        *)
(* pid_arr's.                                                              *)
Stacks == INSTANCE ProcessStacks WITH
    stacks <- [t \in Terms |-> Reverse(Chain(t))],
    cpu <- IF run \in Pids THEN run ELSE Null,
    used <- Live,
    None <- Null

(* execute, halt (with its nested execute of a root shell), the tick and  *)
(* the keyboard's terminal launch together behave as per-terminal call    *)
(* stacks: execute pushes on the caller's own terminal, halt pops the      *)
(* running process and resumes the one it was executed from, and a tick   *)
(* only ever runs the top of a stack.  (Stacks!Spec, with the stuttering  *)
(* disjunct written first so that TLC tries it before Stacks!Next.)      *)
ImplementsProcessStacks == Stacks!Init /\ [][UNCHANGED Stacks!absVars \/ Stacks!Next]_Stacks!absVars

=============================================================================
