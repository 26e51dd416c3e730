---------------------------- MODULE ProcessStacks ----------------------------
(***************************************************************************)
(* What process management promises, stated without PCBs, pids-in-use    *)
(* tables, run queues or saved stack pointers: each terminal owns a       *)
(* virtual call stack of programs ("shells/programs launched from          *)
(* shells"), and the CPU runs the top of some terminal's stack.           *)
(*                                                                         *)
(*   - execute pushes a fresh program on the caller's own stack and runs  *)
(*     it, the caller being the top of that stack;                        *)
(*   - halt pops the running program off its stack and resumes the one    *)
(*     below; the last program of a stack is replaced by a fresh shell;   *)
(*   - the first shell of a terminal starts an empty stack;               *)
(*   - the tick hands the CPU to the top of any non-empty stack.          *)
(*                                                                         *)
(* The pid table is part of the promise: a pid is handed out only while  *)
(* free and is free again exactly when its program is off every stack.    *)
(*                                                                         *)
(* Kernel.tla implements this with the refinement mapping given there.    *)
(***************************************************************************)
EXTENDS Naturals, Sequences, SequencesExt

CONSTANTS Pids, Terms, None

VARIABLES
    stacks,  \* stacks[t]: terminal t's programs, oldest first
    cpu,     \* the program the CPU runs, None before the first shell
    used     \* the pids handed out and not yet given back

absVars == <<stacks, cpu, used>>

Top(t) == Last(stacks[t])

Init ==
    /\ stacks = [t \in Terms |-> <<>>]
    /\ cpu = None
    /\ used = {}

(* A terminal's first shell: boot for terminal 0, Alt+Fn for the others. *)
Start(t, p) ==
    /\ cpu' = p
    /\ stacks[t] = <<>>
    /\ p \notin used
    /\ stacks' = [stacks EXCEPT ![t] = <<p>>]
    /\ used' = used \cup {p}

(* execute from the running program: a fresh pid is pushed on its stack. *)
Call(t, p) ==
    /\ cpu' = p
    /\ stacks[t] # <<>> /\ Top(t) = cpu
    /\ p \notin used
    /\ stacks' = [stacks EXCEPT ![t] = Append(@, p)]
    /\ used' = used \cup {p}

(* halt of a program that has a caller: pop it and resume the caller. *)
Return(t) ==
    /\ Len(stacks[t]) > 1 /\ Top(t) = cpu
    /\ stacks' = [stacks EXCEPT ![t] = Front(@)]
    /\ cpu' = Last(Front(stacks[t]))
    /\ used' = used \ {cpu}

(* halt of the bottom program: a fresh shell takes its place (its own pid *)
(* may be handed out again).                                              *)
Respawn(t, p) ==
    /\ cpu' = p
    /\ stacks[t] = <<cpu>>
    /\ p \notin used \ {cpu}
    /\ stacks' = [stacks EXCEPT ![t] = <<p>>]
    /\ used' = (used \ {cpu}) \cup {p}

(* A tick: the CPU goes to the program on top of some stack. *)
Switch(t) ==
    /\ stacks[t] # <<>> /\ cpu # None
    /\ cpu' = Top(t)
    /\ UNCHANGED <<stacks, used>>

Next ==
    \/ \E t \in Terms, p \in Pids : Start(t, p) \/ Call(t, p) \/ Respawn(t, p)
    \/ \E t \in Terms : Return(t) \/ Switch(t)

Spec == Init /\ [][Next]_absVars
=============================================================================
