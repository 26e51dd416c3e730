----------------------------- MODULE RunQueueAbs -----------------------------
(***************************************************************************)
(* What the scheduler's run queue promises (sched.c, spec section 4.2),    *)
(* stated over an ordered sequence of pids instead of the intrusive        *)
(* doubly-linked list the code keeps.  RunQueue.tla implements it.         *)
(***************************************************************************)
EXTENDS Naturals, Sequences, SequencesExt

CONSTANTS Pids, Null, MaxSize

VARIABLES queue, currProc, pstate, parent

absVars == <<queue, currProc, pstate, parent>>

States == {"RUNNING", "SLEEPING", "ZOMBIE", "UNBORN"}

(* add_process_to_runqueue: the parent of a new process goes to sleep, the *)
(* new process is appended RUNNING and becomes the current process.        *)
AbsAdd(p, par) ==
    /\ ~Contains(queue, p)
    /\ Len(queue) < MaxSize
    /\ parent' = [parent EXCEPT ![p] = par]
    /\ pstate' = IF par = Null THEN [pstate EXCEPT ![p] = "RUNNING"]
                 ELSE [pstate EXCEPT ![par] = "SLEEPING", ![p] = "RUNNING"]
    /\ queue' = Append(queue, p)
    /\ currProc' = p

(* remove_process_from_runqueue: the process leaves the queue as a zombie; *)
(* its parent, if any, runs again and is current, else the head is.        *)
AbsRemove(p) ==
    /\ Contains(queue, p)
    /\ queue' = Remove(queue, p)
    /\ pstate' = IF parent[p] = Null THEN [pstate EXCEPT ![p] = "ZOMBIE"]
                 ELSE [pstate EXCEPT ![p] = "ZOMBIE", ![parent[p]] = "RUNNING"]
    /\ currProc' = CASE parent[p] # Null -> parent[p]
                     [] queue' # <<>>   -> Head(queue')
                     [] OTHER           -> Null
    /\ UNCHANGED parent

(* runqueue_rotate: the head moves to the tail; no-op on 0 or 1 entries.   *)
AbsRotate ==
    /\ queue # <<>>
    /\ queue' = IF Len(queue) = 1 THEN queue ELSE Append(Tail(queue), Head(queue))
    /\ UNCHANGED <<currProc, pstate, parent>>

(* pop: the head leaves the queue.                                         *)
AbsPop ==
    /\ queue # <<>>
    /\ queue' = Tail(queue)
    /\ UNCHANGED <<currProc, pstate, parent>>

AbsInit ==
    /\ queue = <<>>
    /\ currProc = Null
    /\ pstate \in [Pids -> States]
    /\ parent \in [Pids -> Pids \cup {Null}]

AbsNext ==
    \/ \E p \in Pids, par \in Pids \cup {Null} : AbsAdd(p, par)
    \/ \E p \in Pids : AbsRemove(p)
    \/ AbsRotate
    \/ AbsPop

AbsSpec == AbsInit /\ [][AbsNext]_absVars
=============================================================================
