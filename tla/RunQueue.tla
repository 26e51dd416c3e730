------------------------------- MODULE RunQueue -------------------------------
(***************************************************************************)
(* The scheduler's run queue as sched.c keeps it: an intrusive doubly-     *)
(* linked list threaded through the PCBs (pcb_t.next / pcb_t.prev) with    *)
(* head, tail and size in runqueue_t, plus curr_process and the PCB state  *)
(* fields add/remove rewrite.  Links of a PCB outside the list are stale:  *)
(* remove never clears them and a fresh PCB's memory is uninitialised, so  *)
(* they start arbitrary.                                                   *)
(***************************************************************************)
EXTENDS Naturals, Sequences, SequencesExt

CONSTANTS Pids, Null, MaxSize

ASSUME Null \notin Pids /\ MaxSize \in Nat

VARIABLES head, tail, nxt, prv, size, currProc, pstate, parent

vars == <<head, tail, nxt, prv, size, currProc, pstate, parent>>

Node == Pids \cup {Null}

(* The pids met walking nxt from n for k steps (the list as a sequence).   *)
RECURSIVE Walk(_, _)
Walk(n, k) == IF k = 0 \/ n = Null THEN <<>> ELSE <<n>> \o Walk(nxt[n], k - 1)

Members == ToSet(Walk(head, size))

(* sched_init *)
Init ==
    /\ head = Null /\ tail = Null /\ size = 0 /\ currProc = Null
    /\ nxt \in [Pids -> Node]
    /\ prv \in [Pids -> Node]
    /\ pstate = [p \in Pids |-> "UNBORN"]
    /\ parent = [p \in Pids |-> Null]

(* push: link p in at the tail.  The first element gets both its links     *)
(* cleared through head/tail, a later one through new_p directly.          *)
Push(p) ==
    IF size = 0
    THEN /\ head' = p /\ tail' = p
         /\ prv' = [prv EXCEPT ![p] = Null]
         /\ nxt' = [nxt EXCEPT ![p] = Null]
    ELSE /\ nxt' = [nxt EXCEPT ![tail] = p, ![p] = Null]
         /\ prv' = [prv EXCEPT ![p] = tail]
         /\ tail' = p /\ head' = head

(* add_process_to_runqueue, with the parent link init_pcb stores first.    *)
(* Full queue: ERROR and nothing changes (a stuttering step).              *)
AddProcess(p, par) ==
    /\ p \notin Members
    /\ size < MaxSize
    /\ parent' = [parent EXCEPT ![p] = par]
    /\ pstate' = IF par = Null THEN [pstate EXCEPT ![p] = "RUNNING"]
                 ELSE [pstate EXCEPT ![par] = "SLEEPING", ![p] = "RUNNING"]
    /\ Push(p)
    /\ size' = size + 1
    /\ currProc' = p

(* Mutant: the middle case relinks the successor but not the predecessor. *)
UnlinkForgetPrev(p) ==
    CASE nxt[p] = Null /\ prv[p] = Null ->
            /\ head' = Null /\ tail' = Null /\ UNCHANGED <<nxt, prv>>
      [] nxt[p] = Null /\ prv[p] # Null ->
            /\ nxt' = [nxt EXCEPT ![prv[p]] = Null]
            /\ tail' = prv[p] /\ UNCHANGED <<head, prv>>
      [] nxt[p] # Null /\ prv[p] = Null ->
            /\ prv' = [prv EXCEPT ![nxt[p]] = Null]
            /\ head' = nxt[p] /\ UNCHANGED <<tail, nxt>>
      [] OTHER ->
            /\ prv' = [prv EXCEPT ![nxt[p]] = prv[p]]
            /\ UNCHANGED <<head, tail, nxt>>

(* The four unlink cases of remove_process_from_runqueue, chosen by which  *)
(* of p's own links are NULL.                                              *)
Unlink(p) ==
    CASE nxt[p] = Null /\ prv[p] = Null ->
            /\ head' = Null /\ tail' = Null /\ UNCHANGED <<nxt, prv>>
      [] nxt[p] = Null /\ prv[p] # Null ->
            /\ nxt' = [nxt EXCEPT ![prv[p]] = Null]
            /\ tail' = prv[p] /\ UNCHANGED <<head, prv>>
      [] nxt[p] # Null /\ prv[p] = Null ->
            /\ prv' = [prv EXCEPT ![nxt[p]] = Null]
            /\ head' = nxt[p] /\ UNCHANGED <<tail, nxt>>
      [] OTHER ->
            /\ prv' = [prv EXCEPT ![nxt[p]] = prv[p]]
            /\ nxt' = [nxt EXCEPT ![prv[p]] = nxt[p]]
            /\ UNCHANGED <<head, tail>>

(* Mutant: a caller removes a PCB that is not queued (remove does not     *)
(* check membership).                                                      *)
RemoveAnyProcess(p) ==
    /\ head # Null
    /\ Unlink(p)
    /\ size' = size - 1
    /\ pstate' = IF parent[p] = Null THEN [pstate EXCEPT ![p] = "ZOMBIE"]
                 ELSE [pstate EXCEPT ![p] = "ZOMBIE", ![parent[p]] = "RUNNING"]
    /\ currProc' = CASE parent[p] # Null -> parent[p]
                     [] head' # Null    -> head'
                     [] OTHER           -> Null
    /\ UNCHANGED parent

(* Mutant: a parentless process hands the CPU to the head read before the  *)
(* unlink.                                                                 *)
RemoveProcessStaleHead(p) ==
    /\ head # Null
    /\ p \in Members
    /\ Unlink(p)
    /\ size' = size - 1
    /\ pstate' = IF parent[p] = Null THEN [pstate EXCEPT ![p] = "ZOMBIE"]
                 ELSE [pstate EXCEPT ![p] = "ZOMBIE", ![parent[p]] = "RUNNING"]
    /\ currProc' = CASE parent[p] # Null -> parent[p]
                     [] size > 1        -> head
                     [] OTHER           -> Null
    /\ UNCHANGED parent

(* remove_process_from_runqueue: unlink, zombie, wake the parent and make  *)
(* it current, else the (new) head, else nobody.                           *)
RemoveProcess(p) ==
    /\ head # Null
    /\ p \in Members
    /\ Unlink(p)
    /\ size' = size - 1
    /\ pstate' = IF parent[p] = Null THEN [pstate EXCEPT ![p] = "ZOMBIE"]
                 ELSE [pstate EXCEPT ![p] = "ZOMBIE", ![parent[p]] = "RUNNING"]
    /\ currProc' = CASE parent[p] # Null -> parent[p]
                     [] head' # Null    -> head'
                     [] OTHER           -> Null
    /\ UNCHANGED parent

(* runqueue_rotate: close the ring through tail, advance head and tail,    *)
(* cut the ring again.                                                     *)
RunqueueRotate ==
    /\ head # Null /\ tail # Null
    /\ IF head # tail
       THEN LET n1 == [nxt EXCEPT ![tail] = head]
                p1 == [prv EXCEPT ![head] = tail]
                h2 == n1[head]
                t2 == n1[tail]
            IN /\ head' = h2 /\ tail' = t2
               /\ nxt' = [n1 EXCEPT ![t2] = Null]
               /\ prv' = [p1 EXCEPT ![h2] = Null]
       ELSE UNCHANGED <<head, tail, nxt, prv>>
    /\ UNCHANGED <<size, currProc, pstate, parent>>

(* pop: unlink the head (its own links are left as they are).              *)
Pop ==
    /\ size > 0
    /\ IF size = 1
       THEN head' = Null /\ tail' = Null /\ UNCHANGED prv
       ELSE head' = nxt[head] /\ prv' = [prv EXCEPT ![nxt[head]] = Null]
            /\ UNCHANGED tail
    /\ size' = size - 1
    /\ UNCHANGED <<nxt, currProc, pstate, parent>>

Next ==
    \/ \E p \in Pids, par \in Members \cup {Null} : par # p /\ AddProcess(p, par)
    \/ \E p \in Pids : RemoveProcess(p)
    \/ RunqueueRotate
    \/ Pop

Spec == Init /\ [][Next]_vars

-----------------------------------------------------------------------------
TypeOK ==
    /\ head \in Node /\ tail \in Node
    /\ nxt \in [Pids -> Node] /\ prv \in [Pids -> Node]
    /\ size \in 0..MaxSize /\ currProc \in Node
    /\ pstate \in [Pids -> {"RUNNING", "SLEEPING", "ZOMBIE", "UNBORN"}]
    /\ parent \in [Pids -> Node]

(* The pointers form one well-formed list of exactly size PCBs: walking    *)
(* nxt from head meets size distinct PCBs, ends at tail, whose nxt is      *)
(* NULL, and every prv link is the reverse of a nxt link.  Every later     *)
(* remove, rotate and push relies on this; a single missed link update in  *)
(* one of remove's four cases only shows up several operations later.      *)
ListWellFormed ==
    LET w == Walk(head, size) IN
    /\ Len(w) = size
    /\ Cardinality(ToSet(w)) = size
    /\ (size = 0) <=> (head = Null /\ tail = Null)
    /\ size > 0 => /\ w[size] = tail /\ nxt[tail] = Null /\ prv[head] = Null
                   /\ \A i \in 1..size - 1 : nxt[w[i]] = w[i + 1] /\ prv[w[i + 1]] = w[i]

(* The linked list implements the abstract queue of RunQueueAbs: the       *)
(* sequence read off the links changes exactly as the abstract operations  *)
(* say, with the same current process and states.                          *)
Abs == INSTANCE RunQueueAbs WITH queue <- Walk(head, size)

AbsRefinement == Abs!AbsSpec
=============================================================================
