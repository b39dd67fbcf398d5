------------------------------- MODULE Sched -------------------------------
(***************************************************************************)
(* sched.c and queue.c: the multi-level ready queue.                       *)
(*                                                                         *)
(* There is one FIFO queue per priority and, per priority, a number of     *)
(* dispatches it may still be given before the lower ones get their turn.  *)
(* Each operation runs under queue_lock from its first to its last         *)
(* statement, so each is one action.  This module holds the operations     *)
(* only; SchedEnv adds callers of its own and OS calls them from the CPU   *)
(* and loader threads.                                                     *)
(***************************************************************************)
EXTENDS Naturals, Sequences

CONSTANTS
    Proc,               \* the processes
    NULL,               \* no process
    prio,               \* prio[p]: proc->prio
    MAX_PRIO,           \* number of priorities, 140 in the program
    MAX_QUEUE_SIZE      \* capacity of a queue_t, 10 in the program

ASSUME MaxPrioAssumption == MAX_PRIO \in Nat \ {0}
ASSUME MaxQueueAssumption == MAX_QUEUE_SIZE \in Nat \ {0}
ASSUME PrioAssumption == prio \in [Proc -> 0 .. MAX_PRIO - 1]
ASSUME NullAssumption == NULL \notin Proc

VARIABLES
    mlq_ready_queue,        \* one sequence of processes per priority
    mlq_ready_queue_slot,   \* dispatches left per priority
    exited                  \* exit(1) was called: the whole simulator is gone

schedVars == <<mlq_ready_queue, mlq_ready_queue_slot, exited>>

Prios == 0 .. MAX_PRIO - 1

\* The number of dispatches that init_slot grants to queue i.
quota(i) == MAX_PRIO - i

init_slot == [i \in Prios |-> quota(i)]

empty(q) == q = << >>

queue_empty == \A i \in Prios : empty(mlq_ready_queue[i])

init_scheduler ==
    /\ mlq_ready_queue = [i \in Prios |-> << >>]
    /\ mlq_ready_queue_slot = init_slot
    /\ exited = FALSE

\* Slip: the queue is full one process too early.
enqueue_early_exit(i, p) ==
    IF Len(mlq_ready_queue[i]) < MAX_QUEUE_SIZE - 1
    THEN /\ mlq_ready_queue' = [mlq_ready_queue EXCEPT ![i] = Append(@, p)]
         /\ UNCHANGED exited
    ELSE /\ exited' = TRUE
         /\ UNCHANGED mlq_ready_queue

\* Slip: last in, first out.
enqueue_front(i, p) ==
    IF Len(mlq_ready_queue[i]) < MAX_QUEUE_SIZE
    THEN /\ mlq_ready_queue' = [mlq_ready_queue EXCEPT ![i] = <<p>> \o @]
         /\ UNCHANGED exited
    ELSE /\ exited' = TRUE
         /\ UNCHANGED mlq_ready_queue

\* enqueue: a full queue ends the simulator.
enqueue(i, p) ==
    IF Len(mlq_ready_queue[i]) < MAX_QUEUE_SIZE
    THEN /\ mlq_ready_queue' = [mlq_ready_queue EXCEPT ![i] = Append(@, p)]
         /\ UNCHANGED exited
    ELSE /\ exited' = TRUE
         /\ UNCHANGED mlq_ready_queue

put_mlq_proc(p) ==
    /\ enqueue(prio[p], p)
    /\ UNCHANGED mlq_ready_queue_slot

add_mlq_proc(p) ==
    /\ enqueue(prio[p], p)
    /\ UNCHANGED mlq_ready_queue_slot

-----------------------------------------------------------------------------
(* get_mlq_proc *)

\* Slip: the slots are not looked at.
Servable_any_slot(s, i) == ~empty(mlq_ready_queue[i])

\* The test in the for loop: queue i may be served when the slots are s.
Servable(s, i) == ~empty(mlq_ready_queue[i]) /\ s[i] # 0

\* The slots with which the for loop finds a process: the current ones or,
\* when the first pass finds none, the ones set by init_slot.  As init_slot
\* grants every queue at least one dispatch, the second pass succeeds.
UsedSlots ==
    IF \E i \in Prios : Servable(mlq_ready_queue_slot, i)
    THEN mlq_ready_queue_slot
    ELSE init_slot

\* Slip: any queue with slots left is served, not the most urgent one.
First_any(s, i) == Servable(s, i)

\* The queue at which the for loop breaks.
First(s, i) ==
    /\ Servable(s, i)
    /\ \A j \in Prios : j < i => ~Servable(s, j)

\* Slip: dequeue returns the front without removing it.
serve_no_removal(i) ==
    /\ mlq_ready_queue_slot' = [UsedSlots EXCEPT ![i] = @ - 1]
    /\ UNCHANGED <<mlq_ready_queue, exited>>

\* dequeue, and the slot of the queue goes down by one.
serve(i) ==
    /\ mlq_ready_queue' = [mlq_ready_queue EXCEPT ![i] = Tail(@)]
    /\ mlq_ready_queue_slot' = [UsedSlots EXCEPT ![i] = @ - 1]
    /\ UNCHANGED exited

\* Slip: give up instead of refilling when no queue has slots left.
get_mlq_proc_no_refill(r) ==
    \/ /\ ~ \E i \in Prios : Servable(mlq_ready_queue_slot, i)
       /\ r = NULL
       /\ UNCHANGED schedVars
    \/ \E i \in Prios :
          /\ First(mlq_ready_queue_slot, i)
          /\ r = Head(mlq_ready_queue[i])
          /\ serve(i)

\* get_mlq_proc returning r.
get_mlq_proc(r) ==
    \/ /\ queue_empty
       /\ r = NULL
       /\ UNCHANGED schedVars
    \/ \E i \in Prios :
          /\ First(UsedSlots, i)
          /\ r = Head(mlq_ready_queue[i])
          /\ serve(i)
=============================================================================
