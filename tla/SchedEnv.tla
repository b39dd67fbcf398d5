------------------------------ MODULE SchedEnv ------------------------------
(***************************************************************************)
(* The scheduler with the callers that os.c gives it, reduced to what they *)
(* do to it: the loader adds each process once, and up to NCPU processes   *)
(* are held by a CPU, which puts them back or finishes them in any order.  *)
(* OS has the real threads; this module asks how long a process may have   *)
(* to wait in the ready queue.                                             *)
(*                                                                         *)
(* refills and bypass are history variables: for a process in the ready    *)
(* queue, the number of times init_slot ran and the number of dispatches   *)
(* from each queue since it was enqueued.                                  *)
(***************************************************************************)
EXTENDS Sched, FiniteSets

CONSTANT NCPU       \* CPUs that hold a process at the same time

\* The configuration file lists finitely many processes.
ASSUME FiniteAssumption == IsFiniteSet(Proc)

VARIABLES
    where,          \* where each process is
    refills, bypass

vars == <<mlq_ready_queue, mlq_ready_queue_slot, exited, where, refills, bypass>>

TypeOK ==
    /\ mlq_ready_queue \in [Prios -> Seq(Proc)]
    /\ \A i \in Prios : Len(mlq_ready_queue[i]) <= MAX_QUEUE_SIZE
    /\ mlq_ready_queue_slot \in [Prios -> Nat]
    /\ \A i \in Prios : mlq_ready_queue_slot[i] <= quota(i)
    /\ exited \in BOOLEAN
    /\ where \in [Proc -> {"new", "ready", "running", "finished"}]
    /\ refills \in [Proc -> Nat]
    /\ bypass \in [Proc -> [Prios -> Nat]]

Init ==
    /\ init_scheduler
    /\ where = [p \in Proc |-> "new"]
    /\ refills = [p \in Proc |-> 0]
    /\ bypass = [p \in Proc |-> [i \in Prios |-> 0]]

Running == {p \in Proc : where[p] = "running"}

\* p enters the ready queue; if the queue is full the simulator is gone.
Enqueued(p) ==
    /\ where' = [where EXCEPT ![p] = "ready"]
    /\ refills' = [refills EXCEPT ![p] = 0]
    /\ bypass' = [bypass EXCEPT ![p] = [i \in Prios |-> 0]]

\* ld_routine: add_proc.
Load(p) ==
    /\ ~exited
    /\ where[p] = "new"
    /\ add_mlq_proc(p)
    /\ Enqueued(p)

\* cpu_routine: put_proc.
Preempt(p) ==
    /\ ~exited
    /\ where[p] = "running"
    /\ put_mlq_proc(p)
    /\ Enqueued(p)

Waiting(p) == where[p] = "ready"

\* cpu_routine: get_proc returns the process r.
Dispatch(r) ==
    /\ ~exited
    /\ Cardinality(Running) < NCPU
    /\ get_mlq_proc(r)
    /\ where' = [where EXCEPT ![r] = "running"]
    /\ refills' = [q \in Proc |-> IF Waiting(q) /\ UsedSlots # mlq_ready_queue_slot
                                  THEN refills[q] + 1 ELSE refills[q]]
    /\ bypass' = [q \in Proc |-> IF Waiting(q)
                                 THEN [bypass[q] EXCEPT ![prio[r]] = @ + 1]
                                 ELSE bypass[q]]

\* cpu_routine: get_proc returns NULL.
DispatchNone ==
    /\ ~exited
    /\ Cardinality(Running) < NCPU
    /\ get_mlq_proc(NULL)
    /\ UNCHANGED <<where, refills, bypass>>

\* cpu_routine: the process has run all its code and is freed.
Finish(p) ==
    /\ ~exited
    /\ where[p] = "running"
    /\ where' = [where EXCEPT ![p] = "finished"]
    /\ UNCHANGED <<mlq_ready_queue, mlq_ready_queue_slot, exited, refills, bypass>>

\* After exit(1) nothing happens any more.
Exited == exited /\ UNCHANGED vars

Next ==
    \/ \E p \in Proc : Load(p) \/ Preempt(p) \/ Dispatch(p) \/ Finish(p)
    \/ DispatchNone
    \/ Exited

Safety == Init /\ [][Next]_vars

(***************************************************************************)
(* A CPU gives its process up at the end of the time slice, if the         *)
(* instructions return, and an idle CPU asks for one in every slot.        *)
(***************************************************************************)
Spec ==
    /\ Safety
    /\ WF_vars(\E p \in Proc : Dispatch(p))
    /\ \A p \in Proc : WF_vars(Preempt(p) \/ Finish(p))

-----------------------------------------------------------------------------
(* Properties *)

(***************************************************************************)
(* No process is lost or duplicated by the queues (queue.c:10-40): the     *)
(* ready ones, and only they, are in the ready queue, each once and in the *)
(* queue of its priority.                                                  *)
(***************************************************************************)
QueuesExact ==
    /\ \A i \in Prios : \A k \in 1 .. Len(mlq_ready_queue[i]) :
           /\ prio[mlq_ready_queue[i][k]] = i
           /\ Waiting(mlq_ready_queue[i][k])
           /\ \A l \in 1 .. Len(mlq_ready_queue[i]) :
                  mlq_ready_queue[i][k] = mlq_ready_queue[i][l] => k = l
    /\ ~exited => \A p \in Proc : Waiting(p) =>
           \E k \in 1 .. Len(mlq_ready_queue[prio[p]]) : mlq_ready_queue[prio[p]][k] = p

(***************************************************************************)
(* Bounded overtaking (sched.c:54-78).  While a process waits, queue j is  *)
(* served at most quota(j) times per refill, and the refills end after the *)
(* MAX_QUEUE_SIZE - 1 processes that can be ahead of it have used up their *)
(* queue's quota: less urgent processes are delayed by the more urgent     *)
(* ones, never starved.                                                    *)
(***************************************************************************)
MaxRefills(p) == 1 + (MAX_QUEUE_SIZE - 1) \div quota(prio[p])

BoundedOvertaking ==
    ~exited => \A p \in Proc : Waiting(p) =>
        \A j \in Prios : bypass[p][j] <= (1 + MaxRefills(p)) * quota(j)

(***************************************************************************)
(* exit(1) in enqueue (queue.c:20-23) is only reached when more processes  *)
(* of one priority are ready at the same time than a queue has room for.   *)
(***************************************************************************)
ExitJustified ==
    exited => \E i \in Prios :
        Cardinality({p \in Proc : prio[p] = i /\ Waiting(p)}) > MAX_QUEUE_SIZE

(***************************************************************************)
(* Starvation freedom (sched.c:54-78): a process in the ready queue is     *)
(* dispatched, although the others may be put back for ever.               *)
(***************************************************************************)
NoStarvation ==
    \A p \in Proc : Waiting(p) ~> (where[p] = "running" \/ exited)
=============================================================================
