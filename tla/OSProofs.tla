------------------------------ MODULE OSProofs ------------------------------
(***************************************************************************)
(* Proofs about os.c for any number of CPUs, processes, priorities and     *)
(* queue places, any code sizes, starting times and time slice: every      *)
(* process is in one place, CPUs do not idle beside a ready process, the   *)
(* counter of completed processes is never ahead, and CPUs retire neither  *)
(* too early nor on a slice that is left over.                             *)
(***************************************************************************)
EXTENDS OS, FiniteSetTheorems, TLAPS

-----------------------------------------------------------------------------
(* The inductive invariant *)

\* Process p is in the ready queue.
InQueue(p) ==
    \E i \in Prios : \E k \in 1 .. Len(mlq_ready_queue[i]) : mlq_ready_queue[i][k] = p

\* The queues hold processes of their priority, none twice.
QueueInv ==
    \A i \in Prios :
        /\ Len(mlq_ready_queue[i]) <= MAX_QUEUE_SIZE
        /\ \A k \in 1 .. Len(mlq_ready_queue[i]) :
              /\ prio[mlq_ready_queue[i][k]] = i
              /\ \A l \in 1 .. Len(mlq_ready_queue[i]) :
                    mlq_ready_queue[i][k] = mlq_ready_queue[i][l] => k = l

\* Where a thread is in its code follows from what the barrier says of it.
StateInv ==
    /\ \A c \in CPU :
          /\ state[c] = "arrived" => cpc[c] = "top"
          /\ state[c] = "gone" <=> cpc[c] = "stopped"
          /\ cpc[c] \in {"idle", "stopped"} => proc[c] = NULL
          /\ cpc[c] = "swap" => proc[c] # NULL
    /\ done <=> ldpc \in {"detach", "ended"}
    /\ done => loaded = num_processes

\* A process is in at most one place, and only if it was loaded; unless the
\* simulator has exited each loaded process is in one.
PlaceInv ==
    /\ \A p \in Proc : InQueue(p) =>
          p <= loaded /\ p \notin completed /\ \A c \in CPU : ~Holds(c, p)
    /\ \A p \in Proc : \A c \in CPU : Holds(c, p) =>
          p <= loaded /\ p \notin completed /\ \A d \in CPU : Holds(d, p) => d = c
    /\ \A p \in completed : p <= loaded
    /\ ~exited => \A p \in Proc : p <= loaded =>
          InQueue(p) \/ p \in completed \/ \E c \in CPU : Holds(c, p)

\* No slice is left over between get_proc and run, or without a process.
SliceInv ==
    /\ FreshSlice
    /\ \A c \in CPU : proc[c] = NULL => time_left[c] = 0

\* The CPUs that have completed a process and not counted it yet.
Pending == {c \in CPU : cpc[c] \in {"count", "store"}}

\* What has been counted, and what a CPU is about to write, leaves room for
\* all that is still to be counted.
CountInv ==
    /\ cnt_proc_done + Cardinality(Pending) <= Cardinality(completed)
    /\ \A c \in CPU : cpc[c] = "store" =>
          reg[c] + Cardinality(Pending) <= Cardinality(completed)

\* A CPU that was told that the ready queue is empty has seen all that was
\* ready when the slot began go to other CPUs.
WorkInv ==
    /\ \A p \in ready_before : InQueue(p)
    /\ \A c \in CPU :
          /\ proc[c] = NULL
          /\ state[c] = "arrived" \/ cpc[c] \in {"idle", "count", "store", "recheck"}
          => ready_before = {}

\* The CPUs that have stopped or will stop in this slot if done is set.
Leaving ==
    {c \in CPU : \/ cpc[c] = "stopped"
                 \/ proc[c] = NULL /\ cpc[c] \in {"count", "store", "recheck"}}

\* No process is added any more, neither in this slot nor later.
AllLoaded == loaded = num_processes /\ (done \/ (ldpc = "load" /\ state[ld] = "work"))

\* A CPU that is leaving found the ready queue empty after the last process
\* was loaded, so that each unfinished process was on a CPU that stays.
EnoughInv ==
    /\ (\E c \in CPU : cpc[c] = "stopped") => done \/ completed = Proc
    /\ AllLoaded /\ Leaving # {} =>
          Cardinality(Proc \ completed) <= Cardinality(CPU \ Leaving)

IInv == /\ TypeOK /\ QueueInv /\ StateInv /\ PlaceInv
        /\ SliceInv /\ CountInv /\ WorkInv /\ EnoughInv

\* A step of the simulator, or none.
Step == Next \/ UNCHANGED vars

-----------------------------------------------------------------------------
(* The scheduler's operations *)

\* Every queue is granted at least one dispatch, and at most MAX_PRIO.
LEMMA QuotaRange ==
    ASSUME NEW i \in Prios
    PROVE  quota(i) \in 1 .. MAX_PRIO
BY MaxPrioAssumption DEF Prios, quota

\* What enqueue does with a process that is not in the queue.
LEMMA EnqueueFacts ==
    ASSUME TypeOK, QueueInv, NEW p \in Proc, ~InQueue(p), enqueue(prio[p], p)
    PROVE  /\ QueueInv'
           /\ mlq_ready_queue' \in [Prios -> Seq(Proc)]
           /\ \/ exited' = TRUE /\ \A q : InQueue(q)' <=> InQueue(q)
              \/ exited' = exited /\ \A q : InQueue(q)' <=> InQueue(q) \/ q = p
<1> DEFINE i == prio[p]
<1>1. i \in Prios /\ MAX_QUEUE_SIZE \in Nat
    BY PrioAssumption, MaxQueueAssumption DEF Prios
<1>2. CASE Len(mlq_ready_queue[i]) < MAX_QUEUE_SIZE
  <2> DEFINE n == Len(mlq_ready_queue[i])
  <2>1. /\ mlq_ready_queue' = [mlq_ready_queue EXCEPT ![i] = Append(@, p)]
        /\ exited' = exited
    BY <1>2 DEF enqueue
  <2>2. /\ mlq_ready_queue' \in [Prios -> Seq(Proc)]
        /\ \A j \in Prios : j # i => mlq_ready_queue'[j] = mlq_ready_queue[j]
        /\ n \in Nat
        /\ Len(mlq_ready_queue'[i]) = n + 1
        /\ mlq_ready_queue'[i][n + 1] = p
        /\ \A k \in 1 .. n : mlq_ready_queue'[i][k] = mlq_ready_queue[i][k]
    BY <1>1, <2>1 DEF TypeOK
  <2>3. \A j \in Prios : \A k \in 1 .. Len(mlq_ready_queue'[j]) :
            \/ j = i /\ k = n + 1 /\ mlq_ready_queue'[j][k] = p
            \/ /\ k \in 1 .. Len(mlq_ready_queue[j])
               /\ mlq_ready_queue'[j][k] = mlq_ready_queue[j][k]
               /\ mlq_ready_queue[j][k] # p
    BY <2>2 DEF InQueue
  <2>4. QueueInv'
    <3> SUFFICES ASSUME NEW j \in Prios
                 PROVE  /\ Len(mlq_ready_queue'[j]) <= MAX_QUEUE_SIZE
                        /\ \A k \in 1 .. Len(mlq_ready_queue'[j]) :
                              /\ prio[mlq_ready_queue'[j][k]] = j
                              /\ \A l \in 1 .. Len(mlq_ready_queue'[j]) :
                                    mlq_ready_queue'[j][k] = mlq_ready_queue'[j][l] => k = l
      BY DEF QueueInv
    <3>1. Len(mlq_ready_queue'[j]) <= MAX_QUEUE_SIZE
      BY <1>1, <1>2, <2>2 DEF QueueInv
    <3>2. ASSUME NEW k \in 1 .. Len(mlq_ready_queue'[j]) PROVE prio[mlq_ready_queue'[j][k]] = j
      BY <2>3 DEF QueueInv
    <3>3. ASSUME NEW k \in 1 .. Len(mlq_ready_queue'[j]), NEW l \in 1 .. Len(mlq_ready_queue'[j]),
                 mlq_ready_queue'[j][k] = mlq_ready_queue'[j][l]
          PROVE  k = l
      BY SMTT(30), <3>3, <2>3 DEF QueueInv
    <3> QED
      BY <3>1, <3>2, <3>3
  <2>5. ASSUME NEW q PROVE InQueue(q)' <=> InQueue(q) \/ q = p
    <3>1. InQueue(q)' => InQueue(q) \/ q = p
      BY <2>3 DEF InQueue
    <3>2. InQueue(p)'
      BY <1>1, <2>2 DEF InQueue
    <3>3. InQueue(q) => InQueue(q)'
      <4> SUFFICES ASSUME NEW j \in Prios, NEW k \in 1 .. Len(mlq_ready_queue[j]),
                          mlq_ready_queue[j][k] = q
                   PROVE  k \in 1 .. Len(mlq_ready_queue'[j]) /\ mlq_ready_queue'[j][k] = q
        BY DEF InQueue
      <4> QED
        BY SMTT(30), <2>2
    <3> QED
      BY <3>1, <3>2, <3>3
  <2> QED
    BY <2>1, <2>2, <2>4, <2>5
<1>3. CASE ~(Len(mlq_ready_queue[i]) < MAX_QUEUE_SIZE)
    BY <1>3 DEF enqueue, QueueInv, InQueue, TypeOK
<1> QED
    BY <1>2, <1>3

\* What get_proc does: the queues were empty, or one process leaves them.
LEMMA GetFacts ==
    ASSUME TypeOK, QueueInv, NEW c \in CPU, get_proc(c)
    PROVE  /\ QueueInv'
           /\ mlq_ready_queue' \in [Prios -> Seq(Proc)]
           /\ mlq_ready_queue_slot' \in [Prios -> 0 .. MAX_PRIO]
           /\ exited' = exited
           /\ \E r \in Proc \cup {NULL} :
                 /\ proc' = [proc EXCEPT ![c] = r]
                 /\ ready_before' = ready_before \ {r}
                 /\ \/ r = NULL /\ \A q : ~InQueue(q) /\ ~InQueue(q)'
                    \/ r \in Proc /\ InQueue(r) /\ \A q : InQueue(q)' <=> InQueue(q) /\ q # r
<1>1. PICK r \in Proc \cup {NULL} :
          /\ get_mlq_proc(r)
          /\ proc' = [proc EXCEPT ![c] = r]
          /\ ready_before' = ready_before \ {r}
    BY DEF get_proc
<1>2. CASE queue_empty /\ r = NULL /\ UNCHANGED schedVars
  <2>1. \A j \in Prios : Len(mlq_ready_queue[j]) = 0
    BY <1>2 DEF queue_empty, empty
  <2>2. \A q : ~InQueue(q) /\ ~InQueue(q)'
    BY <1>2, <2>1 DEF schedVars, InQueue
  <2> QED
    BY <1>1, <1>2, <2>2 DEF schedVars, TypeOK, QueueInv
<1>3. ASSUME NEW i \in Prios, First(UsedSlots, i), r = Head(mlq_ready_queue[i]), serve(i)
      PROVE  /\ QueueInv'
             /\ mlq_ready_queue' \in [Prios -> Seq(Proc)]
             /\ mlq_ready_queue_slot' \in [Prios -> 0 .. MAX_PRIO]
             /\ exited' = exited
             /\ r \in Proc /\ InQueue(r) /\ \A q : InQueue(q)' <=> InQueue(q) /\ q # r
  <2> DEFINE n == Len(mlq_ready_queue[i])
  <2>1. mlq_ready_queue[i] # << >> /\ UsedSlots[i] # 0
    BY <1>3 DEF First, Servable, empty
  <2>2. init_slot \in [Prios -> 0 .. MAX_PRIO]
    BY QuotaRange, MaxPrioAssumption DEF init_slot
  <2>3. UsedSlots \in [Prios -> 0 .. MAX_PRIO]
    BY <2>2 DEF UsedSlots, TypeOK
  <2>4. mlq_ready_queue_slot' \in [Prios -> 0 .. MAX_PRIO]
    BY <1>3, <2>1, <2>3, MaxPrioAssumption DEF serve
  <2>5. /\ mlq_ready_queue' = [mlq_ready_queue EXCEPT ![i] = Tail(@)]
        /\ exited' = exited
    BY <1>3 DEF serve
  <2>6. /\ mlq_ready_queue' \in [Prios -> Seq(Proc)]
        /\ \A j \in Prios : j # i => mlq_ready_queue'[j] = mlq_ready_queue[j]
        /\ n \in Nat \ {0}
        /\ Len(mlq_ready_queue'[i]) = n - 1
        /\ \A k \in 1 .. n - 1 : mlq_ready_queue'[i][k] = mlq_ready_queue[i][k + 1]
        /\ mlq_ready_queue[i][1] = r
        /\ r \in Proc
    BY <1>3, <2>1, <2>5 DEF TypeOK
  \* The place from which the process at place k of queue j has moved.
  <2> DEFINE old(j, k) == IF j = i THEN k + 1 ELSE k
  <2>7. \A j \in Prios : \A k \in 1 .. Len(mlq_ready_queue'[j]) :
            /\ old(j, k) \in 1 .. Len(mlq_ready_queue[j])
            /\ mlq_ready_queue'[j][k] = mlq_ready_queue[j][old(j, k)]
    BY <2>6
  <2>8. prio[r] = i /\ \A j \in Prios : \A k \in 1 .. Len(mlq_ready_queue[j]) :
            mlq_ready_queue[j][k] = r => j = i /\ k = 1
    BY <2>6 DEF QueueInv
  <2>9. QueueInv'
    <3> SUFFICES ASSUME NEW j \in Prios
                 PROVE  /\ Len(mlq_ready_queue'[j]) <= MAX_QUEUE_SIZE
                        /\ \A k \in 1 .. Len(mlq_ready_queue'[j]) :
                              /\ prio[mlq_ready_queue'[j][k]] = j
                              /\ \A l \in 1 .. Len(mlq_ready_queue'[j]) :
                                    mlq_ready_queue'[j][k] = mlq_ready_queue'[j][l] => k = l
      BY DEF QueueInv
    <3>1. Len(mlq_ready_queue'[j]) <= MAX_QUEUE_SIZE
      BY <2>6, MaxQueueAssumption DEF QueueInv
    <3>2. ASSUME NEW k \in 1 .. Len(mlq_ready_queue'[j]) PROVE prio[mlq_ready_queue'[j][k]] = j
      BY <2>7 DEF QueueInv
    <3>3. ASSUME NEW k \in 1 .. Len(mlq_ready_queue'[j]), NEW l \in 1 .. Len(mlq_ready_queue'[j]),
                 mlq_ready_queue'[j][k] = mlq_ready_queue'[j][l]
          PROVE  k = l
      <4>1. old(j, k) = old(j, l)
        BY <3>3, <2>7 DEF QueueInv
      <4> QED
        BY <4>1, <2>6
    <3> QED
      BY <3>1, <3>2, <3>3
  <2>10. InQueue(r)
    BY <2>6 DEF InQueue
  <2>11. ASSUME NEW q PROVE InQueue(q)' <=> InQueue(q) /\ q # r
    <3>1. InQueue(q)' => InQueue(q) /\ q # r
      <4> SUFFICES ASSUME NEW j \in Prios, NEW k \in 1 .. Len(mlq_ready_queue'[j]),
                          mlq_ready_queue'[j][k] = q
                   PROVE  InQueue(q) /\ q # r
        BY DEF InQueue
      <4>1. /\ old(j, k) \in 1 .. Len(mlq_ready_queue[j])
            /\ mlq_ready_queue[j][old(j, k)] = q
        BY <2>7
      <4>2. ~(j = i /\ old(j, k) = 1)
        BY <2>6
      <4> HIDE DEF old
      <4> QED
        BY <4>1, <4>2, <2>8 DEF InQueue
    <3>2. InQueue(q) /\ q # r => InQueue(q)'
      <4> SUFFICES ASSUME NEW j \in Prios, NEW k \in 1 .. Len(mlq_ready_queue[j]),
                          mlq_ready_queue[j][k] = q, q # r
                   PROVE  \E l \in 1 .. Len(mlq_ready_queue'[j]) : mlq_ready_queue'[j][l] = q
        BY DEF InQueue
      <4>1. CASE j = i
        <5>1. k - 1 \in 1 .. n - 1 /\ (k - 1) + 1 = k
          BY <4>1, <2>6
        <5> QED
          BY <5>1, <4>1, <2>6
      <4>2. CASE j # i
        BY <4>2, <2>6
      <4> QED
        BY <4>1, <4>2
    <3> QED
      BY <3>1, <3>2
  <2> QED
    BY <2>4, <2>5, <2>6, <2>9, <2>10, <2>11
<1> QED
    BY <1>1, <1>2, <1>3 DEF get_mlq_proc

-----------------------------------------------------------------------------
(* Counting *)

\* Processes and CPUs can be counted.
LEMMA Counting ==
    ASSUME TypeOK
    PROVE  /\ IsFiniteSet(Proc) /\ Cardinality(Proc) = num_processes
           /\ IsFiniteSet(completed)
           /\ Cardinality(completed) \in 0 .. num_processes
           /\ Cardinality(completed) = num_processes => completed = Proc
           /\ IsFiniteSet(Pending) /\ Cardinality(Pending) \in Nat
<1>1. IsFiniteSet(Proc) /\ Cardinality(Proc) = num_processes
    BY ProcAssumption, FS_Interval
<1>2. /\ IsFiniteSet(completed) /\ Cardinality(completed) <= Cardinality(Proc)
      /\ Cardinality(Proc) = Cardinality(completed) => Proc = completed
    BY <1>1, FS_Subset DEF TypeOK
<1>3. Cardinality(completed) \in Nat
    BY <1>2, FS_CardinalityType
<1>4. Pending \subseteq CPU
    BY DEF Pending
<1>5. IsFiniteSet(Pending)
    BY <1>4, FS_Subset, ThreadAssumption
<1>6. Cardinality(Pending) \in Nat
    BY <1>5, FS_CardinalityType
<1> QED
    BY <1>1, <1>2, <1>3, <1>5, <1>6, ProcAssumption

\* A CPU that is about to store its count has something to count.
LEMMA StoreBound ==
    ASSUME TypeOK, CountInv, NEW c \in CPU, cpc[c] = "store"
    PROVE  reg[c] + 1 \in 0 .. num_processes
<1>1. c \in Pending
    BY DEF Pending
<1>2. Cardinality(Pending) # 0
    BY <1>1, Counting, FS_EmptySet
<1>3. reg[c] \in Nat /\ num_processes \in Nat
    BY ProcAssumption DEF TypeOK
<1> QED
    BY <1>2, <1>3, Counting DEF CountInv

-----------------------------------------------------------------------------
(* The initial states *)

\* The invariant holds initially.
LEMMA InitIInv == Init => IInv
<1> SUFFICES ASSUME Init PROVE IInv
    OBVIOUS
<1> USE ProcAssumption, ThreadAssumption, CodeAssumption, ClockAssumption
<1>1. /\ mlq_ready_queue = [i \in Prios |-> << >>]
      /\ mlq_ready_queue_slot = [i \in Prios |-> quota(i)]
      /\ exited = FALSE
      /\ time = 0 /\ state = [d \in Thread |-> "work"] /\ ticking = TRUE
    BY DEF Init, init_scheduler, init_slot, Barrier!BarrierInit
<1>2. TypeOK
  <2>1. Barrier!BarrierTypeOK
    BY <1>1 DEF Barrier!BarrierTypeOK
  <2>2. mlq_ready_queue_slot \in [Prios -> 0 .. MAX_PRIO]
    BY <1>1, QuotaRange, MaxPrioAssumption
  <2>3. mlq_ready_queue \in [Prios -> Seq(Proc)]
    BY <1>1
  <2>4. /\ cpc \in [CPU -> {"top", "idle", "count", "store", "swap", "recheck", "stopped"}]
        /\ proc \in [CPU -> Proc \cup {NULL}]
        /\ time_left \in [CPU -> 0 .. time_slot]
        /\ reg \in [CPU -> 0 .. num_processes]
        /\ pc \in [Proc -> Nat]
        /\ \A p \in Proc : pc[p] <= size[p]
        /\ completed \subseteq Proc
        /\ cnt_proc_done \in 0 .. num_processes
        /\ ldpc \in {"load", "next", "detach", "ended"}
        /\ loaded \in 0 .. num_processes
        /\ ready_before \subseteq Proc
    BY DEF Init
  <2>5. done \in BOOLEAN /\ exited \in BOOLEAN
    BY <1>1 DEF Init
  <2> QED
    BY <2>1, <2>2, <2>3, <2>4, <2>5 DEF TypeOK
<1>3. \A i \in Prios : Len(mlq_ready_queue[i]) = 0
    BY <1>1
<1>4. QueueInv /\ \A p : ~InQueue(p)
    BY <1>3, MaxQueueAssumption DEF QueueInv, InQueue
<1>5. StateInv
    BY <1>1 DEF Init, StateInv, Thread
<1>6. PlaceInv
    BY <1>4, NullAssumption DEF Init, PlaceInv, Holds
<1>7. SliceInv
    BY DEF Init, SliceInv, FreshSlice
<1>8. CountInv
  <2>1. Pending = {} /\ completed = {} /\ cnt_proc_done = 0
    BY DEF Init, Pending
  <2>2. Cardinality(Pending) = 0 /\ Cardinality(completed) = 0
    BY <2>1, FS_EmptySet
  <2> QED
    BY <2>1, <2>2 DEF Init, CountInv
<1>9. WorkInv
    BY <1>1 DEF Init, WorkInv, Thread
<1>10. EnoughInv
  <2>1. Leaving = {}
    BY DEF Init, Leaving
  <2> QED
    BY <2>1 DEF Init, EnoughInv
<1> QED
    BY <1>2, <1>4, <1>5, <1>6, <1>7, <1>8, <1>9, <1>10 DEF IInv

-----------------------------------------------------------------------------
(* Every step preserves the type invariant and the order of the queues *)

\* A process that is put back was held, and one that is added was not loaded:
\* neither is in the queue already.
LEMMA PutFacts ==
    ASSUME IInv, NEW c \in CPU, cpu_put(c)
    PROVE  proc[c] \in Proc /\ ~InQueue(proc[c]) /\ enqueue(prio[proc[c]], proc[c])
<1>1. proc[c] \in Proc /\ Holds(c, proc[c])
    BY DEF IInv, TypeOK, cpu_put, At, Holds
<1> QED
    BY <1>1 DEF IInv, PlaceInv, cpu_put, put_mlq_proc

LEMMA AddFacts ==
    ASSUME IInv, ld_add
    PROVE  loaded + 1 \in Proc /\ ~InQueue(loaded + 1) /\ enqueue(prio[loaded + 1], loaded + 1)
<1>1. loaded + 1 \in Proc /\ loaded \in Nat
    BY ProcAssumption DEF IInv, TypeOK, ld_add
<1>2. ~(loaded + 1 <= loaded)
    BY <1>1
<1> QED
    BY <1>1, <1>2 DEF IInv, PlaceInv, ld_add, add_mlq_proc

\* The barrier keeps its type.
LEMMA BarrierType ==
    ASSUME Barrier!BarrierTypeOK
    PROVE  /\ \A d \in Thread : Barrier!Arrive(d) \/ Barrier!Leave(d) => Barrier!BarrierTypeOK'
           /\ Barrier!Tick \/ Barrier!Stop => Barrier!BarrierTypeOK'
           /\ UNCHANGED <<time, state, ticking>> => Barrier!BarrierTypeOK'
<1>1. ASSUME NEW d \in Thread, Barrier!Arrive(d) \/ Barrier!Leave(d)
      PROVE  Barrier!BarrierTypeOK'
    BY <1>1 DEF Barrier!BarrierTypeOK, Barrier!Arrive, Barrier!Leave
<1>2. CASE Barrier!Tick
  <2>1. (time + 1) % TIME_MOD \in 0 .. TIME_MOD - 1
    BY ClockAssumption DEF Barrier!BarrierTypeOK
  <2>2. state' \in [Thread -> {"work", "arrived", "gone"}]
    BY <1>2 DEF Barrier!BarrierTypeOK, Barrier!Tick
  <2> QED
    BY <1>2, <2>1, <2>2 DEF Barrier!BarrierTypeOK, Barrier!Tick
<1>3. CASE Barrier!Stop
  <2>1. ticking' \in BOOLEAN
    BY <1>3 DEF Barrier!Stop
  <2> QED
    BY <1>3, <2>1 DEF Barrier!BarrierTypeOK, Barrier!Stop
<1>4. CASE UNCHANGED <<time, state, ticking>>
    BY <1>4 DEF Barrier!BarrierTypeOK
<1> QED
    BY <1>1, <1>2, <1>3, <1>4

\* Every step keeps the type invariant.
LEMMA NextTypeOK == ASSUME IInv, Step PROVE TypeOK'
<1> USE ProcAssumption, CodeAssumption
<1>0. TypeOK /\ QueueInv /\ Barrier!BarrierTypeOK
    BY DEF IInv, TypeOK
<1> DEFINE Got == /\ mlq_ready_queue' \in [Prios -> Seq(Proc)]
                 /\ mlq_ready_queue_slot' \in [Prios -> 0 .. MAX_PRIO]
                 /\ exited' = exited
                 /\ proc' \in [CPU -> Proc \cup {NULL}]
                 /\ ready_before' \subseteq Proc
<1>a. ASSUME NEW c \in CPU, get_proc(c) PROVE Got
  <2>1. PICK r \in Proc \cup {NULL} :
            proc' = [proc EXCEPT ![c] = r] /\ ready_before' = ready_before \ {r}
    BY <1>0, <1>a, GetFacts
  <2> QED
    BY <1>0, <1>a, <2>1, GetFacts DEF TypeOK
<1>1. ASSUME NEW c \in CPU, cpu_get(c) PROVE TypeOK'
  <2>1. Got
    BY <1>1, <1>a DEF cpu_get
  <2>2. cpc' \in [CPU -> {"top", "idle", "count", "store", "swap", "recheck", "stopped"}]
    BY <1>0, <1>1 DEF cpu_get, Goto, TypeOK
  <2> QED
    BY <1>0, <1>1, <2>1, <2>2, BarrierType DEF cpu_get, TypeOK, ldVars
<1>2. ASSUME NEW c \in CPU, cpu_idle(c) PROVE TypeOK'
  <2>1. Barrier!BarrierTypeOK'
    BY <1>0, <1>2, BarrierType DEF cpu_idle, Thread
  <2>2. cpc' \in [CPU -> {"top", "idle", "count", "store", "swap", "recheck", "stopped"}]
    BY <1>0, <1>2 DEF cpu_idle, Goto, TypeOK
  <2> QED
    BY <1>0, <1>2, <2>1, <2>2 DEF cpu_idle, TypeOK, schedVars, ldVars
<1>3. ASSUME NEW c \in CPU, cpu_finish(c) PROVE TypeOK'
  <2>1. completed' \subseteq Proc
    BY <1>0, <1>3, NullAssumption DEF cpu_finish, Finished, TypeOK
  <2>2. time_left' \in [CPU -> 0 .. time_slot]
    BY <1>0, <1>3 DEF cpu_finish, TypeOK
  <2>3. Got
    BY <1>3, <1>a DEF cpu_finish
  <2>4. cpc' \in [CPU -> {"top", "idle", "count", "store", "swap", "recheck", "stopped"}]
    BY <1>0, <1>3 DEF cpu_finish, Goto, TypeOK
  <2> QED
    BY <1>0, <1>3, <2>1, <2>2, <2>3, <2>4, BarrierType DEF cpu_finish, TypeOK, ldVars
<1>4. ASSUME NEW c \in CPU, cpu_count(c) PROVE TypeOK'
    BY <1>0, <1>4, BarrierType DEF cpu_count, Goto, TypeOK, schedVars, ldVars
<1>5. ASSUME NEW c \in CPU, cpu_store(c) PROVE TypeOK'
  <2>1. cnt_proc_done' \in 0 .. num_processes
    BY <1>0, <1>5, StoreBound DEF cpu_store, At, IInv
  <2> QED
    BY <1>0, <1>5, <2>1, BarrierType DEF cpu_store, Goto, TypeOK, schedVars, ldVars
<1>6. ASSUME NEW c \in CPU, cpu_put(c) PROVE TypeOK'
  <2>1. mlq_ready_queue' \in [Prios -> Seq(Proc)] /\ exited' \in BOOLEAN
    BY <1>0, <1>6, PutFacts, EnqueueFacts DEF TypeOK
  <2> QED
    BY <1>0, <1>6, <2>1, BarrierType DEF cpu_put, put_mlq_proc, Goto, TypeOK, ldVars
<1>7. ASSUME NEW c \in CPU, cpu_swap(c) PROVE TypeOK'
  <2>1. Got
    BY <1>7, <1>a DEF cpu_swap
  <2>2. cpc' \in [CPU -> {"top", "idle", "count", "store", "swap", "recheck", "stopped"}]
    BY <1>0, <1>7 DEF cpu_swap, Goto, TypeOK
  <2> QED
    BY <1>0, <1>7, <2>1, <2>2, BarrierType DEF cpu_swap, TypeOK, ldVars
<1>8. ASSUME NEW c \in CPU, cpu_stop(c) \/ cpu_skip(c) PROVE TypeOK'
  <2>1. Barrier!BarrierTypeOK'
    BY <1>0, <1>8, BarrierType DEF cpu_stop, cpu_skip, Thread
  <2> QED
    BY <1>0, <1>8, <2>1 DEF cpu_stop, cpu_skip, Goto, TypeOK, schedVars, ldVars
<1>9. ASSUME NEW c \in CPU, cpu_run(c) PROVE TypeOK'
  <2>1. Barrier!BarrierTypeOK'
    BY <1>0, <1>9, BarrierType DEF cpu_run, Thread
  <2>2. time_left' \in [CPU -> 0 .. time_slot]
    BY SMTT(30), <1>0, <1>9 DEF cpu_run, TypeOK
  <2>3. pc' \in [Proc -> Nat] /\ \A p \in Proc : pc'[p] <= size[p]
    <3>1. /\ proc[c] \in Proc /\ pc \in [Proc -> Nat] /\ size \in [Proc -> Nat]
          /\ \A p \in Proc : pc[p] <= size[p]
      BY <1>0, <1>9 DEF cpu_run, TypeOK
    <3>2. pc' = [pc EXCEPT ![proc[c]] = IF @ < size[proc[c]] THEN @ + 1 ELSE @]
      BY <1>9 DEF cpu_run, run
    <3> QED
      BY SMTT(30), <3>1, <3>2
  <2> QED
    BY <1>0, <1>9, <2>1, <2>2, <2>3 DEF cpu_run, Goto, TypeOK, schedVars, ldVars
<1>10. CASE ld_add
  <2>1. mlq_ready_queue' \in [Prios -> Seq(Proc)] /\ exited' \in BOOLEAN
    BY <1>0, <1>10, AddFacts, EnqueueFacts DEF TypeOK
  <2>2. loaded' \in 0 .. num_processes
    BY <1>0, <1>10 DEF ld_add, TypeOK
  <2>3. mlq_ready_queue_slot' = mlq_ready_queue_slot /\ ldpc' = "next"
    BY <1>10 DEF ld_add, add_mlq_proc
  <2> HIDE DEF Got
  <2> QED
    BY <1>0, <1>10, <2>1, <2>2, <2>3, BarrierType DEF ld_add, TypeOK, cpuVars
<1>11. CASE ld_wait \/ ld_next \/ ld_detach
  <2>1. Barrier!BarrierTypeOK'
    BY <1>0, <1>11, BarrierType DEF ld_wait, ld_next, ld_detach, Thread
  <2> QED
    BY <1>0, <1>11, <2>1 DEF ld_wait, ld_next, ld_detach, TypeOK, schedVars, cpuVars, ldVars
<1>12. CASE ld_done
  <2>1. done' \in BOOLEAN
    BY <1>12 DEF ld_done
  <2> QED
    BY <1>0, <1>12, <2>1, BarrierType DEF ld_done, TypeOK, schedVars, cpuVars
<1>13. CASE tick
  <2>1. ready_before' \subseteq Proc
    BY <1>0, <1>13 DEF tick, Ready, TypeOK
  <2>2. Barrier!BarrierTypeOK'
    BY <1>0, <1>13, BarrierType DEF tick
  <2> QED
    BY <1>0, <1>13, <2>1, <2>2 DEF tick, TypeOK, schedVars, cpuVars, ldVars
<1>14. CASE stop
  <2>1. Barrier!BarrierTypeOK'
    BY <1>0, <1>14, BarrierType DEF stop
  <2> QED
    BY <1>0, <1>14, <2>1 DEF stop, TypeOK, schedVars, cpuVars, ldVars
<1>15. CASE UNCHANGED vars
    BY <1>0, <1>15, BarrierType DEF vars, TypeOK
<1> QED
    BY <1>1, <1>2, <1>3, <1>4, <1>5, <1>6, <1>7, <1>8, <1>9, <1>10, <1>11, <1>12, <1>13,
       <1>14, <1>15 DEF Step, Next, Terminated, cpu_routine, cpu_own, ld_routine

\* Every step keeps the queues in order.
LEMMA NextQueueInv == ASSUME IInv, Step PROVE QueueInv'
<1>0. TypeOK /\ QueueInv
    BY DEF IInv
<1>1. ASSUME NEW c \in CPU, cpu_get(c) \/ cpu_finish(c) \/ cpu_swap(c) PROVE QueueInv'
    BY <1>0, <1>1, GetFacts DEF cpu_get, cpu_finish, cpu_swap
<1>2. ASSUME NEW c \in CPU, cpu_put(c) PROVE QueueInv'
    BY <1>0, <1>2, PutFacts, EnqueueFacts
<1>3. CASE ld_add
    BY <1>0, <1>3, AddFacts, EnqueueFacts
<1>4. CASE UNCHANGED mlq_ready_queue
    BY <1>0, <1>4 DEF QueueInv
<1> QED
    BY <1>1, <1>2, <1>3, <1>4
       DEF Step, Next, Terminated, cpu_routine, cpu_own, ld_routine, schedVars, vars, cpu_idle,
           cpu_count, cpu_store, cpu_stop, cpu_skip, cpu_run, ld_wait, ld_next, ld_done,
           ld_detach, tick, stop


-----------------------------------------------------------------------------
(* What a step leaves alone *)

\* A CPU's step touches its own locals only, not those of the others.
LEMMA OthersUnchanged ==
    ASSUME TypeOK, NEW c \in CPU, cpu_routine(c), NEW d \in CPU, d # c
    PROVE  /\ cpc'[d] = cpc[d] /\ proc'[d] = proc[d] /\ time_left'[d] = time_left[d]
           /\ reg'[d] = reg[d] /\ state'[d] = state[d]
<1>1. state'[d] = state[d]
    BY DEF TypeOK, Barrier!BarrierTypeOK, Thread, Barrier!Arrive, Barrier!Leave, cpu_routine, cpu_own,
           cpu_get, cpu_idle, cpu_finish, cpu_count, cpu_store, cpu_put, cpu_swap, cpu_stop,
           cpu_skip, cpu_run
<1>2. cpc'[d] = cpc[d]
    BY DEF TypeOK, cpu_routine, cpu_own, Goto, cpu_get, cpu_idle, cpu_finish, cpu_count, cpu_store,
           cpu_put, cpu_swap, cpu_stop, cpu_skip, cpu_run
<1>3. proc'[d] = proc[d]
    BY DEF TypeOK, cpu_routine, cpu_own, get_proc, cpu_get, cpu_idle, cpu_finish, cpu_count, cpu_store,
           cpu_put, cpu_swap, cpu_stop, cpu_skip, cpu_run
<1>4. time_left'[d] = time_left[d] /\ reg'[d] = reg[d]
    BY DEF TypeOK, cpu_routine, cpu_own, cpu_get, cpu_idle, cpu_finish, cpu_count, cpu_store,
           cpu_put, cpu_swap, cpu_stop, cpu_skip, cpu_run
<1> QED
    BY <1>1, <1>2, <1>3, <1>4

\* A CPU's step leaves the loader alone.
LEMMA LoaderUnchanged ==
    ASSUME TypeOK, NEW c \in CPU, cpu_routine(c)
    PROVE  /\ ldpc' = ldpc /\ loaded' = loaded /\ done' = done
           /\ state'[ld] = state[ld]
<1>1. state'[ld] = state[ld]
    BY ThreadAssumption DEF TypeOK, Barrier!BarrierTypeOK, Thread, Barrier!Arrive,
           Barrier!Leave, cpu_routine, cpu_own,
           cpu_get, cpu_idle, cpu_finish, cpu_count, cpu_store, cpu_put, cpu_swap, cpu_stop,
           cpu_skip, cpu_run
<1> QED
    BY <1>1 DEF cpu_routine, cpu_own, ldVars, cpu_get, cpu_idle, cpu_finish, cpu_count, cpu_store,
           cpu_put, cpu_swap, cpu_stop, cpu_skip, cpu_run

\* The loader's step leaves the CPUs alone, and what they have completed.
LEMMA CPUsUnchanged ==
    ASSUME TypeOK, ld_routine
    PROVE  /\ cpc' = cpc /\ proc' = proc /\ time_left' = time_left /\ reg' = reg
           /\ completed' = completed /\ cnt_proc_done' = cnt_proc_done
           /\ ready_before' = ready_before
           /\ \A c \in CPU : state'[c] = state[c]
<1>1. \A c \in CPU : state'[c] = state[c]
    BY ThreadAssumption DEF TypeOK, Barrier!BarrierTypeOK, Thread, Barrier!Arrive,
           Barrier!Leave, ld_routine, ld_wait, ld_add, ld_next, ld_done, ld_detach
<1> QED
    BY <1>1 DEF ld_routine, ld_wait, ld_add, ld_next, ld_done, ld_detach, cpuVars

\* So does the timer's step, which puts those back to work that have arrived.
LEMMA TimerUnchanged ==
    ASSUME TypeOK, tick \/ stop \/ UNCHANGED vars
    PROVE  /\ UNCHANGED <<schedVars, cpuVars, pc, completed, cnt_proc_done, done, ldVars>>
           /\ \A d \in Thread : \/ state'[d] = state[d]
                                \/ state[d] = "arrived" /\ state'[d] = "work"
BY DEF TypeOK, Barrier!BarrierTypeOK, Barrier!Tick, Barrier!Stop, tick, stop, vars,
       schedVars, cpuVars, ldVars

\* Every step keeps threads where the barrier says they are.
LEMMA NextStateInv == ASSUME IInv, Step PROVE StateInv'
<1>0. TypeOK /\ QueueInv /\ StateInv
    BY DEF IInv
<1> DEFINE P(c) == /\ state[c] = "arrived" => cpc[c] = "top"
                   /\ state[c] = "gone" <=> cpc[c] = "stopped"
                   /\ cpc[c] \in {"idle", "stopped"} => proc[c] = NULL
                   /\ cpc[c] = "swap" => proc[c] # NULL
           L == (done <=> ldpc \in {"detach", "ended"}) /\ (done => loaded = num_processes)
<1>1. ASSUME NEW c \in CPU, cpu_routine(c) PROVE StateInv'
  <2>1. ASSUME NEW d \in CPU, d # c PROVE P(d)'
    BY <1>0, <1>1, <2>1, OthersUnchanged DEF StateInv
  <2>2. L'
    BY <1>0, <1>1, LoaderUnchanged DEF StateInv
  <2>3. P(c)'
    <3>1. state[c] \in {"work", "arrived", "gone"} /\ c \in Thread
      BY <1>0 DEF TypeOK, Barrier!BarrierTypeOK, Thread
    <3>2. CASE cpu_get(c) \/ cpu_finish(c) \/ cpu_swap(c)
      BY <1>0, <3>1, <3>2, GetFacts
         DEF cpu_get, cpu_finish, cpu_swap, At, Goto, TypeOK, StateInv
    <3>3. CASE cpu_idle(c)
      BY <1>0, <3>1, <3>3 DEF cpu_idle, At, Goto, Barrier!Arrive, Barrier!Leave, TypeOK,
         Barrier!BarrierTypeOK, StateInv
    <3>4. CASE cpu_count(c) \/ cpu_store(c)
      BY <1>0, <3>1, <3>4 DEF cpu_count, cpu_store, At, Goto, TypeOK, StateInv
    <3>5. CASE cpu_put(c)
      BY <1>0, <3>1, <3>5 DEF cpu_put, At, Goto, TypeOK, StateInv
    <3>6. CASE cpu_stop(c) \/ cpu_skip(c)
      BY <1>0, <3>1, <3>6 DEF cpu_stop, cpu_skip, At, Goto, Barrier!Arrive, Barrier!Leave,
         TypeOK, Barrier!BarrierTypeOK, StateInv
    <3>7. CASE cpu_run(c)
      BY <1>0, <3>1, <3>7 DEF cpu_run, At, Goto, Barrier!Arrive, TypeOK,
         Barrier!BarrierTypeOK, StateInv
    <3> QED
      BY <1>1, <3>2, <3>3, <3>4, <3>5, <3>6, <3>7 DEF cpu_routine, cpu_own
  <2> QED
    BY <2>1, <2>2, <2>3 DEF StateInv
<1>2. CASE ld_routine
  <2>1. ASSUME NEW d \in CPU PROVE P(d)'
    BY <1>0, <1>2, CPUsUnchanged DEF StateInv
  <2>2. L'
    BY <1>0, <1>2 DEF StateInv, ld_routine, ld_wait, ld_add, ld_next, ld_done, ld_detach, LdAt,
       ldVars
  <2> QED
    BY <2>1, <2>2 DEF StateInv
<1>3. CASE tick \/ stop \/ UNCHANGED vars
    BY <1>0, <1>3, TimerUnchanged DEF StateInv, schedVars, cpuVars, ldVars, Thread
<1> QED
    BY <1>1, <1>2, <1>3 DEF Step, Next, Terminated

\* Every step keeps time slices whole.
LEMMA NextSliceInv == ASSUME IInv, Step PROVE SliceInv'
<1>0. TypeOK /\ StateInv /\ SliceInv
    BY DEF IInv
<1> DEFINE F(c) == cpc[c] \in {"idle", "count", "store", "swap", "recheck"} => time_left[c] = 0
           N(c) == proc[c] = NULL => time_left[c] = 0
<1>1. ASSUME NEW c \in CPU, cpu_routine(c) PROVE SliceInv'
  <2>1. ASSUME NEW d \in CPU, d # c PROVE F(d)' /\ N(d)'
    BY <1>0, <1>1, <2>1, OthersUnchanged DEF SliceInv, FreshSlice
  <2>2. F(c)' /\ N(c)'
    <3>1. CASE cpu_get(c) \/ cpu_finish(c) \/ cpu_swap(c)
      <4>1. time_left'[c] = 0
        BY <1>0, <3>1 DEF cpu_get, cpu_finish, cpu_swap, At, TypeOK, SliceInv, FreshSlice
      <4> QED
        BY <4>1
    <3>2. CASE cpu_run(c)
      BY <1>0, <3>2 DEF cpu_run, Goto, TypeOK
    <3>3. CASE cpu_idle(c) \/ cpu_count(c) \/ cpu_store(c) \/ cpu_put(c) \/ cpu_stop(c)
               \/ cpu_skip(c)
      BY <1>0, <3>3 DEF cpu_idle, cpu_count, cpu_store, cpu_put, cpu_stop, cpu_skip, At, Goto,
         TypeOK, SliceInv, FreshSlice
    <3> QED
      BY <1>1, <3>1, <3>2, <3>3 DEF cpu_routine, cpu_own
  <2> QED
    BY <2>1, <2>2 DEF SliceInv, FreshSlice
<1>2. CASE ld_routine
    BY <1>0, <1>2, CPUsUnchanged DEF SliceInv, FreshSlice
<1>3. CASE tick \/ stop \/ UNCHANGED vars
    BY <1>0, <1>3, TimerUnchanged DEF SliceInv, FreshSlice, cpuVars
<1> QED
    BY <1>1, <1>2, <1>3 DEF Step, Next, Terminated

-----------------------------------------------------------------------------
(* A process is in one place *)

\* What a CPU's call of get_proc does to the places: what it held is
\* completed, and what it is given leaves the queue.
LEMMA GetPlaces ==
    ASSUME IInv, NEW c \in CPU, cpu_get(c) \/ cpu_finish(c) \/ cpu_swap(c)
    PROVE  /\ exited' = exited
           /\ completed' \subseteq Proc
           /\ \A p \in Proc : p \in completed' <=> p \in completed \/ Holds(c, p)
           /\ \E r \in Proc \cup {NULL} :
                 /\ proc'[c] = r
                 /\ ready_before' = ready_before \ {r}
                 /\ r \in Proc => InQueue(r)
                 /\ r = NULL => \A p \in Proc : ~InQueue(p)
                 /\ \A p \in Proc : Holds(c, p)' <=> p = r
                 /\ \A p \in Proc : InQueue(p)' <=> InQueue(p) /\ p # r
<1>0. TypeOK /\ QueueInv /\ StateInv /\ PlaceInv /\ get_proc(c)
    BY DEF IInv, cpu_get, cpu_finish, cpu_swap
<1>1. PICK r \in Proc \cup {NULL} :
          /\ proc' = [proc EXCEPT ![c] = r]
          /\ ready_before' = ready_before \ {r}
          /\ \/ r = NULL /\ \A q : ~InQueue(q) /\ ~InQueue(q)'
             \/ r \in Proc /\ InQueue(r) /\ \A q : InQueue(q)' <=> InQueue(q) /\ q # r
    BY <1>0, GetFacts
<1>2. \A p \in Proc : InQueue(p)' <=> InQueue(p) /\ p # r
    BY <1>1
<1>3. proc'[c] = r /\ cpc'[c] # "swap"
    BY <1>0, <1>1 DEF TypeOK, Goto, cpu_get, cpu_finish, cpu_swap
<1>4. \A p \in Proc : Holds(c, p)' <=> p = r
    BY <1>3 DEF Holds
<1>5. /\ completed' \subseteq Proc
      /\ \A p \in Proc : p \in completed' <=> p \in completed \/ Holds(c, p)
  <2>1. CASE cpu_finish(c)
    <3>1. proc[c] \in Proc /\ completed' = completed \cup {proc[c]} /\ cpc[c] = "top"
      BY <1>0, <2>1 DEF cpu_finish, Finished, TypeOK, At
    <3> QED
      BY <1>0, <3>1 DEF TypeOK, Holds
  <2>2. CASE cpu_get(c) \/ cpu_swap(c)
    <3>1. completed' = completed /\ \A p \in Proc : ~Holds(c, p)
      BY <2>2, NullAssumption DEF cpu_get, cpu_swap, At, Holds
    <3> QED
      BY <1>0, <3>1 DEF TypeOK
  <2> QED
    BY <2>1, <2>2
<1>6. exited' = exited
    BY <1>0, GetFacts
<1> QED
    BY <1>1, <1>2, <1>3, <1>4, <1>5, <1>6, NullAssumption

\* The other steps of a CPU move no process.
LEMMA StayPlaces ==
    ASSUME IInv, NEW c \in CPU,
           cpu_idle(c) \/ cpu_count(c) \/ cpu_store(c) \/ cpu_stop(c) \/ cpu_skip(c) \/ cpu_run(c)
    PROVE  /\ UNCHANGED schedVars /\ completed' = completed /\ ready_before' = ready_before
           /\ proc' = proc
           /\ \A p \in Proc : Holds(c, p)' <=> Holds(c, p)
<1>0. TypeOK /\ StateInv
    BY DEF IInv
<1>1. /\ UNCHANGED schedVars /\ completed' = completed /\ ready_before' = ready_before
      /\ proc' = proc
    BY DEF cpu_idle, cpu_count, cpu_store, cpu_stop, cpu_skip, cpu_run
<1>2. cpc[c] # "swap" /\ cpc'[c] # "swap"
    BY <1>0 DEF cpu_idle, cpu_count, cpu_store, cpu_stop, cpu_skip, cpu_run, At, Continues,
       Goto, TypeOK
<1> QED
    BY <1>1, <1>2 DEF Holds

\* Every step keeps each process in one place.
LEMMA NextPlaceInv == ASSUME IInv, Step PROVE PlaceInv'
<1>0. TypeOK /\ StateInv /\ PlaceInv
    BY DEF IInv
<1>1. ASSUME NEW c \in CPU, cpu_get(c) \/ cpu_finish(c) \/ cpu_swap(c) PROVE PlaceInv'
  <2>1. PICK r \in Proc \cup {NULL} :
            /\ r \in Proc => InQueue(r)
            /\ \A p \in Proc : Holds(c, p)' <=> p = r
            /\ \A p \in Proc : InQueue(p)' <=> InQueue(p) /\ p # r
    BY <1>1, GetPlaces
  <2>2. /\ completed' \subseteq Proc
        /\ \A p \in Proc : p \in completed' <=> p \in completed \/ Holds(c, p)
        /\ exited' = exited
    BY <1>1, GetPlaces
  <2>3. \A d \in CPU : d # c => \A p \in Proc : Holds(d, p)' <=> Holds(d, p)
    BY <1>0, <1>1, OthersUnchanged DEF cpu_routine, cpu_own, Holds
  <2>4. loaded' = loaded
    BY <1>0, <1>1, LoaderUnchanged DEF cpu_routine, cpu_own
  <2>5. \A p \in Proc : InQueue(p)' =>
          p <= loaded' /\ p \notin completed' /\ \A d \in CPU : ~Holds(d, p)'
    BY <1>0, <2>1, <2>2, <2>3, <2>4 DEF PlaceInv
  <2>6. \A p \in Proc : \A d \in CPU : Holds(d, p)' =>
          p <= loaded' /\ p \notin completed' /\ \A e \in CPU : Holds(e, p)' => e = d
    <3> SUFFICES ASSUME NEW p \in Proc, NEW d \in CPU, Holds(d, p)'
                 PROVE  p <= loaded' /\ p \notin completed' /\ \A e \in CPU : Holds(e, p)' => e = d
      OBVIOUS
    <3>1. CASE d = c
      BY <1>0, <2>1, <2>2, <2>3, <2>4, <3>1 DEF PlaceInv
    <3>2. CASE d # c
      BY <1>0, <2>1, <2>2, <2>3, <2>4, <3>2 DEF PlaceInv
    <3> QED
      BY <3>1, <3>2
  <2>7. \A p \in completed' : p <= loaded'
    BY <1>0, <2>2, <2>4 DEF PlaceInv
  <2>8. ~exited' => \A p \in Proc : p <= loaded' =>
          InQueue(p)' \/ p \in completed' \/ \E d \in CPU : Holds(d, p)'
    <3> SUFFICES ASSUME ~exited', NEW p \in Proc, p <= loaded'
                 PROVE  InQueue(p)' \/ p \in completed' \/ \E d \in CPU : Holds(d, p)'
      OBVIOUS
    <3>1. InQueue(p) \/ p \in completed \/ \E d \in CPU : Holds(d, p)
      BY <1>0, <2>2, <2>4 DEF PlaceInv
    <3> QED
      BY <2>1, <2>2, <2>3, <3>1
  <2> QED
    BY <2>5, <2>6, <2>7, <2>8 DEF PlaceInv
<1>2. ASSUME NEW c \in CPU, cpu_put(c) PROVE PlaceInv'
  <2> DEFINE f == proc[c]
  <2>1. f \in Proc /\ Holds(c, f) /\ \A p \in Proc : Holds(c, p) => p = f
    BY <1>0, <1>2 DEF cpu_put, At, Holds, TypeOK
  <2>2. \A p \in Proc : ~Holds(c, p)'
    BY <1>0, <1>2 DEF cpu_put, Goto, Holds, TypeOK
  <2>3. \/ exited' = TRUE /\ \A q : InQueue(q)' <=> InQueue(q)
        \/ exited' = exited /\ \A q : InQueue(q)' <=> InQueue(q) \/ q = f
    BY <1>0, <1>2, PutFacts, EnqueueFacts DEF IInv
  <2>4. \A d \in CPU : d # c => \A p \in Proc : Holds(d, p)' <=> Holds(d, p)
    BY <1>0, <1>2, OthersUnchanged DEF cpu_routine, cpu_own, Holds
  <2>5. loaded' = loaded /\ completed' = completed
    BY <1>2 DEF cpu_put, ldVars
  <2>6. \A p \in Proc : InQueue(p)' =>
          p <= loaded' /\ p \notin completed' /\ \A d \in CPU : ~Holds(d, p)'
    BY <1>0, <2>1, <2>2, <2>3, <2>4, <2>5 DEF PlaceInv
  <2>7. \A p \in Proc : \A d \in CPU : Holds(d, p)' =>
          p <= loaded' /\ p \notin completed' /\ \A e \in CPU : Holds(e, p)' => e = d
    BY <1>0, <2>2, <2>4, <2>5 DEF PlaceInv
  <2>8. ~exited' => \A p \in Proc : p <= loaded' =>
          InQueue(p)' \/ p \in completed' \/ \E d \in CPU : Holds(d, p)'
    <3> SUFFICES ASSUME ~exited', NEW p \in Proc, p <= loaded'
                 PROVE  InQueue(p)' \/ p \in completed' \/ \E d \in CPU : Holds(d, p)'
      OBVIOUS
    <3>1. InQueue(p) \/ p \in completed \/ \E d \in CPU : Holds(d, p)
      BY <1>0, <2>3, <2>5 DEF PlaceInv
    <3> QED
      BY <2>1, <2>3, <2>4, <2>5, <3>1
  <2> QED
    BY <1>0, <2>5, <2>6, <2>7, <2>8 DEF PlaceInv
<1>3. CASE ld_add
  <2> DEFINE n == loaded + 1
  <2>1. n \in Proc /\ loaded \in Nat /\ loaded' = n /\ ~(n <= loaded)
    BY <1>0, <1>3, ProcAssumption DEF TypeOK, ld_add
  <2>2. \/ exited' = TRUE /\ \A q : InQueue(q)' <=> InQueue(q)
        \/ exited' = exited /\ \A q : InQueue(q)' <=> InQueue(q) \/ q = n
    BY <1>0, <1>3, AddFacts, EnqueueFacts DEF IInv
  <2>3. /\ completed' = completed /\ completed \subseteq Proc
        /\ \A d \in CPU : \A p \in Proc : Holds(d, p)' <=> Holds(d, p)
    BY <1>0, <1>3, CPUsUnchanged DEF ld_routine, Holds, TypeOK
  <2>4. \A p \in Proc : p <= n <=> p <= loaded \/ p = n
    BY <2>1, ProcAssumption
  <2>5. \A p \in Proc : InQueue(p)' =>
          p <= loaded' /\ p \notin completed' /\ \A d \in CPU : ~Holds(d, p)'
    BY <1>0, <2>1, <2>2, <2>3, <2>4 DEF PlaceInv
  <2>6. \A p \in Proc : \A d \in CPU : Holds(d, p)' =>
          p <= loaded' /\ p \notin completed' /\ \A e \in CPU : Holds(e, p)' => e = d
    BY <1>0, <2>1, <2>3, <2>4 DEF PlaceInv
  <2>7. \A p \in completed' : p <= loaded'
    BY <1>0, <2>1, <2>3, <2>4 DEF PlaceInv
  <2>8. ~exited' => \A p \in Proc : p <= loaded' =>
          InQueue(p)' \/ p \in completed' \/ \E d \in CPU : Holds(d, p)'
    BY <1>0, <2>1, <2>2, <2>3, <2>4 DEF PlaceInv
  <2> QED
    BY <2>5, <2>6, <2>7, <2>8 DEF PlaceInv
<1>4. ASSUME UNCHANGED schedVars, completed' = completed, loaded' = loaded,
             \A d \in CPU : \A p \in Proc : Holds(d, p)' <=> Holds(d, p)
      PROVE  PlaceInv'
  <2>1. \A p : InQueue(p)' <=> InQueue(p)
    BY <1>4 DEF InQueue, schedVars
  <2> QED
    BY <1>0, <1>4, <2>1 DEF PlaceInv, schedVars
<1>5. ASSUME NEW c \in CPU,
             cpu_idle(c) \/ cpu_count(c) \/ cpu_store(c) \/ cpu_stop(c) \/ cpu_skip(c) \/ cpu_run(c)
      PROVE  PlaceInv'
  <2>1. \A d \in CPU : d # c => \A p \in Proc : Holds(d, p)' <=> Holds(d, p)
    BY <1>0, <1>5, OthersUnchanged DEF cpu_routine, cpu_own, Holds
  <2>2. /\ UNCHANGED schedVars /\ completed' = completed
        /\ \A p \in Proc : Holds(c, p)' <=> Holds(c, p)
    BY <1>5, StayPlaces
  <2>3. loaded' = loaded
    BY <1>0, <1>5, LoaderUnchanged DEF cpu_routine, cpu_own
  <2> QED
    BY <1>4, <2>1, <2>2, <2>3
<1>6. CASE ld_wait \/ ld_next \/ ld_done \/ ld_detach
    BY <1>4, <1>6 DEF ld_wait, ld_next, ld_done, ld_detach, Holds, cpuVars, ldVars
<1>7. CASE tick \/ stop \/ UNCHANGED vars
    BY <1>0, <1>4, <1>7, TimerUnchanged DEF Holds, cpuVars, ldVars
<1> QED
    BY <1>1, <1>2, <1>3, <1>5, <1>6, <1>7 DEF Step, Next, Terminated, cpu_routine, cpu_own, ld_routine

-----------------------------------------------------------------------------
(* The counter of completed processes *)

\* The steps that count nothing and complete nothing leave Pending alone.
LEMMA PendingSame ==
    ASSUME \A c \in CPU : cpc'[c] \in {"count", "store"} <=> cpc[c] \in {"count", "store"}
    PROVE  Pending' = Pending
BY DEF Pending

\* Every step keeps the counter behind what is completed, whatever stores a
\* CPU has still to make.
LEMMA NextCountInv == ASSUME IInv, Step PROVE CountInv'
<1>0. TypeOK /\ StateInv /\ PlaceInv /\ CountInv
    BY DEF IInv
<1> DEFINE R(d) == cpc[d] = "store" => reg[d] + Cardinality(Pending) <= Cardinality(completed)
<1>a. /\ cnt_proc_done \in Nat
      /\ \A d \in CPU : reg[d] \in Nat
      /\ Cardinality(Pending) \in Nat /\ IsFiniteSet(Pending)
      /\ Cardinality(completed) \in Nat /\ IsFiniteSet(completed)
    BY <1>0, Counting, ProcAssumption DEF TypeOK
<1>1. ASSUME NEW c \in CPU, cpu_finish(c) PROVE CountInv'
  <2>1. proc[c] \in Proc /\ Holds(c, proc[c]) /\ completed' = completed \cup {proc[c]}
    BY <1>0, <1>1 DEF cpu_finish, Finished, TypeOK, At, Holds
  <2>2. proc[c] \notin completed
    BY <1>0, <2>1 DEF PlaceInv
  <2>3. Cardinality(completed') = Cardinality(completed) + 1
    BY <1>a, <2>1, <2>2, FS_AddElement
  <2>4. cpc'[c] = "count" /\ cpc[c] = "top"
    BY <1>0, <1>1 DEF cpu_finish, At, Goto, TypeOK
  <2>5. \A d \in CPU : d # c => cpc'[d] = cpc[d] /\ reg'[d] = reg[d]
    BY <1>0, <1>1, OthersUnchanged DEF cpu_routine, cpu_own
  <2>6. Pending' = Pending \cup {c} /\ c \notin Pending
    BY <2>4, <2>5 DEF Pending
  <2>7. Cardinality(Pending') = Cardinality(Pending) + 1
    BY <1>a, <2>6, FS_AddElement
  <2>8. cnt_proc_done' = cnt_proc_done
    BY <1>1 DEF cpu_finish
  <2>9. ASSUME NEW d \in CPU PROVE R(d)'
    BY <1>0, <1>a, <2>3, <2>4, <2>5, <2>7 DEF CountInv
  <2> QED
    BY <1>0, <1>a, <2>3, <2>7, <2>8, <2>9 DEF CountInv
<1>2. ASSUME NEW c \in CPU, cpu_store(c) PROVE CountInv'
  <2>1. completed' = completed /\ cnt_proc_done' = reg[c] + 1 /\ cpc[c] = "store"
    BY <1>2 DEF cpu_store, At
  <2>2. cpc'[c] = "recheck"
    BY <1>0, <1>2 DEF cpu_store, Goto, TypeOK
  <2>3. \A d \in CPU : d # c => cpc'[d] = cpc[d] /\ reg'[d] = reg[d]
    BY <1>0, <1>2, OthersUnchanged DEF cpu_routine, cpu_own
  <2>4. Pending' = Pending \ {c} /\ c \in Pending
    BY <2>1, <2>2, <2>3 DEF Pending
  <2>5. Cardinality(Pending') = Cardinality(Pending) - 1
    BY <1>a, <2>4, FS_RemoveElement
  <2>6. ASSUME NEW d \in CPU PROVE R(d)'
    BY <1>0, <1>a, <2>1, <2>2, <2>3, <2>5 DEF CountInv
  <2> QED
    BY <1>0, <1>a, <2>1, <2>5, <2>6 DEF CountInv
<1>3. ASSUME NEW c \in CPU, cpu_count(c) PROVE CountInv'
  <2>1. completed' = completed /\ cnt_proc_done' = cnt_proc_done
    BY <1>3 DEF cpu_count
  <2>2. cpc[c] = "count" /\ cpc'[c] = "store" /\ reg'[c] = cnt_proc_done
    BY <1>0, <1>3 DEF cpu_count, At, Goto, TypeOK
  <2>3. \A d \in CPU : d # c => cpc'[d] = cpc[d] /\ reg'[d] = reg[d]
    BY <1>0, <1>3, OthersUnchanged DEF cpu_routine, cpu_own
  <2>4. Pending' = Pending
    BY <2>2, <2>3, PendingSame
  <2>5. ASSUME NEW d \in CPU PROVE R(d)'
    BY <1>0, <2>1, <2>2, <2>3, <2>4 DEF CountInv
  <2> QED
    BY <1>0, <2>1, <2>4, <2>5 DEF CountInv
<1>4. ASSUME completed' = completed, cnt_proc_done' = cnt_proc_done,
             \A d \in CPU : /\ reg'[d] = reg[d]
                            /\ cpc'[d] = "count" <=> cpc[d] = "count"
                            /\ cpc'[d] = "store" <=> cpc[d] = "store"
      PROVE  CountInv'
  <2>1. Pending' = Pending
    BY <1>4, PendingSame
  <2> QED
    BY <1>0, <1>4, <2>1 DEF CountInv
<1>5. ASSUME NEW c \in CPU, cpu_get(c) \/ cpu_idle(c) \/ cpu_put(c) \/ cpu_swap(c)
                            \/ cpu_stop(c) \/ cpu_skip(c) \/ cpu_run(c)
      PROVE  CountInv'
  <2>1. completed' = completed /\ cnt_proc_done' = cnt_proc_done /\ reg' = reg
    BY <1>5 DEF cpu_get, cpu_idle, cpu_put, cpu_swap, cpu_stop, cpu_skip, cpu_run
  <2>2. cpc[c] \notin {"count", "store"} /\ cpc'[c] \notin {"count", "store"}
    BY <1>0, <1>5 DEF cpu_get, cpu_idle, cpu_put, cpu_swap, cpu_stop, cpu_skip, cpu_run, At,
       Continues, Goto, TypeOK
  <2>3. \A d \in CPU : d # c => cpc'[d] = cpc[d]
    BY <1>0, <1>5, OthersUnchanged DEF cpu_routine, cpu_own
  <2> QED
    BY <1>4, <2>1, <2>2, <2>3
<1>6. CASE ld_routine
    BY <1>0, <1>4, <1>6, CPUsUnchanged
<1>7. CASE tick \/ stop \/ UNCHANGED vars
    BY <1>0, <1>4, <1>7, TimerUnchanged DEF cpuVars
<1> QED
    BY <1>1, <1>2, <1>3, <1>5, <1>6, <1>7 DEF Step, Next, Terminated, cpu_routine, cpu_own

-----------------------------------------------------------------------------
(* Work conservation *)

\* After a slot has ended each CPU is at the top of its loop or has stopped.
LEMMA SlotEnd ==
    ASSUME IInv, tick, NEW c \in CPU
    PROVE  cpc'[c] \in {"top", "stopped"} /\ state'[c] # "arrived"
<1>1. c \in Thread /\ state[c] # "work" /\ state[c] \in {"work", "arrived", "gone"}
    BY DEF IInv, TypeOK, Barrier!BarrierTypeOK, tick, Barrier!Tick, Thread
<1>2. cpc'[c] = cpc[c] /\ state'[c] # "arrived"
    BY <1>1 DEF tick, Barrier!Tick, cpuVars
<1> QED
    BY <1>1, <1>2 DEF IInv, StateInv

\* Every step keeps what a CPU knows that finds the ready queue empty.
LEMMA NextWorkInv == ASSUME IInv, Step PROVE WorkInv'
<1>0. TypeOK /\ QueueInv /\ StateInv /\ WorkInv /\ ready_before \subseteq Proc
    BY DEF IInv, TypeOK
<1> DEFINE Q(d) == /\ proc[d] = NULL
                   /\ state[d] = "arrived" \/ cpc[d] \in {"idle", "count", "store", "recheck"}
<1>1. ASSUME NEW c \in CPU, cpu_get(c) \/ cpu_finish(c) \/ cpu_swap(c) PROVE WorkInv'
  <2>1. PICK r \in Proc \cup {NULL} :
            /\ proc'[c] = r
            /\ ready_before' = ready_before \ {r}
            /\ r = NULL => \A p \in Proc : ~InQueue(p)
            /\ \A p \in Proc : InQueue(p)' <=> InQueue(p) /\ p # r
    BY <1>1, GetPlaces
  <2>2. \A p \in ready_before' : InQueue(p)'
    BY <1>0, <2>1 DEF WorkInv
  <2>3. ASSUME NEW d \in CPU, Q(d)' PROVE ready_before' = {}
    <3>1. CASE d = c
      BY <1>0, <2>1, <2>3, <3>1 DEF WorkInv
    <3>2. CASE d # c
      <4>1. Q(d)
        BY <1>0, <1>1, <2>3, <3>2, OthersUnchanged DEF cpu_routine, cpu_own
      <4> QED
        BY <1>0, <2>1, <4>1 DEF WorkInv
    <3> QED
      BY <3>1, <3>2
  <2> QED
    BY <2>2, <2>3 DEF WorkInv
<1>2. ASSUME NEW c \in CPU, cpu_put(c) PROVE WorkInv'
  <2>1. \A q : InQueue(q) => InQueue(q)'
    BY <1>0, <1>2, PutFacts, EnqueueFacts
  <2>2. ready_before' = ready_before /\ proc'[c] # NULL
    BY <1>2 DEF cpu_put
  <2>3. ASSUME NEW d \in CPU, Q(d)' PROVE Q(d)
    BY <1>0, <1>2, <2>2, <2>3, OthersUnchanged DEF cpu_routine, cpu_own
  <2> QED
    BY <1>0, <2>1, <2>2, <2>3 DEF WorkInv
<1>3. ASSUME UNCHANGED schedVars, ready_before' = ready_before, \A d \in CPU : Q(d)' => Q(d)
      PROVE  WorkInv'
  <2>1. \A q : InQueue(q)' <=> InQueue(q)
    BY <1>3 DEF InQueue, schedVars
  <2> QED
    BY <1>0, <1>3, <2>1 DEF WorkInv
<1>4. ASSUME NEW c \in CPU,
             cpu_idle(c) \/ cpu_count(c) \/ cpu_store(c) \/ cpu_stop(c) \/ cpu_skip(c) \/ cpu_run(c)
      PROVE  WorkInv'
  <2>1. UNCHANGED schedVars /\ ready_before' = ready_before /\ proc' = proc
    BY <1>4, StayPlaces
  <2>2. Q(c)' => Q(c)
    BY <1>0, <1>4, <2>1 DEF cpu_idle, cpu_count, cpu_store, cpu_stop, cpu_skip, cpu_run, At
  <2>3. ASSUME NEW d \in CPU, d # c, Q(d)' PROVE Q(d)
    BY <1>0, <1>4, <2>3, OthersUnchanged DEF cpu_routine, cpu_own
  <2> QED
    BY <1>3, <2>1, <2>2, <2>3
<1>5. CASE ld_add
  <2>1. \A q : InQueue(q) => InQueue(q)'
    BY <1>0, <1>5, AddFacts, EnqueueFacts
  <2>2. ready_before' = ready_before /\ \A d \in CPU : Q(d)' => Q(d)
    BY <1>0, <1>5, CPUsUnchanged DEF ld_routine
  <2> QED
    BY <1>0, <2>1, <2>2 DEF WorkInv
<1>6. CASE ld_wait \/ ld_next \/ ld_done \/ ld_detach
  <2>1. ready_before' = ready_before /\ \A d \in CPU : Q(d)' => Q(d)
    BY <1>0, <1>6, CPUsUnchanged DEF ld_routine
  <2> QED
    BY <1>3, <1>6, <2>1 DEF ld_wait, ld_next, ld_done, ld_detach
<1>7. CASE tick
  <2>1. \A p \in ready_before' : InQueue(p)'
    BY <1>7 DEF tick, Ready, InQueue, schedVars
  <2>2. \A d \in CPU : ~Q(d)'
    BY <1>7, SlotEnd
  <2> QED
    BY <2>1, <2>2 DEF WorkInv
<1>8. CASE stop \/ UNCHANGED vars
    BY <1>3, <1>8 DEF stop, Barrier!Stop, vars, schedVars, cpuVars
<1> QED
    BY <1>1, <1>2, <1>4, <1>5, <1>6, <1>7, <1>8 DEF Step, Next, Terminated, cpu_routine, cpu_own, ld_routine

-----------------------------------------------------------------------------
(* CPUs retire in time *)

\* A set is no larger than another that covers it.
LEMMA CoverBound ==
    ASSUME NEW S, NEW T, IsFiniteSet(T), NEW g, \A p \in S : \E c \in T : g[c] = p
    PROVE  Cardinality(S) <= Cardinality(T)
<1> DEFINE f == [p \in S |-> CHOOSE c \in T : g[c] = p]
<1>1. \A p \in S : f[p] \in T /\ g[f[p]] = p
    OBVIOUS
<1>2. f \in [S -> T]
    BY <1>1
<1> HIDE DEF f
<1>3. \A p, q \in S : f[p] = f[q] => p = q
    BY <1>1
<1>4. f \in Injection(S, T)
    BY <1>2, <1>3 DEF Injection, IsInjective
<1> QED
    BY <1>4, FS_Injection

\* After a step, while no process is ready and all are loaded, each
\* unfinished process has a CPU of its own that is not leaving.
LEMMA OwnCPU ==
    ASSUME TypeOK', StateInv', PlaceInv', ~exited', loaded' = num_processes,
           \A p \in Proc : ~InQueue(p)'
    PROVE  Cardinality(Proc \ completed') <= Cardinality(CPU \ Leaving')
<1>1. \A p \in Proc \ completed' : \E c \in CPU : Holds(c, p)'
    BY ProcAssumption DEF PlaceInv
<1>2. \A p \in Proc, c \in CPU : Holds(c, p)' => c \notin Leaving' /\ proc'[c] = p
    BY NullAssumption DEF Holds, StateInv, Leaving
<1>3. \A p \in Proc \ completed' : \E c \in CPU \ Leaving' : proc'[c] = p
    BY <1>1, <1>2
<1>4. IsFiniteSet(CPU \ Leaving')
    BY FS_Difference, ThreadAssumption
<1> QED
    BY <1>3, <1>4, CoverBound

\* A step with which no CPU joins those that leave, and which completes
\* processes at most, preserves the bound.
LEMMA FewerLeaving ==
    ASSUME Cardinality(Proc \ completed) <= Cardinality(CPU \ Leaving),
           completed \subseteq completed', Leaving' \subseteq Leaving
    PROVE  Cardinality(Proc \ completed') <= Cardinality(CPU \ Leaving')
<1>1. IsFiniteSet(Proc)
    BY ProcAssumption, FS_Interval
<1>2. /\ IsFiniteSet(Proc \ completed) /\ IsFiniteSet(Proc \ completed')
      /\ IsFiniteSet(CPU \ Leaving) /\ IsFiniteSet(CPU \ Leaving')
    BY <1>1, ThreadAssumption, FS_Difference
<1>3. /\ Proc \ completed' \subseteq Proc \ completed
      /\ CPU \ Leaving \subseteq CPU \ Leaving'
    OBVIOUS
<1>4. /\ Cardinality(Proc \ completed') <= Cardinality(Proc \ completed)
      /\ Cardinality(CPU \ Leaving) <= Cardinality(CPU \ Leaving')
    BY <1>2, <1>3, FS_Subset
<1>5. /\ Cardinality(Proc \ completed) \in Nat /\ Cardinality(Proc \ completed') \in Nat
      /\ Cardinality(CPU \ Leaving) \in Nat /\ Cardinality(CPU \ Leaving') \in Nat
    BY <1>2, FS_CardinalityType
<1> QED
    BY <1>4, <1>5

\* Once all processes are completed there is nothing to run.
LEMMA AllCompleted ==
    ASSUME completed' = Proc
    PROVE  Cardinality(Proc \ completed') <= Cardinality(CPU \ Leaving')
<1>1. Proc \ completed' = {}
    OBVIOUS
<1>2. Cardinality(CPU \ Leaving') \in Nat
    BY ThreadAssumption, FS_Difference, FS_CardinalityType
<1> QED
    BY <1>1, <1>2, FS_EmptySet

\* Every step keeps a CPU for each unfinished process.
LEMMA NextEnoughInv == ASSUME IInv, Step PROVE EnoughInv'
<1>0. TypeOK /\ QueueInv /\ StateInv /\ PlaceInv /\ CountInv /\ EnoughInv
    BY DEF IInv
<1>a. TypeOK' /\ StateInv' /\ PlaceInv'
    BY NextTypeOK, NextStateInv, NextPlaceInv
<1> DEFINE Stopped == \E c \in CPU : cpc[c] = "stopped"
           Bound == Cardinality(Proc \ completed) <= Cardinality(CPU \ Leaving)
\* Steps with which no CPU joins those that leave.
<1>1. ASSUME Stopped' => Stopped, AllLoaded' => AllLoaded, done => done',
             completed \subseteq completed', Leaving' \subseteq Leaving
      PROVE  EnoughInv'
  <2>1. Stopped' => done' \/ completed' = Proc
    BY <1>0, <1>a, <1>1 DEF EnoughInv, TypeOK
  <2>2. AllLoaded' /\ Leaving' # {} => Bound'
    BY <1>0, <1>1, FewerLeaving DEF EnoughInv
  <2> QED
    BY <2>1, <2>2 DEF EnoughInv
<1>2. ASSUME NEW c \in CPU, cpu_routine(c)
      PROVE  /\ done' = done /\ AllLoaded' = AllLoaded
             /\ \A d \in CPU : d # c => /\ cpc'[d] = cpc[d]
                                        /\ d \in Leaving' <=> d \in Leaving
  <2>1. \A d \in CPU : d # c => cpc'[d] = cpc[d] /\ proc'[d] = proc[d]
    BY <1>0, <1>2, OthersUnchanged
  <2>2. done' = done /\ AllLoaded' = AllLoaded
    BY <1>0, <1>2, LoaderUnchanged DEF AllLoaded
  <2> QED
    BY <2>1, <2>2 DEF Leaving
<1>3. ASSUME NEW c \in CPU, cpu_routine(c), completed \subseteq completed',
             cpc'[c] # "stopped", c \in Leaving' => c \in Leaving
      PROVE  EnoughInv'
  <2>1. Stopped' => Stopped
    BY <1>2, <1>3
  <2>2. Leaving' \subseteq Leaving
    BY <1>2, <1>3 DEF Leaving
  <2> QED
    BY <1>1, <1>2, <1>3, <2>1, <2>2
<1>4. ASSUME NEW c \in CPU, cpu_finish(c) \/ cpu_swap(c) PROVE EnoughInv'
  <2>1. completed \subseteq completed'
    BY <1>4 DEF cpu_finish, cpu_swap
  <2>2. cpc'[c] \in {"count", "recheck"} /\ ~exited
    BY <1>0, <1>4 DEF cpu_finish, cpu_swap, Goto, TypeOK, At
  <2>3. CASE proc'[c] # NULL
    <3>1. c \notin Leaving'
      BY <2>2, <2>3 DEF Leaving
    <3> QED
      BY <1>3, <1>4, <2>1, <2>2, <3>1 DEF cpu_routine, cpu_own
  <2>4. CASE proc'[c] = NULL
    <3>1. ~exited' /\ \A p \in Proc : ~InQueue(p)'
      BY <1>4, <2>2, <2>4, GetPlaces
    <3>2. loaded' = num_processes => Bound'
      BY <1>a, <3>1, OwnCPU
    <3>3. Stopped' => Stopped
      BY <1>2, <1>4, <2>2 DEF cpu_routine, cpu_own
    <3>4. Stopped' => done' \/ completed' = Proc
      BY <1>0, <1>a, <1>2, <1>4, <2>1, <3>3 DEF EnoughInv, TypeOK, cpu_routine, cpu_own
    <3> QED
      BY <3>2, <3>4 DEF EnoughInv, AllLoaded
  <2> QED
    BY <2>3, <2>4
<1>5. ASSUME NEW c \in CPU, cpu_idle(c) PROVE EnoughInv'
  <2>1. CASE cnt_proc_done = num_processes
    <3>1. completed' = Proc
      <4>1. completed' = completed
        BY <1>5 DEF cpu_idle
      <4>2. Cardinality(completed) = num_processes
        BY <1>0, <2>1, Counting, ProcAssumption DEF CountInv
      <4> QED
        BY <1>0, <4>1, <4>2, Counting
    <3> QED
      BY <3>1, AllCompleted DEF EnoughInv
  <2>2. CASE cnt_proc_done # num_processes
    <3>1. cpc'[c] = "top"
      BY <1>0, <1>5, <2>2 DEF cpu_idle, Goto, TypeOK
    <3>2. c \notin Leaving'
      BY <3>1 DEF Leaving
    <3>3. completed' = completed
      BY <1>5 DEF cpu_idle
    <3> QED
      BY <1>3, <1>5, <3>1, <3>2, <3>3 DEF cpu_routine, cpu_own
  <2> QED
    BY <2>1, <2>2
<1>6. ASSUME NEW c \in CPU, cpu_stop(c) PROVE EnoughInv'
  <2>1. done' /\ completed' = completed
    BY <1>6 DEF cpu_stop
  <2>2. c \in Leaving
    BY <1>6 DEF cpu_stop, At, Leaving
  <2>3. Leaving' \subseteq Leaving
    BY <1>2, <1>6, <2>2 DEF cpu_routine, cpu_own, Leaving
  <2>4. AllLoaded' = AllLoaded
    BY <1>2, <1>6 DEF cpu_routine, cpu_own
  <2>5. AllLoaded' /\ Leaving' # {} => Bound'
    BY <1>0, <2>1, <2>3, <2>4, FewerLeaving DEF EnoughInv
  <2> QED
    BY <2>1, <2>5 DEF EnoughInv
<1>7. ASSUME NEW c \in CPU, cpu_get(c) \/ cpu_count(c) \/ cpu_store(c) \/ cpu_put(c)
                            \/ cpu_skip(c) \/ cpu_run(c)
      PROVE  EnoughInv'
  <2>1. completed' = completed
    BY <1>7 DEF cpu_get, cpu_count, cpu_store, cpu_put, cpu_skip, cpu_run
  <2>2. cpc'[c] # "stopped"
    BY <1>0, <1>7 DEF cpu_get, cpu_count, cpu_store, cpu_put, cpu_skip, cpu_run, Goto, TypeOK
  <2>3. c \in Leaving' => c \in Leaving
    <3>1. CASE cpu_count(c) \/ cpu_store(c)
      BY <1>0, <2>2, <3>1 DEF cpu_count, cpu_store, At, Leaving
    <3>2. CASE cpu_put(c) \/ cpu_skip(c) \/ cpu_run(c)
      BY <1>0, <3>2 DEF cpu_put, cpu_skip, cpu_run, Goto, Leaving, TypeOK
    <3>3. CASE cpu_get(c)
      BY <1>0, <3>3 DEF cpu_get, Goto, Leaving, TypeOK
    <3> QED
      BY <1>7, <3>1, <3>2, <3>3
  <2> QED
    BY <1>3, <1>7, <2>1, <2>2, <2>3 DEF cpu_routine, cpu_own
<1>8. CASE ld_routine
  <2>1. cpc' = cpc /\ proc' = proc /\ completed' = completed
    BY <1>0, <1>8, CPUsUnchanged
  <2>2. Leaving' = Leaving /\ Stopped' = Stopped
    BY <2>1 DEF Leaving
  <2>3. done => done'
    BY <1>8 DEF ld_routine, ld_wait, ld_add, ld_next, ld_done, ld_detach
  <2>4. AllLoaded' => AllLoaded
    <3>1. CASE ld_wait
      <4>1. loaded' # num_processes
        BY <1>0, <3>1, ProcAssumption DEF ld_wait, ldVars, TypeOK
      <4> QED
        BY <4>1 DEF AllLoaded
    <3>2. CASE ld_add \/ ld_next
      <4>1. ~done'
        BY <1>0, <3>2 DEF ld_add, ld_next, LdAt, StateInv
      <4>2. ~(ldpc' = "load" /\ state'[ld] = "work")
        BY <1>0, <3>2 DEF ld_add, ld_next, Barrier!Arrive, TypeOK, Barrier!BarrierTypeOK, Thread
      <4> QED
        BY <4>1, <4>2 DEF AllLoaded
    <3>3. CASE ld_done
      BY <3>3 DEF ld_done, LdAt, AllLoaded
    <3>4. CASE ld_detach
      BY <1>0, <3>4 DEF ld_detach, LdAt, AllLoaded, StateInv
    <3> QED
      BY <1>8, <3>1, <3>2, <3>3, <3>4 DEF ld_routine
  <2> QED
    BY <1>1, <2>1, <2>2, <2>3, <2>4
<1>9. CASE tick
  <2>1. /\ UNCHANGED <<cpc, proc, completed, done, loaded>>
        /\ Leaving' = Leaving /\ Stopped' = Stopped
    BY <1>9 DEF tick, cpuVars, ldVars, Leaving
  <2>2. CASE done
    <3>1. AllLoaded
      BY <1>0, <2>2 DEF AllLoaded, StateInv
    <3> QED
      BY <1>1, <2>1, <3>1
  <2>3. CASE ~done /\ Leaving' # {}
    <3>1. Stopped
      BY <1>9, <2>1, <2>3, SlotEnd DEF Leaving
    <3>2. completed' = Proc
      BY <1>0, <2>1, <2>3, <3>1 DEF EnoughInv
    <3> QED
      BY <3>2, AllCompleted DEF EnoughInv
  <2>4. CASE ~done /\ Leaving' = {}
    <3>1. ~Stopped'
      BY <2>4 DEF Leaving
    <3> QED
      BY <2>4, <3>1 DEF EnoughInv
  <2> QED
    BY <2>2, <2>3, <2>4
<1>10. CASE stop \/ UNCHANGED vars
  <2>1. UNCHANGED <<cpc, proc, completed, done, ldpc, loaded, state>>
    BY <1>10 DEF stop, Barrier!Stop, vars, cpuVars, ldVars
  <2>2. Leaving' = Leaving /\ AllLoaded' = AllLoaded /\ Stopped' = Stopped
    BY <2>1 DEF Leaving, AllLoaded
  <2> QED
    BY <1>1, <2>1, <2>2
<1> QED
    BY <1>4, <1>5, <1>6, <1>7, <1>8, <1>9, <1>10 DEF Step, Next, Terminated, cpu_routine, cpu_own

-----------------------------------------------------------------------------
(* Theorems *)

\* The invariant holds in every reachable state of the simulator.
THEOREM Invariance == Safety => []IInv
<1>1. Init => IInv
    BY InitIInv
<1>2. IInv /\ [Next]_vars => IInv'
    BY NextTypeOK, NextQueueInv, NextStateInv, NextPlaceInv, NextSliceInv, NextCountInv,
       NextWorkInv, NextEnoughInv DEF IInv, Step
<1> QED
    BY <1>1, <1>2, PTL DEF Safety

\* The data of the simulator keep their types: in particular the counter of
\* completed processes and the program counters stay in their ranges.
THEOREM TypeCorrect == Safety => []TypeOK
BY Invariance, PTL DEF IInv

\* Each process is in one place at a time: no two CPUs run the same pcb_t,
\* none runs one that was freed, and none is lost.
THEOREM OnePlaceAlways == Safety => []OnePlace
<1>1. IInv => OnePlace
  <2> SUFFICES ASSUME IInv, ~exited, NEW p \in Proc
               PROVE  LET queued == {x \in Prios \X (1 .. MAX_QUEUE_SIZE) :
                                        /\ x[2] <= Len(mlq_ready_queue[x[1]])
                                        /\ mlq_ready_queue[x[1]][x[2]] = p}
                          held == {c \in CPU : Holds(c, p)}
                          loading == {p} \ (1 .. loaded)
                          freed == completed \cap {p}
                      IN  Cardinality(queued) + Cardinality(held) + Cardinality(loading)
                              + Cardinality(freed) = 1
    BY DEF OnePlace
  <2> DEFINE queued == {x \in Prios \X (1 .. MAX_QUEUE_SIZE) :
                           /\ x[2] <= Len(mlq_ready_queue[x[1]])
                           /\ mlq_ready_queue[x[1]][x[2]] = p}
             held == {c \in CPU : Holds(c, p)}
             loading == {p} \ (1 .. loaded)
             freed == completed \cap {p}
             Once == Cardinality(queued) + Cardinality(held) + Cardinality(loading)
                         + Cardinality(freed) = 1
  <2>0. TypeOK /\ QueueInv /\ PlaceInv
    BY DEF IInv
  <2>1. Cardinality({}) = 0 /\ \A x : Cardinality({x}) = 1
    BY FS_EmptySet, FS_Singleton
  <2>2. \A i \in Prios : Len(mlq_ready_queue[i]) \in Nat
    BY <2>0 DEF TypeOK
  <2>3. ~InQueue(p) => queued = {}
    <3> SUFFICES ASSUME NEW x \in queued PROVE InQueue(p)
      OBVIOUS
    <3>1. /\ x[1] \in Prios /\ x[2] \in 1 .. MAX_QUEUE_SIZE
          /\ x[2] <= Len(mlq_ready_queue[x[1]])
          /\ mlq_ready_queue[x[1]][x[2]] = p
      OBVIOUS
    <3>2. x[2] \in 1 .. Len(mlq_ready_queue[x[1]])
      BY <2>2, <3>1, MaxQueueAssumption
    <3> QED
      BY <3>1, <3>2 DEF InQueue
  <2>4. ASSUME InQueue(p) PROVE Cardinality(queued) = 1
    <3>0. PICK i \in Prios : \E k \in 1 .. Len(mlq_ready_queue[i]) : mlq_ready_queue[i][k] = p
      BY <2>4 DEF InQueue
    <3>1. PICK k \in 1 .. Len(mlq_ready_queue[i]) : mlq_ready_queue[i][k] = p
      BY <3>0
    <3>2. <<i, k>> \in queued
      BY <2>0, <2>2, <3>1, MaxQueueAssumption DEF QueueInv
    <3>3. ASSUME NEW x \in queued PROVE x = <<i, k>>
      <4>1. /\ x[1] \in Prios /\ x[2] \in 1 .. MAX_QUEUE_SIZE
            /\ x[2] <= Len(mlq_ready_queue[x[1]])
            /\ mlq_ready_queue[x[1]][x[2]] = p
            /\ x = <<x[1], x[2]>>
        BY <3>3
      <4>2. x[2] \in 1 .. Len(mlq_ready_queue[x[1]])
        BY <2>2, <4>1, MaxQueueAssumption
      <4>3. x[1] = prio[p] /\ i = prio[p]
        BY <2>0, <3>1, <4>1, <4>2 DEF QueueInv
      <4>4. x[2] = k
        BY <2>0, <3>1, <4>1, <4>2, <4>3 DEF QueueInv
      <4> QED
        BY <4>1, <4>3, <4>4
    <3>4. queued = {<<i, k>>}
      BY <3>2, <3>3
    <3> QED
      BY <2>1, <3>4
  <2>5. /\ p <= loaded => loading = {}
        /\ ~(p <= loaded) => loading = {p}
    BY <2>0, ProcAssumption DEF TypeOK
  <2>6. /\ p \in completed => freed = {p}
        /\ p \notin completed => freed = {}
    OBVIOUS
  <2>7. /\ (\A c \in CPU : ~Holds(c, p)) => held = {}
        /\ \A c \in CPU : Holds(c, p) => held = {c}
    BY <2>0 DEF PlaceInv
  <2> HIDE DEF queued, held, loading, freed
  <2>8. ASSUME InQueue(p) PROVE Once
    <3>1. p <= loaded /\ p \notin completed /\ \A c \in CPU : ~Holds(c, p)
      BY <2>0, <2>8 DEF PlaceInv
    <3> QED
      BY <2>1, <2>4, <2>5, <2>6, <2>7, <2>8, <3>1
  <2>9. ASSUME NEW c \in CPU, Holds(c, p)
        PROVE  Once
    <3>1. p <= loaded /\ p \notin completed /\ ~InQueue(p)
      BY <2>0, <2>9 DEF PlaceInv
    <3> QED
      BY <2>1, <2>3, <2>5, <2>6, <2>7, <2>9, <3>1
  <2>10. ASSUME p \in completed PROVE Once
    <3>1. p <= loaded /\ ~InQueue(p) /\ \A c \in CPU : ~Holds(c, p)
      BY <2>0, <2>10 DEF PlaceInv
    <3> QED
      BY SMTT(30), <2>1, <2>3, <2>5, <2>6, <2>7, <2>10, <3>1
  <2>11. ASSUME ~(p <= loaded) PROVE Once
    <3>1. p \notin completed /\ ~InQueue(p) /\ \A c \in CPU : ~Holds(c, p)
      BY <2>0, <2>11 DEF PlaceInv
    <3> QED
      <4>1. queued = {} /\ held = {} /\ freed = {} /\ loading = {p}
        BY <2>3, <2>5, <2>6, <2>7, <2>11, <3>1
      <4>2. Cardinality(loading) = 1
        BY <2>1, <4>1
      <4>3. Cardinality(queued) = 0 /\ Cardinality(held) = 0 /\ Cardinality(freed) = 0
        BY <2>1, <4>1
      <4> QED
        BY <4>2, <4>3
  <2>12. p <= loaded => InQueue(p) \/ p \in completed \/ \E c \in CPU : Holds(c, p)
    BY <2>0 DEF PlaceInv
  <2> QED
    BY <2>8, <2>9, <2>10, <2>11, <2>12 DEF queued, held, loading, freed
<1> QED
    BY <1>1, Invariance, PTL

\* No CPU passes a slot idle beside a process that was ready when the slot
\* began.
THEOREM WorkConservation == Safety => []WorkConserving
<1>1. IInv => WorkConserving
    BY DEF IInv, WorkInv, WorkConserving
<1> QED
    BY <1>1, Invariance, PTL

\* The CPUs that have not stopped suffice for the unfinished processes.
THEOREM CPUsAlwaysSuffice == Safety => []CPUsSuffice
<1>1. IInv => CPUsSuffice
  <2> SUFFICES ASSUME IInv, NEW c \in CPU, cpc[c] = "stopped"
               PROVE  Cardinality(Proc \ completed)
                          <= Cardinality({d \in CPU : cpc[d] # "stopped"})
    BY DEF CPUsSuffice
  <2> DEFINE up == {d \in CPU : cpc[d] # "stopped"}
  <2>0. TypeOK /\ StateInv /\ EnoughInv
    BY DEF IInv
  <2>1. IsFiniteSet(up) /\ Cardinality(up) \in Nat
    BY ThreadAssumption, FS_Subset, FS_CardinalityType
  <2>2. CASE completed = Proc
    <3>1. Proc \ completed = {}
      BY <2>2
    <3> QED
      BY <2>1, <3>1, FS_EmptySet
  <2>3. CASE done
    <3>1. AllLoaded /\ c \in Leaving
      BY <2>0, <2>3 DEF AllLoaded, StateInv, Leaving
    <3>2. Cardinality(Proc \ completed) <= Cardinality(CPU \ Leaving)
      BY <2>0, <3>1 DEF EnoughInv
    <3>3. CPU \ Leaving \in SUBSET up
      BY DEF Leaving
    <3>4. /\ IsFiniteSet(CPU \ Leaving)
          /\ Cardinality(CPU \ Leaving) <= Cardinality(up)
      BY <2>1, <3>3, FS_Subset
    <3>5. IsFiniteSet(Proc \ completed)
      BY <2>0, Counting, FS_Difference
    <3>6. Cardinality(CPU \ Leaving) \in Nat /\ Cardinality(Proc \ completed) \in Nat
      BY <3>4, <3>5, FS_CardinalityType
    <3> QED
      BY <2>1, <3>2, <3>4, <3>6
  <2> QED
    BY <2>0, <2>2, <2>3 DEF EnoughInv
<1> QED
    BY <1>1, Invariance, PTL

\* Unlocked increments never make the counter run ahead of the completions.
THEOREM CounterNeverAhead == Safety => []CounterNotAhead
<1>1. IInv => CounterNotAhead
  <2> SUFFICES ASSUME IInv PROVE CounterNotAhead
    OBVIOUS
  <2>1. /\ Cardinality(Pending) \in Nat /\ Cardinality(completed) \in Nat
        /\ cnt_proc_done \in Nat
    BY Counting, ProcAssumption DEF IInv, TypeOK
  <2> QED
    BY <2>1 DEF IInv, CountInv, CounterNotAhead
<1> QED
    BY <1>1, Invariance, PTL

\* A process that gets a CPU starts a time slice of its own.
THEOREM SlicesFresh == Safety => []FreshSlice
<1>1. IInv => FreshSlice
    BY DEF IInv, SliceInv
<1> QED
    BY <1>1, Invariance, PTL
=============================================================================
