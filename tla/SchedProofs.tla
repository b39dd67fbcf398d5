---------------------------- MODULE SchedProofs ----------------------------
(***************************************************************************)
(* Proofs about the scheduler for every number of processes, priorities    *)
(* and queue places: the queues hold exactly the ready processes, a        *)
(* waiting process is overtaken a bounded number of times, and the         *)
(* simulator only exits when too many processes of one priority wait.      *)
(***************************************************************************)
EXTENDS SchedEnv, FiniteSetTheorems, TLAPS

-----------------------------------------------------------------------------
(* The inductive invariant *)

\* The queues hold ready processes of their priority, none twice.
QueueInv ==
    \A i \in Prios : \A k \in 1 .. Len(mlq_ready_queue[i]) :
        /\ prio[mlq_ready_queue[i][k]] = i
        /\ Waiting(mlq_ready_queue[i][k])
        /\ \A l \in 1 .. Len(mlq_ready_queue[i]) :
               mlq_ready_queue[i][k] = mlq_ready_queue[i][l] => k = l

\* Every ready process is in its queue.
ReadyInv ==
    ~exited => \A p \in Proc : Waiting(p) =>
        \E k \in 1 .. Len(mlq_ready_queue[prio[p]]) : mlq_ready_queue[prio[p]][k] = p

\* FIFO: each dispatch from its own queue brings a process one place forward.
PlaceInv ==
    \A i \in Prios : \A k \in 1 .. Len(mlq_ready_queue[i]) :
        bypass[mlq_ready_queue[i][k]][i] + k <= MAX_QUEUE_SIZE

\* A refill happens only after the queue of a waiting process used its quota.
RefillInv ==
    \A i \in Prios : \A k \in 1 .. Len(mlq_ready_queue[i]) :
        refills[mlq_ready_queue[i][k]] * quota(i)
            <= bypass[mlq_ready_queue[i][k]][i] + mlq_ready_queue_slot[i]

\* Between refills a queue is served at most its quota.
ServedInv ==
    \A p \in Proc : Waiting(p) => \A j \in Prios :
        bypass[p][j] + mlq_ready_queue_slot[j] <= (1 + refills[p]) * quota(j)

IInv == TypeOK /\ QueueInv /\ ReadyInv /\ PlaceInv /\ RefillInv /\ ServedInv

-----------------------------------------------------------------------------
(* Arithmetic *)

\* One refill more is one quota more.
LEMMA TimesSucc ==
    ASSUME NEW a \in Nat, NEW b \in Nat
    PROVE  (a + 1) * b = a * b + b
BY SMT

\* Multiplication by a natural number is monotonic.
LEMMA TimesMono ==
    ASSUME NEW a \in Nat, NEW b \in Nat, NEW c \in Nat, a <= b
    PROVE  a * c <= b * c
BY SMT

\* a * w <= m bounds a by the quotient.
LEMMA DivBound ==
    ASSUME NEW a \in Nat, NEW w \in Nat \ {0}, NEW m \in Nat, a * w <= m
    PROVE  a <= m \div w
<1> DEFINE d == m \div w
<1>1. d \in Nat /\ m < (d + 1) * w
    BY SMT
<1>2. CASE a <= d
    BY <1>2
<1>3. CASE d + 1 <= a
    BY <1>1, <1>3, TimesMono, SMT
<1> QED
    BY <1>1, <1>2, <1>3

-----------------------------------------------------------------------------
(* The operations *)

\* Every queue is granted at least one dispatch.
LEMMA QuotaPositive ==
    ASSUME NEW i \in Prios
    PROVE  quota(i) \in Nat \ {0}
BY MaxPrioAssumption DEF Prios, quota

\* What enqueue does to the queues.
LEMMA EnqueueFacts ==
    ASSUME TypeOK, NEW p \in Proc, enqueue(prio[p], p)
    PROVE  /\ prio[p] \in Prios
           /\ \/ /\ exited'
                 /\ mlq_ready_queue' = mlq_ready_queue
              \/ /\ exited' = exited
                 /\ Len(mlq_ready_queue[prio[p]]) < MAX_QUEUE_SIZE
                 /\ mlq_ready_queue' = [mlq_ready_queue EXCEPT
                                            ![prio[p]] = Append(@, p)]
BY PrioAssumption DEF enqueue, TypeOK, Prios

\* What a successful get_mlq_proc does: the front of one queue leaves, and
\* the slots are the current ones or, when every waiting process's queue has
\* used its own up, the refilled ones.
LEMMA ServeFacts ==
    ASSUME TypeOK, NEW r \in Proc, get_mlq_proc(r)
    PROVE  \E i \in Prios :
              /\ mlq_ready_queue[i] # << >>
              /\ r = Head(mlq_ready_queue[i])
              /\ mlq_ready_queue' = [mlq_ready_queue EXCEPT ![i] = Tail(@)]
              /\ mlq_ready_queue_slot' = [UsedSlots EXCEPT ![i] = @ - 1]
              /\ exited' = exited
              /\ UsedSlots \in [Prios -> Nat]
              /\ UsedSlots[i] # 0
              /\ \A j \in Prios : UsedSlots[j] <= quota(j)
              /\ UsedSlots # mlq_ready_queue_slot =>
                    /\ UsedSlots = init_slot
                    /\ \A j \in Prios : mlq_ready_queue[j] # << >> =>
                                            mlq_ready_queue_slot[j] = 0
<1>1. PICK i \in Prios : /\ First(UsedSlots, i)
                         /\ r = Head(mlq_ready_queue[i])
                         /\ serve(i)
    BY NullAssumption DEF get_mlq_proc
<1>2. init_slot \in [Prios -> Nat] /\ \A j \in Prios : init_slot[j] = quota(j)
    BY QuotaPositive DEF init_slot
<1>3. UsedSlots \in [Prios -> Nat] /\ \A j \in Prios : UsedSlots[j] <= quota(j)
    BY <1>2, QuotaPositive DEF UsedSlots, TypeOK
<1>4. mlq_ready_queue[i] # << >> /\ UsedSlots[i] # 0
    BY <1>1 DEF First, Servable, empty
<1>5. UsedSlots # mlq_ready_queue_slot =>
          /\ UsedSlots = init_slot
          /\ \A j \in Prios : mlq_ready_queue[j] # << >> => mlq_ready_queue_slot[j] = 0
    BY DEF UsedSlots, Servable, empty
<1> QED
    BY <1>1, <1>3, <1>4, <1>5 DEF serve

-----------------------------------------------------------------------------
(* Inductiveness *)

\* The invariant holds initially.
LEMMA InitIInv == Init => IInv
<1> SUFFICES ASSUME Init PROVE IInv
    OBVIOUS
<1>1. /\ mlq_ready_queue = [i \in Prios |-> << >>]
      /\ mlq_ready_queue_slot = [i \in Prios |-> quota(i)]
      /\ exited = FALSE
      /\ where = [p \in Proc |-> "new"]
      /\ refills = [p \in Proc |-> 0]
      /\ bypass = [p \in Proc |-> [i \in Prios |-> 0]]
    BY DEF Init, init_scheduler, init_slot
<1>2. TypeOK
  <2>1. mlq_ready_queue \in [Prios -> Seq(Proc)]
    BY <1>1
  <2>2. \A i \in Prios : Len(mlq_ready_queue[i]) <= MAX_QUEUE_SIZE
    BY <1>1, MaxQueueAssumption
  <2>3. /\ mlq_ready_queue_slot \in [Prios -> Nat]
        /\ \A i \in Prios : mlq_ready_queue_slot[i] <= quota(i)
    BY <1>1, QuotaPositive
  <2>4. exited \in BOOLEAN
    BY <1>1
  <2>5. /\ where \in [Proc -> {"new", "ready", "running", "finished"}]
        /\ refills \in [Proc -> Nat]
        /\ bypass \in [Proc -> [Prios -> Nat]]
    BY <1>1
  <2> QED
    BY <2>1, <2>2, <2>3, <2>4, <2>5 DEF TypeOK
<1>3. \A i \in Prios : Len(mlq_ready_queue[i]) = 0
    BY <1>1
<1>4. \A p \in Proc : ~Waiting(p)
    BY <1>1 DEF Waiting
<1> QED
    BY <1>2, <1>3, <1>4
       DEF IInv, QueueInv, ReadyInv, PlaceInv, RefillInv, ServedInv

\* Adding a process or putting it back preserves the invariant.
LEMMA EnqueueIInv ==
    ASSUME IInv, ~exited, NEW p \in Proc, ~Waiting(p),
           enqueue(prio[p], p), mlq_ready_queue_slot' = mlq_ready_queue_slot,
           Enqueued(p)
    PROVE  IInv'
<1> DEFINE i == prio[p]
<1>0. TypeOK /\ i \in Prios /\ MAX_QUEUE_SIZE \in Nat
    BY MaxQueueAssumption, EnqueueFacts DEF IInv
<1>1. /\ where' = [where EXCEPT ![p] = "ready"]
      /\ refills' = [refills EXCEPT ![p] = 0]
      /\ bypass' = [bypass EXCEPT ![p] = [j \in Prios |-> 0]]
    BY DEF Enqueued
<1>2. /\ where' \in [Proc -> {"new", "ready", "running", "finished"}]
      /\ refills' \in [Proc -> Nat]
      /\ bypass' \in [Proc -> [Prios -> Nat]]
    BY <1>0, <1>1 DEF TypeOK
<1>3. \A q \in Proc : q # p => /\ Waiting(q)' = Waiting(q)
                               /\ refills'[q] = refills[q]
                               /\ bypass'[q] = bypass[q]
    BY <1>0, <1>1 DEF TypeOK, Waiting
<1>4. Waiting(p)' /\ refills'[p] = 0 /\ \A j \in Prios : bypass'[p][j] = 0
    BY <1>0, <1>1 DEF TypeOK, Waiting
<1>5. \A j \in Prios : \A k \in 1 .. Len(mlq_ready_queue[j]) :
          mlq_ready_queue[j][k] \in Proc /\ mlq_ready_queue[j][k] # p
    BY <1>0 DEF IInv, QueueInv, TypeOK
<1>6. ServedInv'
  <2> SUFFICES ASSUME NEW q \in Proc, Waiting(q)', NEW j \in Prios
               PROVE  bypass'[q][j] + mlq_ready_queue_slot[j] <= (1 + refills'[q]) * quota(j)
    BY DEF ServedInv
  <2>1. CASE q = p
    <3>1. bypass'[q][j] = 0 /\ refills'[q] = 0
      BY <2>1, <1>4
    <3>2. (1 + 0) * quota(j) = quota(j)
      BY QuotaPositive, TimesSucc
    <3>3. mlq_ready_queue_slot[j] \in Nat /\ mlq_ready_queue_slot[j] <= quota(j)
      BY <1>0 DEF TypeOK
    <3> QED
      BY <3>1, <3>2, <3>3
  <2>2. CASE q # p
    BY <2>2, <1>3 DEF IInv, ServedInv
  <2> QED
    BY <2>1, <2>2
<1>7. CASE exited' /\ mlq_ready_queue' = mlq_ready_queue
  <2>1. TypeOK'
    BY <1>0, <1>2, <1>7 DEF TypeOK
  <2> QED
    BY <2>1, <1>3, <1>5, <1>6, <1>7
       DEF IInv, QueueInv, ReadyInv, PlaceInv, RefillInv
<1>8. CASE /\ exited' = exited
           /\ Len(mlq_ready_queue[i]) < MAX_QUEUE_SIZE
           /\ mlq_ready_queue' = [mlq_ready_queue EXCEPT ![i] = Append(@, p)]
  <2> DEFINE n == Len(mlq_ready_queue[i])
  <2>1. /\ mlq_ready_queue' \in [Prios -> Seq(Proc)]
        /\ \A j \in Prios : j # i => mlq_ready_queue'[j] = mlq_ready_queue[j]
        /\ mlq_ready_queue'[i] = Append(mlq_ready_queue[i], p)
        /\ Len(mlq_ready_queue'[i]) = n + 1
        /\ mlq_ready_queue'[i][n + 1] = p
        /\ \A k \in 1 .. n : mlq_ready_queue'[i][k] = mlq_ready_queue[i][k]
        /\ n \in Nat
    BY <1>0, <1>8 DEF TypeOK
  <2>2. TypeOK'
    BY SMTT(30), <1>0, <1>2, <1>8, <2>1 DEF TypeOK
  <2>3. \A j \in Prios : \A k \in 1 .. Len(mlq_ready_queue'[j]) :
            \/ j = i /\ k = n + 1 /\ mlq_ready_queue'[j][k] = p
            \/ /\ k \in 1 .. Len(mlq_ready_queue[j])
               /\ mlq_ready_queue'[j][k] = mlq_ready_queue[j][k]
    BY SMTT(30), <2>1
  <2>4. QueueInv'
    BY SMTT(30), <2>1, <2>3, <1>3, <1>4, <1>5 DEF IInv, QueueInv
  <2>5. ReadyInv'
    <3> SUFFICES ASSUME NEW q \in Proc, Waiting(q)'
                 PROVE  \E k \in 1 .. Len(mlq_ready_queue'[prio[q]]) :
                            mlq_ready_queue'[prio[q]][k] = q
      BY DEF ReadyInv
    <3>1. CASE q = p
      BY <3>1, <2>1
    <3>2. CASE q # p
      <4>1. PICK k \in 1 .. Len(mlq_ready_queue[prio[q]]) : mlq_ready_queue[prio[q]][k] = q
        BY <3>2, <1>3 DEF IInv, ReadyInv
      <4>2. prio[q] \in Prios
        BY PrioAssumption DEF Prios
      <4>3. CASE prio[q] = i
        BY <4>1, <4>3, <2>1
      <4>4. CASE prio[q] # i
        BY <4>1, <4>2, <4>4, <2>1
      <4> QED
        BY <4>3, <4>4
    <3> QED
      BY <3>1, <3>2
  <2>6. PlaceInv'
    BY <1>0, <1>3, <1>4, <1>5, <1>8, <2>1, <2>3 DEF IInv, PlaceInv
  <2>7. RefillInv'
    <3> SUFFICES ASSUME NEW j \in Prios, NEW k \in 1 .. Len(mlq_ready_queue'[j])
                 PROVE  refills'[mlq_ready_queue'[j][k]] * quota(j)
                          <= bypass'[mlq_ready_queue'[j][k]][j] + mlq_ready_queue_slot[j]
      BY DEF RefillInv
    <3>1. CASE mlq_ready_queue'[j][k] = p
      BY <3>1, <1>0, <1>4, QuotaPositive DEF TypeOK
    <3>2. CASE mlq_ready_queue'[j][k] # p
      BY <3>2, <2>3, <1>3, <1>5 DEF IInv, RefillInv
    <3> QED
      BY <3>1, <3>2
  <2> QED
    BY <2>2, <2>4, <2>5, <2>6, <2>7, <1>6 DEF IInv
<1> QED
    BY <1>0, <1>7, <1>8, EnqueueFacts

\* A dispatch preserves the invariant.
LEMMA DispatchIInv ==
    ASSUME IInv, ~exited, NEW r \in Proc, Dispatch(r)
    PROVE  IInv'
<1>0. TypeOK /\ MAX_QUEUE_SIZE \in Nat
    BY MaxQueueAssumption DEF IInv
<1>1. PICK i \in Prios :
          /\ mlq_ready_queue[i] # << >>
          /\ r = Head(mlq_ready_queue[i])
          /\ mlq_ready_queue' = [mlq_ready_queue EXCEPT ![i] = Tail(@)]
          /\ mlq_ready_queue_slot' = [UsedSlots EXCEPT ![i] = @ - 1]
          /\ exited' = exited
          /\ UsedSlots \in [Prios -> Nat]
          /\ UsedSlots[i] # 0
          /\ \A j \in Prios : UsedSlots[j] <= quota(j)
          /\ UsedSlots # mlq_ready_queue_slot =>
                /\ UsedSlots = init_slot
                /\ \A j \in Prios : mlq_ready_queue[j] # << >> =>
                                        mlq_ready_queue_slot[j] = 0
    BY <1>0, ServeFacts DEF Dispatch
<1> DEFINE n == Len(mlq_ready_queue[i])
           refilled == UsedSlots # mlq_ready_queue_slot
<1>2. /\ mlq_ready_queue' \in [Prios -> Seq(Proc)]
      /\ \A j \in Prios : j # i => mlq_ready_queue'[j] = mlq_ready_queue[j]
      /\ n \in Nat \ {0}
      /\ Len(mlq_ready_queue'[i]) = n - 1
      /\ \A k \in 1 .. n - 1 : mlq_ready_queue'[i][k] = mlq_ready_queue[i][k + 1]
      /\ mlq_ready_queue[i][1] = r
    BY <1>0, <1>1 DEF TypeOK
<1>3. prio[r] = i /\ Waiting(r)
    BY <1>2 DEF IInv, QueueInv
<1>4. \A j \in Prios : mlq_ready_queue_slot'[j] = IF j = i THEN UsedSlots[j] - 1 ELSE UsedSlots[j]
    BY <1>1
<1>5. \A q \in Proc :
          /\ Waiting(q)' = (Waiting(q) /\ q # r)
          /\ Waiting(q) => /\ refills'[q] = IF refilled THEN refills[q] + 1 ELSE refills[q]
                           /\ \A j \in Prios : bypass'[q][j] = IF j = i THEN bypass[q][j] + 1
                                                               ELSE bypass[q][j]
    BY <1>0, <1>3 DEF Dispatch, Waiting, TypeOK
<1>6. TypeOK'
  <2>1. /\ mlq_ready_queue_slot' \in [Prios -> Nat]
        /\ \A j \in Prios : mlq_ready_queue_slot'[j] <= quota(j)
    BY <1>1, <1>4, QuotaPositive
  <2>2. \A j \in Prios : Len(mlq_ready_queue'[j]) <= MAX_QUEUE_SIZE
    <3>1. n <= MAX_QUEUE_SIZE
      BY <1>0 DEF TypeOK
    <3>2. Len(mlq_ready_queue'[i]) <= MAX_QUEUE_SIZE
      BY <1>0, <1>2, <3>1
    <3> QED
      BY <1>0, <1>2, <3>2 DEF TypeOK
  <2>3. where' \in [Proc -> {"new", "ready", "running", "finished"}]
    BY <1>0 DEF Dispatch, TypeOK
  <2>4. refills' \in [Proc -> Nat] /\ bypass' \in [Proc -> [Prios -> Nat]]
    BY SMTT(30), <1>0, <1>3 DEF Dispatch, TypeOK
  <2> QED
    BY <1>0, <1>1, <1>2, <2>1, <2>2, <2>3, <2>4 DEF TypeOK
\* The place from which the process at place k of queue j has moved.
<1> DEFINE old(j, k) == IF j = i THEN k + 1 ELSE k
<1>7. \A j \in Prios : \A k \in 1 .. Len(mlq_ready_queue'[j]) :
          /\ old(j, k) \in 1 .. Len(mlq_ready_queue[j])
          /\ mlq_ready_queue'[j][k] = mlq_ready_queue[j][old(j, k)]
          /\ mlq_ready_queue'[j][k] \in Proc
          /\ mlq_ready_queue'[j][k] # r
          /\ Waiting(mlq_ready_queue'[j][k])
          /\ mlq_ready_queue[j] # << >>
  <2> SUFFICES ASSUME NEW j \in Prios, NEW k \in 1 .. Len(mlq_ready_queue'[j])
               PROVE  /\ old(j, k) \in 1 .. Len(mlq_ready_queue[j])
                      /\ mlq_ready_queue'[j][k] = mlq_ready_queue[j][old(j, k)]
                      /\ mlq_ready_queue'[j][k] \in Proc
                      /\ mlq_ready_queue'[j][k] # r
                      /\ Waiting(mlq_ready_queue'[j][k])
                      /\ mlq_ready_queue[j] # << >>
    OBVIOUS
  <2>1. CASE j = i
    <3>1. k + 1 \in 2 .. n /\ mlq_ready_queue'[j][k] = mlq_ready_queue[i][k + 1]
      BY <2>1, <1>2
    <3>2. mlq_ready_queue[i][k + 1] # r
      BY <3>1, <1>2 DEF IInv, QueueInv
    <3> QED
      BY <3>1, <3>2, <2>1, <1>0, <1>1 DEF IInv, QueueInv, TypeOK
  <2>2. CASE j # i
    <3>1. mlq_ready_queue'[j] = mlq_ready_queue[j]
      BY <2>2, <1>2
    <3>2. prio[mlq_ready_queue[j][k]] = j /\ Waiting(mlq_ready_queue[j][k])
      BY <3>1 DEF IInv, QueueInv
    <3> QED
      BY SMTT(30), <3>1, <3>2, <2>2, <1>0, <1>3 DEF TypeOK
  <2> QED
    BY <2>1, <2>2
<1>8. QueueInv'
  <2> SUFFICES ASSUME NEW j \in Prios, NEW k \in 1 .. Len(mlq_ready_queue'[j])
               PROVE  /\ prio[mlq_ready_queue'[j][k]] = j
                      /\ where'[mlq_ready_queue'[j][k]] = "ready"
                      /\ \A l \in 1 .. Len(mlq_ready_queue'[j]) :
                             mlq_ready_queue'[j][k] = mlq_ready_queue'[j][l] => k = l
    BY DEF QueueInv, Waiting
  <2>1. prio[mlq_ready_queue'[j][k]] = j
    BY <1>7 DEF IInv, QueueInv
  <2>2. where'[mlq_ready_queue'[j][k]] = "ready"
    BY <1>5, <1>7 DEF Waiting
  <2>3. ASSUME NEW l \in 1 .. Len(mlq_ready_queue'[j]),
               mlq_ready_queue'[j][k] = mlq_ready_queue'[j][l]
        PROVE  k = l
    <3>1. /\ old(j, k) \in 1 .. Len(mlq_ready_queue[j])
          /\ mlq_ready_queue'[j][k] = mlq_ready_queue[j][old(j, k)]
      BY <1>7
    <3>2. /\ old(j, l) \in 1 .. Len(mlq_ready_queue[j])
          /\ mlq_ready_queue'[j][l] = mlq_ready_queue[j][old(j, l)]
      BY <2>3, <1>7
    <3>3. \A x, y \in 1 .. Len(mlq_ready_queue[j]) :
              mlq_ready_queue[j][x] = mlq_ready_queue[j][y] => x = y
      BY DEF IInv, QueueInv
    <3> HIDE DEF old
    <3>4. old(j, k) = old(j, l)
      BY <2>3, <3>1, <3>2, <3>3
    <3> USE DEF old
    <3> QED
      BY <3>4, <1>2
  <2> QED
    BY <2>1, <2>2, <2>3
<1>9. ReadyInv'
  <2> SUFFICES ASSUME NEW q \in Proc, Waiting(q)'
               PROVE  \E k \in 1 .. Len(mlq_ready_queue'[prio[q]]) :
                          mlq_ready_queue'[prio[q]][k] = q
    BY DEF ReadyInv
  <2>1. PICK k \in 1 .. Len(mlq_ready_queue[prio[q]]) : mlq_ready_queue[prio[q]][k] = q
    BY <1>5 DEF IInv, ReadyInv
  <2>2. prio[q] \in Prios /\ q # r
    BY <1>5, PrioAssumption DEF Prios
  <2>3. CASE prio[q] = i
    <3>1. k # 1 /\ k - 1 \in 1 .. n - 1
      BY <2>1, <2>2, <2>3, <1>2
    <3>2. mlq_ready_queue'[i][k - 1] = mlq_ready_queue[i][(k - 1) + 1]
      BY <3>1, <1>2
    <3>3. (k - 1) + 1 = k
      BY <3>1
    <3> QED
      BY <3>1, <3>2, <3>3, <2>1, <2>3, <1>2
  <2>4. CASE prio[q] # i
    BY <2>1, <2>2, <2>4, <1>2
  <2> QED
    BY <2>3, <2>4
<1>10. PlaceInv'
  <2> SUFFICES ASSUME NEW j \in Prios, NEW k \in 1 .. Len(mlq_ready_queue'[j])
               PROVE  bypass'[mlq_ready_queue'[j][k]][j] + k <= MAX_QUEUE_SIZE
    BY DEF PlaceInv
  <2> DEFINE q == mlq_ready_queue'[j][k]
  <2>1. bypass[q][j] + old(j, k) <= MAX_QUEUE_SIZE
    BY <1>7 DEF IInv, PlaceInv
  <2>2. bypass'[q][j] = IF j = i THEN bypass[q][j] + 1 ELSE bypass[q][j]
    BY <1>5, <1>7
  <2>3. bypass[q][j] \in Nat
    <3>1. bypass \in [Proc -> [Prios -> Nat]]
      BY <1>0 DEF TypeOK
    <3>2. q \in Proc
      BY <1>7
    <3> HIDE DEF q
    <3> QED
      BY <3>1, <3>2
  <2>4. k \in Nat
    BY <1>7
  <2> QED
    BY <2>1, <2>2, <2>3, <2>4
<1>11. RefillInv'
  <2> SUFFICES ASSUME NEW j \in Prios, NEW k \in 1 .. Len(mlq_ready_queue'[j])
               PROVE  refills'[mlq_ready_queue'[j][k]] * quota(j)
                        <= bypass'[mlq_ready_queue'[j][k]][j] + mlq_ready_queue_slot'[j]
    BY DEF RefillInv
  <2>0. PICK q \in Proc : q = mlq_ready_queue'[j][k]
    BY <1>7
  <2>1. refills[q] * quota(j) <= bypass[q][j] + mlq_ready_queue_slot[j]
    BY <2>0, <1>7 DEF IInv, RefillInv
  <2>2. /\ refills'[q] = IF refilled THEN refills[q] + 1 ELSE refills[q]
        /\ bypass'[q][j] = IF j = i THEN bypass[q][j] + 1 ELSE bypass[q][j]
    BY <2>0, <1>5, <1>7
  <2>3. /\ bypass[q][j] \in Nat /\ refills[q] \in Nat
        /\ mlq_ready_queue_slot[j] \in Nat /\ UsedSlots[j] \in Nat
        /\ quota(j) \in Nat
    BY <1>0, <1>1, QuotaPositive DEF TypeOK
  <2>4. bypass'[q][j] + mlq_ready_queue_slot'[j] = bypass[q][j] + UsedSlots[j]
    BY SMTT(30), <2>2, <2>3, <1>4
  <2>5. CASE ~refilled
    BY <2>0, <2>1, <2>2, <2>4, <2>5
  <2>6. CASE refilled
    <3> DEFINE product == refills[q] * quota(j)
    <3>1. UsedSlots[j] = quota(j) /\ mlq_ready_queue_slot[j] = 0
      BY <2>6, <1>1, <1>7 DEF init_slot
    <3>2. product \in Nat
      BY <2>3
    <3>3. refills'[q] * quota(j) = product + quota(j)
      BY <2>2, <2>3, <2>6, TimesSucc
    <3>4. product <= bypass[q][j]
      BY <2>1, <2>3, <3>1
    <3> HIDE DEF product
    <3>5. product + quota(j) <= bypass[q][j] + UsedSlots[j]
      BY <3>1, <3>2, <3>4, <2>3
    <3> QED
      BY <2>0, <3>3, <3>5, <2>4
  <2> QED
    BY <2>5, <2>6
<1>12. ServedInv'
  <2> SUFFICES ASSUME NEW q \in Proc, Waiting(q)', NEW j \in Prios
               PROVE  bypass'[q][j] + mlq_ready_queue_slot'[j] <= (1 + refills'[q]) * quota(j)
    BY DEF ServedInv
  <2>1. bypass[q][j] + mlq_ready_queue_slot[j] <= (1 + refills[q]) * quota(j)
    BY <1>5 DEF IInv, ServedInv
  <2>2. /\ refills'[q] = IF refilled THEN refills[q] + 1 ELSE refills[q]
        /\ bypass'[q][j] = IF j = i THEN bypass[q][j] + 1 ELSE bypass[q][j]
    BY <1>5
  <2>3. /\ bypass[q][j] \in Nat /\ refills[q] \in Nat
        /\ mlq_ready_queue_slot[j] \in Nat /\ UsedSlots[j] \in Nat
        /\ quota(j) \in Nat
    BY <1>0, <1>1, QuotaPositive DEF TypeOK
  <2>4. bypass'[q][j] + mlq_ready_queue_slot'[j] = bypass[q][j] + UsedSlots[j]
    BY <2>2, <2>3, <1>4
  <2>5. CASE ~refilled
    BY <2>1, <2>2, <2>4, <2>5
  <2>6. CASE refilled
    <3>1. UsedSlots[j] <= quota(j)
      BY <1>1
    <3>2. (1 + refills[q]) \in Nat /\ (1 + refills[q]) * quota(j) \in Nat
      BY <2>3
    <3>3. ((1 + refills[q]) + 1) * quota(j) = (1 + refills[q]) * quota(j) + quota(j)
      BY <3>2, <2>3, TimesSucc
    <3>4. 1 + refills'[q] = (1 + refills[q]) + 1
      BY <2>2, <2>3, <2>6
    <3> QED
      BY <3>1, <3>2, <3>3, <3>4, <2>1, <2>3, <2>4
  <2> QED
    BY <2>5, <2>6
<1> QED
    BY <1>6, <1>8, <1>9, <1>10, <1>11, <1>12 DEF IInv

\* The end of a process preserves the invariant.
LEMMA FinishIInv ==
    ASSUME IInv, NEW p \in Proc, Finish(p)
    PROVE  IInv'
<1>1. \A q \in Proc : Waiting(q)' = Waiting(q)
    BY DEF IInv, TypeOK, Finish, Waiting
<1>2. TypeOK'
    BY DEF IInv, TypeOK, Finish
<1>3. \A i \in Prios : \A k \in 1 .. Len(mlq_ready_queue[i]) : mlq_ready_queue[i][k] \in Proc
    BY DEF IInv, TypeOK
<1> QED
    BY <1>1, <1>2, <1>3
       DEF IInv, Finish, QueueInv, ReadyInv, PlaceInv, RefillInv, ServedInv

\* Every step preserves the invariant.
LEMMA NextIInv == IInv /\ [Next]_vars => IInv'
<1> SUFFICES ASSUME IInv, [Next]_vars PROVE IInv'
    OBVIOUS
<1>1. ASSUME NEW p \in Proc, Load(p) PROVE IInv'
    BY <1>1, EnqueueIInv DEF Load, add_mlq_proc, Waiting
<1>2. ASSUME NEW p \in Proc, Preempt(p) PROVE IInv'
    BY <1>2, EnqueueIInv DEF Preempt, put_mlq_proc, Waiting
<1>3. ASSUME NEW p \in Proc, Dispatch(p) PROVE IInv'
    BY <1>3, DispatchIInv DEF Dispatch
<1>4. ASSUME NEW p \in Proc, Finish(p) PROVE IInv'
    BY <1>4, FinishIInv
<1>5. CASE UNCHANGED vars
    BY <1>5 DEF vars, IInv, TypeOK, QueueInv, ReadyInv, PlaceInv, RefillInv,
           ServedInv, Waiting
<1>6. CASE DispatchNone
  <2>1. UNCHANGED schedVars
    <3>1. \A i \in Prios : ~ (First(UsedSlots, i) /\ NULL = Head(mlq_ready_queue[i]))
      BY NullAssumption DEF First, Servable, empty, IInv, TypeOK
    <3> QED
      BY <1>6, <3>1 DEF DispatchNone, get_mlq_proc
  <2> QED
    BY <1>5, <1>6, <2>1 DEF DispatchNone, schedVars, vars
<1> QED
    BY <1>1, <1>2, <1>3, <1>4, <1>5, <1>6 DEF Next, Exited

-----------------------------------------------------------------------------
\* The strengthened invariant holds in every reachable state.
THEOREM Invariance == Safety => []IInv
BY InitIInv, NextIInv, PTL DEF Safety

\* No queue of sched.c outgrows its array and no slot count its quota.
THEOREM TypeCorrect == Safety => []TypeOK
<1>1. IInv => TypeOK
    BY DEF IInv
<1> QED
    BY <1>1, Invariance, PTL

\* No process is lost, duplicated or filed under a wrong priority
\* (queue.c:10-40), for every number of processes, priorities and places.
THEOREM QueuesExactAlways == Safety => []QueuesExact
<1>1. IInv => QueuesExact
    BY DEF IInv, QueueInv, ReadyInv, QueuesExact
<1> QED
    BY <1>1, Invariance, PTL

\* A waiting process is overtaken by at most (1 + MaxRefills) quotas of any
\* queue (sched.c:54-78): PlaceInv and RefillInv bound the refills, ServedInv
\* what each refill lets through.
THEOREM OvertakingBounded == Safety => []BoundedOvertaking
<1>1. IInv => BoundedOvertaking
  <2> SUFFICES ASSUME IInv, ~exited, NEW p \in Proc, Waiting(p), NEW j \in Prios
               PROVE  bypass[p][j] <= (1 + MaxRefills(p)) * quota(j)
    BY DEF BoundedOvertaking
  <2> DEFINE i == prio[p]
             w == quota(i)
             m == MAX_QUEUE_SIZE - 1
  <2>1. i \in Prios /\ w \in Nat \ {0} /\ quota(j) \in Nat /\ m \in Nat
    BY PrioAssumption, QuotaPositive, MaxQueueAssumption DEF Prios
  <2>2. /\ bypass[p][i] \in Nat /\ bypass[p][j] \in Nat /\ refills[p] \in Nat
        /\ mlq_ready_queue_slot[j] \in Nat
        /\ mlq_ready_queue_slot[i] \in Nat /\ mlq_ready_queue_slot[i] <= w
    BY <2>1 DEF IInv, TypeOK
  <2>3. PICK k \in 1 .. Len(mlq_ready_queue[i]) : mlq_ready_queue[i][k] = p
    BY DEF IInv, ReadyInv
  <2>4. bypass[p][i] + k <= MAX_QUEUE_SIZE
    BY <2>1, <2>3 DEF IInv, PlaceInv
  <2>5. refills[p] * w <= bypass[p][i] + mlq_ready_queue_slot[i]
    BY <2>1, <2>3 DEF IInv, RefillInv
  <2>6. k \in Nat /\ k >= 1
    BY <2>3
  <2>7. bypass[p][i] <= m
    BY <2>1, <2>2, <2>4, <2>6, MaxQueueAssumption
  <2>8. refills[p] <= 1 + m \div w
    <3>1. CASE refills[p] = 0
      <4>1. m \div w \in Nat
        BY <2>1
      <4> QED
        BY <3>1, <4>1
    <3>2. CASE refills[p] # 0
      <4> DEFINE a == refills[p] - 1
      <4>1. a \in Nat /\ refills[p] = a + 1
        BY <3>2, <2>2
      <4>2. (a + 1) * w = a * w + w /\ a * w \in Nat
        BY SMTT(30), <4>1, <2>1, TimesSucc
      <4>3. a * w <= m
        <5> DEFINE product == a * w
        <5>1. product + w <= bypass[p][i] + mlq_ready_queue_slot[i]
          BY <4>1, <4>2, <2>5
        <5>2. product \in Nat
          BY <4>2
        <5> HIDE DEF product, w, m, i
        <5>3. product <= m
          BY <5>1, <5>2, <2>1, <2>2, <2>7
        <5> QED
          BY <5>3 DEF product
      <4>4. a <= m \div w
        BY <4>1, <4>3, <2>1, DivBound
      <4>5. m \div w \in Nat
        BY <2>1
      <4> QED
        BY <4>1, <4>4, <4>5
    <3> QED
      BY <3>1, <3>2
  <2>9. MaxRefills(p) \in Nat /\ refills[p] <= MaxRefills(p)
    <3>1. m \div w \in Nat
      BY <2>1
    <3> QED
      BY <2>8, <3>1 DEF MaxRefills
  <2>10. bypass[p][j] + mlq_ready_queue_slot[j] <= (1 + refills[p]) * quota(j)
    BY DEF IInv, ServedInv
  <2>11. (1 + refills[p]) * quota(j) <= (1 + MaxRefills(p)) * quota(j)
    BY <2>1, <2>2, <2>9, TimesMono
  <2>12. (1 + refills[p]) * quota(j) \in Nat /\ (1 + MaxRefills(p)) * quota(j) \in Nat
    BY SMTT(30), <2>1, <2>2, <2>9
  <2> QED
    BY <2>2, <2>10, <2>11, <2>12
<1> QED
    BY <1>1, Invariance, PTL

\* The step that finds the queue full leaves one process more waiting than
\* the queue has places: those in it and the one that did not fit.
LEMMA FullQueue ==
    ASSUME IInv, NEW p \in Proc, ~exited, ~Waiting(p), enqueue(prio[p], p), Enqueued(p), exited'
    PROVE  ExitJustified'
<1> DEFINE i == prio[p]
           n == MAX_QUEUE_SIZE
           W == {q \in Proc : prio[q] = i /\ where'[q] = "ready"}
           f == [k \in 1 .. n + 1 |-> IF k = n + 1 THEN p ELSE mlq_ready_queue[i][k]]
<1>1. i \in Prios /\ n \in Nat /\ TypeOK
    BY PrioAssumption, MaxQueueAssumption DEF Prios, IInv
<1>2. Len(mlq_ready_queue[i]) = n
  <2>1. ~(Len(mlq_ready_queue[i]) < MAX_QUEUE_SIZE)
    BY Zenon DEF enqueue
  <2>2. Len(mlq_ready_queue[i]) \in Nat /\ Len(mlq_ready_queue[i]) <= n
    BY <1>1 DEF TypeOK
  <2> QED
    BY <1>1, <2>1, <2>2
<1>3. \A q \in Proc : Waiting(q) => where'[q] = "ready"
    BY <1>1 DEF Enqueued, TypeOK, Waiting
<1>4. p \in W
    BY <1>1 DEF Enqueued, TypeOK
<1>5. \A k \in 1 .. n : mlq_ready_queue[i][k] \in W /\ mlq_ready_queue[i][k] # p
  <2> SUFFICES ASSUME NEW k \in 1 .. n
               PROVE  mlq_ready_queue[i][k] \in W /\ mlq_ready_queue[i][k] # p
    OBVIOUS
  <2>1. mlq_ready_queue[i][k] \in Proc
    BY <1>1, <1>2 DEF TypeOK
  <2>2. prio[mlq_ready_queue[i][k]] = i /\ Waiting(mlq_ready_queue[i][k])
    BY <1>1, <1>2 DEF IInv, QueueInv
  <2> QED
    BY <1>3, <2>1, <2>2
<1>6. f \in [1 .. n + 1 -> W]
    BY <1>1, <1>4, <1>5
<1>7. ASSUME NEW k \in 1 .. n + 1, NEW l \in 1 .. n + 1, f[k] = f[l] PROVE k = l
  <2>1. CASE k = n + 1 \/ l = n + 1
    <3>1. \A m \in 1 .. n + 1 : m # n + 1 => m \in 1 .. n
      BY <1>1
    <3> QED
      BY <1>5, <1>7, <2>1, <3>1
  <2>2. CASE k # n + 1 /\ l # n + 1
    <3>1. k \in 1 .. n /\ l \in 1 .. n /\ mlq_ready_queue[i][k] = mlq_ready_queue[i][l]
      BY <1>1, <1>7, <2>2
    <3> QED
      BY <1>1, <1>2, <3>1 DEF IInv, QueueInv
  <2> QED
    BY <2>1, <2>2
<1> HIDE DEF f
<1>8. f \in Injection(1 .. n + 1, W)
    BY <1>6, <1>7 DEF Injection, IsInjective
<1>9. W \in SUBSET Proc
    OBVIOUS
<1>10. IsFiniteSet(W)
    BY <1>9, FiniteAssumption, FS_Subset
<1> HIDE DEF W
<1>11. Cardinality(1 .. n + 1) <= Cardinality(W) /\ Cardinality(W) \in Nat
    BY <1>8, <1>10, FS_Injection, FS_CardinalityType
<1>12. Cardinality(1 .. n + 1) = n + 1
    BY <1>1, FS_Interval
<1>13. Cardinality(W) > n
    BY <1>1, <1>11, <1>12
<1> QED
    BY <1>1, <1>13 DEF ExitJustified, Waiting, W

\* enqueue ends the simulator (queue.c:20-23) only when more processes of one
\* priority wait than its queue has places.
THEOREM ExitAlwaysJustified == Safety => []ExitJustified
<1>1. Init => ExitJustified
    BY DEF Init, init_scheduler, ExitJustified
<1>2. IInv /\ ExitJustified /\ [Next]_vars => ExitJustified'
  <2> SUFFICES ASSUME IInv, ExitJustified, [Next]_vars PROVE ExitJustified'
    OBVIOUS
  <2>1. ASSUME NEW p \in Proc, Load(p) PROVE ExitJustified'
    <3>1. CASE exited'
      BY <2>1, <3>1, FullQueue DEF Load, add_mlq_proc, Waiting
    <3>2. CASE ~exited'
      BY <3>2 DEF ExitJustified
    <3> QED
      BY <3>1, <3>2
  <2>2. ASSUME NEW p \in Proc, Preempt(p) PROVE ExitJustified'
    <3>1. CASE exited'
      BY <2>2, <3>1, FullQueue DEF Preempt, put_mlq_proc, Waiting
    <3>2. CASE ~exited'
      BY <3>2 DEF ExitJustified
    <3> QED
      BY <3>1, <3>2
  <2>3. ASSUME NEW p \in Proc, Dispatch(p) PROVE ExitJustified'
    BY <2>3, ServeFacts DEF Dispatch, IInv, ExitJustified
  <2>4. ASSUME NEW p \in Proc, Finish(p) PROVE ExitJustified'
    BY <2>4 DEF Finish, ExitJustified
  <2>5. CASE DispatchNone
    <3>1. ~exited'
      BY <2>5 DEF DispatchNone, get_mlq_proc, serve, schedVars
    <3> QED
      BY <3>1 DEF ExitJustified
  <2>6. CASE UNCHANGED vars
    BY <2>6 DEF vars, ExitJustified, Waiting
  <2> QED
    BY <2>1, <2>2, <2>3, <2>4, <2>5, <2>6 DEF Next, Exited
<1> QED
    BY <1>1, <1>2, Invariance, PTL DEF Safety
=============================================================================
