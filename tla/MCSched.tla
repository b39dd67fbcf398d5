------------------------------ MODULE MCSched ------------------------------
(***************************************************************************)
(* The scheduler with two priorities and four processes, and the while     *)
(* loop of get_mlq_proc as it is written, to compare with the closed form  *)
(* that Sched uses.                                                        *)
(***************************************************************************)
EXTENDS SchedEnv, TLC

CONSTANTS p1, p2, p3, p4

\* One urgent process, and three that share a queue with room for two.
PrioMixed == (p1 :> 0) @@ (p2 :> 1) @@ (p3 :> 1) @@ (p4 :> 1)

(***************************************************************************)
(* sched.c:60-75 literally: passes of the for loop until a process is      *)
(* found or all queues are empty.  fuel bounds the number of passes.       *)
(***************************************************************************)
NoResult == [proc |-> NULL, slot |-> << >>]

RECURSIVE ForLoop(_, _)
ForLoop(s, i) ==
    IF i = MAX_PRIO THEN [proc |-> NULL, slot |-> s]
    ELSE IF mlq_ready_queue[i] # << >> /\ s[i] # 0
         THEN [proc |-> Head(mlq_ready_queue[i]), slot |-> [s EXCEPT ![i] = @ - 1]]
         ELSE ForLoop(s, i + 1)

RECURSIVE WhileLoop(_, _)
WhileLoop(s, fuel) ==
    IF \A i \in Prios : mlq_ready_queue[i] = << >> THEN [proc |-> NULL, slot |-> s]
    ELSE IF fuel = 0 THEN NoResult
    ELSE LET pass == ForLoop(s, 0)
         IN  IF pass.proc # NULL THEN pass
             ELSE WhileLoop(init_slot, fuel - 1)

(***************************************************************************)
(* The loop of get_mlq_proc ends in at most two passes (sched.c:60-75) and *)
(* every result of the action get_mlq_proc is the loop's.                  *)
(***************************************************************************)
LoopAgrees ==
    [][\A r \in Proc : Dispatch(r) =>
          WhileLoop(mlq_ready_queue_slot, 2) =
              [proc |-> r, slot |-> mlq_ready_queue_slot']]_vars
=============================================================================
