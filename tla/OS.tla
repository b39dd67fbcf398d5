-------------------------------- MODULE OS --------------------------------
(***************************************************************************)
(* os.c: the CPU threads, the loader thread and the timer, composed of the *)
(* scheduler (Sched) and the slot barrier (SlotBarrier, which Timer shows  *)
(* timer.c to implement).                                                  *)
(*                                                                         *)
(* A step is a stretch of a thread's code with one access to something     *)
(* shared: a scheduler call, the counter cnt_proc_done, the flag done, or  *)
(* the barrier.  cnt_proc_done++ takes no lock, so it is a load and a      *)
(* store.  A thread that has called next_slot or detach_event takes no     *)
(* step until the barrier puts it back to work.                            *)
(*                                                                         *)
(* Of a process only the program counter is kept.  What an instruction     *)
(* does to memory matters here in one way: it may never return (VmArea's   *)
(* alloc_hang: a request for one byte).  So nothing forces run to end, and *)
(* the claims that need it say so (InstructionsReturn).  A crash in an     *)
(* instruction (Paging's crashed) ends all threads; the behaviours of this *)
(* module are those up to it.                                              *)
(***************************************************************************)
EXTENDS Sched, FiniteSets

CONSTANTS
    CPU,            \* the CPU threads
    ld,             \* the loader thread
    num_processes,  \* processes in the configuration file; Proc numbers them
    start_time,     \* start_time[p]: ld_processes.start_time
    size,           \* size[p]: proc->code->size
    time_slot,      \* length of a time slice
    TIME_MOD        \* see SlotBarrier

ASSUME ProcAssumption == num_processes \in Nat /\ Proc = 1 .. num_processes
ASSUME ThreadAssumption == ld \notin CPU /\ IsFiniteSet(CPU)
ASSUME CodeAssumption ==
    /\ start_time \in [Proc -> Nat]
    /\ size \in [Proc -> Nat]
    /\ time_slot \in Nat \ {0}

\* The clock, 64 bits wide, does not wrap while processes are being loaded.
ASSUME ClockAssumption ==
    /\ TIME_MOD \in Nat \ {0}
    /\ \A p \in Proc : start_time[p] + num_processes < TIME_MOD

VARIABLES
    time, state, ticking,   \* the barrier
    cpc,                    \* where each CPU is in cpu_routine
    proc, time_left,        \* its locals
    reg,                    \* the register in which it increments cnt_proc_done
    pc,                     \* proc->pc of each process
    completed,              \* the processes freed after their last instruction
    cnt_proc_done, done,    \* the flags of os.c
    ldpc, loaded,           \* where the loader is, and its local i
    ready_before            \* history: ready since before the slot began

cpuVars == <<cpc, proc, time_left, reg>>
ldVars == <<ldpc, loaded>>
vars == <<mlq_ready_queue, mlq_ready_queue_slot, exited, time, state, ticking,
          cpc, proc, time_left, reg, pc, completed, cnt_proc_done, done,
          ldpc, loaded, ready_before>>

Thread == CPU \cup {ld}

Barrier == INSTANCE SlotBarrier WITH Dev <- Thread

\* The processes in the ready queue.
Ready == UNION {{mlq_ready_queue[i][k] : k \in 1 .. Len(mlq_ready_queue[i])} : i \in Prios}

TypeOK ==
    /\ Barrier!BarrierTypeOK
    /\ mlq_ready_queue \in [Prios -> Seq(Proc)]
    /\ mlq_ready_queue_slot \in [Prios -> 0 .. MAX_PRIO]
    /\ exited \in BOOLEAN
    /\ cpc \in [CPU -> {"top", "idle", "count", "store", "swap", "recheck", "stopped"}]
    /\ proc \in [CPU -> Proc \cup {NULL}]
    /\ time_left \in [CPU -> 0 .. time_slot]
    /\ reg \in [CPU -> 0 .. num_processes]
    /\ pc \in [Proc -> Nat]
    /\ \A p \in Proc : pc[p] <= size[p]
    /\ completed \subseteq Proc
    /\ cnt_proc_done \in 0 .. num_processes
    /\ done \in BOOLEAN
    /\ ldpc \in {"load", "next", "detach", "ended"}
    /\ loaded \in 0 .. num_processes
    /\ ready_before \subseteq Proc

Init ==
    /\ init_scheduler
    /\ Barrier!BarrierInit
    /\ cpc = [c \in CPU |-> "top"]
    /\ proc = [c \in CPU |-> NULL]
    /\ time_left = [c \in CPU |-> 0]
    /\ reg = [c \in CPU |-> 0]
    /\ pc = [p \in Proc |-> 0]
    /\ completed = {}
    /\ cnt_proc_done = 0
    /\ done = FALSE
    /\ ldpc = "load"
    /\ loaded = 0
    /\ ready_before = {}

-----------------------------------------------------------------------------
(* cpu_routine *)

\* CPU c is at label l and not inside next_slot.
At(c, l) == ~exited /\ state[c] = "work" /\ cpc[c] = l

Goto(c, l) == cpc' = [cpc EXCEPT ![c] = l]

\* proc = get_proc().
get_proc(c) ==
    \E r \in Proc \cup {NULL} :
        /\ get_mlq_proc(r)
        /\ proc' = [proc EXCEPT ![c] = r]
        /\ ready_before' = ready_before \ {r}

\* No process is running: ask for one.
cpu_get(c) ==
    /\ At(c, "top")
    /\ proc[c] = NULL
    /\ get_proc(c)
    /\ Goto(c, IF proc'[c] = NULL THEN "idle" ELSE "recheck")
    /\ UNCHANGED <<time, state, ticking, time_left, reg, pc, completed,
                   cnt_proc_done, done, ldVars>>

\* Slip: a CPU waits for one process more than there are.
cpu_idle_one_more(c) ==
    /\ At(c, "idle")
    /\ IF cnt_proc_done > num_processes
       THEN Goto(c, "stopped") /\ Barrier!Leave(c)
       ELSE Goto(c, "top") /\ Barrier!Arrive(c)
    /\ UNCHANGED <<schedVars, proc, time_left, reg, pc, completed, cnt_proc_done,
                   done, ldVars, ready_before>>

\* There was none: stop if all processes are counted, else skip the slot.
cpu_idle(c) ==
    /\ At(c, "idle")
    /\ IF cnt_proc_done = num_processes
       THEN Goto(c, "stopped") /\ Barrier!Leave(c)
       ELSE Goto(c, "top") /\ Barrier!Arrive(c)
    /\ UNCHANGED <<schedVars, proc, time_left, reg, pc, completed, cnt_proc_done,
                   done, ldVars, ready_before>>

\* The process has run all its code.
Finished(c) == proc[c] # NULL /\ pc[proc[c]] = size[proc[c]]

\* Slip: the next process inherits what is left of the time slice.
cpu_finish_keeps_slice(c) ==
    /\ At(c, "top")
    /\ Finished(c)
    /\ completed' = completed \cup {proc[c]}
    /\ get_proc(c)
    /\ Goto(c, "count")
    /\ UNCHANGED <<time, state, ticking, time_left, reg, pc, cnt_proc_done, done, ldVars>>

\* free(proc), get the next one and start a new time slice.
cpu_finish(c) ==
    /\ At(c, "top")
    /\ Finished(c)
    /\ completed' = completed \cup {proc[c]}
    /\ get_proc(c)
    /\ time_left' = [time_left EXCEPT ![c] = 0]
    /\ Goto(c, "count")
    /\ UNCHANGED <<time, state, ticking, reg, pc, cnt_proc_done, done, ldVars>>

\* cnt_proc_done++: the load ...
cpu_count(c) ==
    /\ At(c, "count")
    /\ reg' = [reg EXCEPT ![c] = cnt_proc_done]
    /\ Goto(c, "store")
    /\ UNCHANGED <<schedVars, time, state, ticking, proc, time_left, pc, completed,
                   cnt_proc_done, done, ldVars, ready_before>>

\* ... and the store.
cpu_store(c) ==
    /\ At(c, "store")
    /\ cnt_proc_done' = reg[c] + 1
    /\ Goto(c, "recheck")
    /\ UNCHANGED <<schedVars, time, state, ticking, proc, time_left, reg, pc,
                   completed, done, ldVars, ready_before>>

\* The time slice is over: put the process back ...
cpu_put(c) ==
    /\ At(c, "top")
    /\ proc[c] # NULL
    /\ ~Finished(c)
    /\ time_left[c] = 0
    /\ put_mlq_proc(proc[c])
    /\ Goto(c, "swap")
    /\ UNCHANGED <<time, state, ticking, proc, time_left, reg, pc, completed,
                   cnt_proc_done, done, ldVars, ready_before>>

\* Slip: a preemption is counted like a completion.
cpu_swap_counts(c) ==
    /\ At(c, "swap")
    /\ get_proc(c)
    /\ Goto(c, "count")
    /\ UNCHANGED <<time, state, ticking, time_left, reg, pc, completed,
                   cnt_proc_done, done, ldVars>>

\* Slip: the process put back is run on, although it is in the ready queue.
cpu_swap_keeps(c) ==
    /\ At(c, "swap")
    /\ Goto(c, "recheck")
    /\ UNCHANGED <<schedVars, time, state, ticking, proc, time_left, reg, pc, completed,
                   cnt_proc_done, done, ldVars, ready_before>>

\* ... and get the next one.
cpu_swap(c) ==
    /\ At(c, "swap")
    /\ get_proc(c)
    /\ Goto(c, "recheck")
    /\ UNCHANGED <<time, state, ticking, time_left, reg, pc, completed,
                   cnt_proc_done, done, ldVars>>

\* No process to run and none will come: exit.
cpu_stop(c) ==
    /\ At(c, "recheck")
    /\ proc[c] = NULL
    /\ done
    /\ Goto(c, "stopped")
    /\ Barrier!Leave(c)
    /\ UNCHANGED <<schedVars, proc, time_left, reg, pc, completed, cnt_proc_done,
                   done, ldVars, ready_before>>

\* No process to run in this slot.
cpu_skip(c) ==
    /\ At(c, "recheck")
    /\ proc[c] = NULL
    /\ ~done
    /\ Goto(c, "top")
    /\ Barrier!Arrive(c)
    /\ UNCHANGED <<schedVars, proc, time_left, reg, pc, completed, cnt_proc_done,
                   done, ldVars, ready_before>>

\* The process goes on in its time slice: no scheduler call in this slot.
Continues(c) ==
    /\ At(c, "top")
    /\ proc[c] # NULL
    /\ ~Finished(c)
    /\ time_left[c] # 0

\* Slip: the end of the code is not looked at.
run_unchecked(p) == pc' = [pc EXCEPT ![p] = @ + 1]

\* run: execute one instruction, if there is one.  This is the end of it: an
\* instruction that never returns is one after which the CPU takes no step.
run(p) == pc' = [pc EXCEPT ![p] = IF @ < size[p] THEN @ + 1 ELSE @]

\* Dispatch the process if it is new on this CPU, run it for the slot.
cpu_run(c) ==
    /\ At(c, "recheck") \/ Continues(c)
    /\ proc[c] # NULL
    /\ run(proc[c])
    /\ time_left' = [time_left EXCEPT ![c] = (IF @ = 0 THEN time_slot ELSE @) - 1]
    /\ Goto(c, "top")
    /\ Barrier!Arrive(c)
    /\ UNCHANGED <<schedVars, proc, reg, completed, cnt_proc_done, done, ldVars,
                   ready_before>>

\* What cpu_routine does itself, between two instructions.
cpu_own(c) ==
    \/ cpu_get(c) \/ cpu_idle(c)
    \/ cpu_finish(c) \/ cpu_count(c) \/ cpu_store(c)
    \/ cpu_put(c) \/ cpu_swap(c)
    \/ cpu_stop(c) \/ cpu_skip(c)

cpu_routine(c) == cpu_own(c) \/ cpu_run(c)

-----------------------------------------------------------------------------
(* ld_routine *)

LdAt(l) == ~exited /\ state[ld] = "work" /\ ldpc = l

\* The next process does not start yet: wait for the next slot.
ld_wait ==
    /\ LdAt("load")
    /\ loaded < num_processes
    /\ time < start_time[loaded + 1]
    /\ Barrier!Arrive(ld)
    /\ UNCHANGED <<schedVars, cpuVars, pc, completed, cnt_proc_done, done, ldVars,
                   ready_before>>

\* add_proc, and i++.
ld_add ==
    /\ LdAt("load")
    /\ loaded < num_processes
    /\ time >= start_time[loaded + 1]
    /\ add_mlq_proc(loaded + 1)
    /\ loaded' = loaded + 1
    /\ ldpc' = "next"
    /\ UNCHANGED <<time, state, ticking, cpuVars, pc, completed, cnt_proc_done, done,
                   ready_before>>

\* Slip: the loader goes on in the same slot.
ld_next_no_slot ==
    /\ LdAt("next")
    /\ ldpc' = "load"
    /\ UNCHANGED <<schedVars, time, state, ticking, cpuVars, pc, completed,
                   cnt_proc_done, done, loaded, ready_before>>

\* The slot after a process was loaded.
ld_next ==
    /\ LdAt("next")
    /\ ldpc' = "load"
    /\ Barrier!Arrive(ld)
    /\ UNCHANGED <<schedVars, cpuVars, pc, completed, cnt_proc_done, done, loaded,
                   ready_before>>

\* All processes are loaded: done = 1 ...
ld_done ==
    /\ LdAt("load")
    /\ loaded = num_processes
    /\ done' = TRUE
    /\ ldpc' = "detach"
    /\ UNCHANGED <<schedVars, time, state, ticking, cpuVars, pc, completed,
                   cnt_proc_done, loaded, ready_before>>

\* ... and detach_event.
ld_detach ==
    /\ LdAt("detach")
    /\ ldpc' = "ended"
    /\ Barrier!Leave(ld)
    /\ UNCHANGED <<schedVars, cpuVars, pc, completed, cnt_proc_done, done, loaded,
                   ready_before>>

ld_routine == ld_wait \/ ld_add \/ ld_next \/ ld_done \/ ld_detach

-----------------------------------------------------------------------------
(* The timer thread, and main's stop_timer after it joined the others. *)

tick ==
    /\ ~exited
    /\ Barrier!Tick
    /\ ready_before' = Ready
    /\ UNCHANGED <<schedVars, cpuVars, pc, completed, cnt_proc_done, done, ldVars>>

stop ==
    /\ ~exited
    /\ Barrier!Stop
    /\ UNCHANGED <<schedVars, cpuVars, pc, completed, cnt_proc_done, done, ldVars,
                   ready_before>>

\* The program has ended, by itself or by exit(1): that is no deadlock.
Terminated == (exited \/ ~ticking) /\ UNCHANGED vars

Next ==
    \/ \E c \in CPU : cpu_routine(c)
    \/ ld_routine
    \/ tick
    \/ stop
    \/ Terminated

Safety == Init /\ [][Next]_vars

(***************************************************************************)
(* Every thread runs on whenever it can, and the timer does what           *)
(* SlotBarrier promises: an operating system runs each of its threads.  A  *)
(* CPU that is executing an instruction is not promised to come back.      *)
(***************************************************************************)
Spec ==
    /\ Safety
    /\ \A c \in CPU : WF_vars(cpu_own(c))
    /\ WF_vars(ld_routine)
    /\ WF_vars(tick)
    /\ WF_vars(stop)

-----------------------------------------------------------------------------
(* Properties *)

\* CPU c owns process p: from get_proc to put_proc or free.
Holds(c, p) == proc[c] = p /\ cpc[c] # "swap"

(***************************************************************************)
(* A process is in one place at a time (os.c:59-113): waiting to be        *)
(* loaded, in the ready queue, on one CPU or completed.  No two CPUs ever  *)
(* run the same pcb_t, and none runs one that was freed.                   *)
(***************************************************************************)
OnePlace ==
    ~exited => \A p \in Proc :
        LET queued == {x \in Prios \X (1 .. MAX_QUEUE_SIZE) :
                          /\ x[2] <= Len(mlq_ready_queue[x[1]])
                          /\ mlq_ready_queue[x[1]][x[2]] = p}
            held == {c \in CPU : Holds(c, p)}
            loading == {p} \ (1 .. loaded)
            freed == completed \cap {p}
        IN  Cardinality(queued) + Cardinality(held) + Cardinality(loading)
                + Cardinality(freed) = 1

(***************************************************************************)
(* Work conservation (os.c:62-76, 85-102): a CPU passes a slot idle only   *)
(* if every process that was ready when the slot began has been given to   *)
(* another CPU.                                                            *)
(***************************************************************************)
WorkConserving ==
    \A c \in CPU : ~exited /\ state[c] = "arrived" /\ proc[c] = NULL => ready_before = {}

(***************************************************************************)
(* CPUs retire in time and never too early (os.c:68-72, 94-97): when one   *)
(* has stopped, each unfinished process still has a CPU to run on, so the  *)
(* last CPU stops after the last process.                                  *)
(***************************************************************************)
CPUsSuffice ==
    (\E c \in CPU : cpc[c] = "stopped") =>
        Cardinality(Proc \ completed) <= Cardinality({c \in CPU : cpc[c] # "stopped"})

(***************************************************************************)
(* cnt_proc_done++ without a lock (os.c:84) may lose increments but never  *)
(* counts a process that has not completed, so no CPU stops on it early.   *)
(***************************************************************************)
CounterNotAhead == cnt_proc_done <= Cardinality(completed)

(***************************************************************************)
(* A process that gets a CPU starts a time slice of its own (os.c:83,      *)
(* 103-107): between get_proc and run, no slice is left over.              *)
(***************************************************************************)
FreshSlice ==
    \A c \in CPU : cpc[c] \in {"idle", "count", "store", "swap", "recheck"} => time_left[c] = 0

\* Every instruction that a CPU starts comes to its end.
InstructionsReturn == \A c \in CPU : WF_vars(cpu_run(c))

(***************************************************************************)
(* If every instruction returns, then every process of the configuration   *)
(* is run to its end (os.c:51-116), unless a ready queue overflows.        *)
(***************************************************************************)
Completion == InstructionsReturn => <>(completed = Proc \/ exited)

(***************************************************************************)
(* Nothing but a lost increment keeps the simulator from ending (os.c:68): *)
(* once every process is counted all CPUs stop, each at one of its two     *)
(* tests, whatever it was doing, and then the timer.                       *)
(***************************************************************************)
EndsWhenCounted == cnt_proc_done = num_processes ~> (~ticking \/ exited)

(***************************************************************************)
(* If every instruction returns, the simulator ends, the purpose of        *)
(* cnt_proc_done: "for setting stop condition for CPU when all processes   *)
(* have been completed" (os.c:17).                                         *)
(***************************************************************************)
Termination == InstructionsReturn => <>(~ticking \/ exited)

(***************************************************************************)
(* README.md:14 says of a process whose priority has 2 slots that "after 2 *)
(* time slots it must be put back in ready queue, although P1 still has 1  *)
(* time slot left in its time slice": a process keeps a CPU for at most as *)
(* many slots as its queue has dispatches.                                 *)
(***************************************************************************)
SlotsLimitSlice ==
    \A c \in CPU : state[c] = "arrived" /\ proc[c] # NULL =>
        time_slot - time_left[c] <= quota(prio[proc[c]])
=============================================================================
