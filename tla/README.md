# A TLA+ model of OS-sim

OS-sim is a simulator of a small operating system: CPU threads run processes
from a multi-level ready queue in time slots that a timer thread hands out, a
loader thread brings the processes in, and each process has a paged virtual
memory with a stack and a heap. This project models the threads and their
synchronisation, the scheduler, the virtual memory areas, and the paging of
their pages between RAM and swap; it model-checks them with TLC and proves the
most important invariants of the timer, the scheduler, the CPU threads and the
paging with TLAPS for every number of devices, CPUs, processes, priorities,
frames and slots.

Source paths below are relative to the repository root; the build is the one
that `include/os-cfg.h` selects (`MLQ_SCHED`, `MM_PAGING`,
`MM_PAGING_HEAP_GODOWN`, `SYNC`, `LRU`).

## The system

| Part | State | Operations | Talks to | Hard behaviour |
|---|---|---|---|---|
| Timer, `src/timer.c` | device list with `done`, `fsh`, two locks and two conditions per device; `_time`; `timer_started`, `timer_stop` | `attach_event`, `start_timer`, `timer_routine`, `next_slot`, `detach_event`, `current_time`, `stop_timer` | one device per CPU and one for the loader; `main` | `done` is set under one lock and cleared under another; threads leave while the timer counts; the list is freed at the end |
| Queues, `src/queue.c` | array of at most 10 processes | `empty`, `enqueue`, `dequeue` | scheduler | a full queue calls `exit(1)` |
| Scheduler, `src/sched.c` | one queue and one slot count per priority, `queue_lock` | `init_scheduler`, `init_slot`, `get_mlq_proc`, `put_mlq_proc`, `add_mlq_proc` | CPUs and loader | fairness between priorities; a loop under the lock that must end |
| CPU threads, `src/os.c` `cpu_routine` | `proc`, `time_left`; shared `cnt_proc_done` | get, run, preempt, finish, idle, stop | scheduler, timer, `run` | increments without a lock; when to stop |
| Loader thread, `src/os.c` `ld_routine` | next process; shared `done` | wait for the start time, add, announce `done` | timer, scheduler, `load` | `done` races with CPUs that find no process |
| `main`, `read_config` | configuration | start and join the threads | all | order of start and stop |
| Virtual memory areas, `src/mm-vm.c`, `src/mm.c` | per process: `sbrk`, `vm_end`, free regions of two areas, symbol table | `pgalloc`, `pgmalloc`, `pgfree_data`, `pgread`, `pgwrite` | paging | inclusive ends, an area that grows down, signed and unsigned arithmetic, cutting up free regions |
| Frames, page table, swap, LRU, `src/mm.c`, `src/mm-vm.c`, `src/mm-memphy.c` | PTEs, free frame lists of RAM and swap, global LRU list | `vm_map_ram`, `pg_getpage`, `__alloc` of a free region, `__swap_cp_page`, `find_LRU_victim_page`, `add_LRU_page`, `update_LRU_lst` | shared by all CPUs | victims of other processes, locks per translation unit, exhausted swap |
| Interpreter `src/cpu.c`, loader `src/loader.c` | program counter, code | `run`, `load` | memory | an instruction may never return, or crash |
| `src/mem.c`, `src/paging.c` | contiguous memory of an older version | | not called in this build | |

What makes each part correct:

* timer: no wake-up is lost, the clock moves only between slots, waiting ends,
  nothing is used after it is freed; together these make it a *barrier*;
* scheduler: no process is lost or duplicated, none is starved, the simulator
  exits only for a queue that really is overrun;
* CPU and loader threads: a process is in one place, no CPU idles beside a ready
  process, every process completes if its instructions return, the simulator ends;
* memory areas: no byte is handed out twice, every byte handed out is mapped,
  accesses stay inside their region, freed space can be used again;
* paging: a frame has one owner, the LRU list names the pages in RAM, a swap
  slot is free or holds a page, an access hits the frame its page is in, a page that comes back
  from swap is the one that went out, and no failure leaves a mutex locked.

`PROJECT.json` lists the hazards of the code at their lines with the
properties that would catch them.

## Modules

    SlotBarrier        what the timer promises (abstract)
       ^  implements          ^  used by
    Timer              OS ---- Sched          VmArea ...... Paging
      MCTimer           MCOS      SchedEnv      MCVmArea      MCPaging
      TimerProofs       OSProofs  MCSched       VmAreaProofs  PagingProofs
                                  SchedProofs                 AccessProofs

Definitions carry the names of the functions they model. A definition whose
comment begins with "Slip" is a plausible mistake in the definition that follows
it; the list of mutants in `PROJECT.json` says which property it must break.

**SlotBarrier** is the specification of a time slot: each device is at work, has
arrived, or is gone; when none is at work the clock ticks and those that have
arrived go back to work; when all are gone the clock may stop.

**Timer** is `timer.c` with one action per critical section. A thread that calls
`pthread_cond_wait` goes to "asleep" and releases the lock in the same step, a
signal wakes it if it sleeps, and it may wake up spuriously. `dev_list` is the
number of devices attached: `attach_event` pushes at the head, so walking the
list counts down. `slot_state` is the refinement mapping to SlotBarrier: from
`_time++` on, every device counts as back at work, although the second loop
clears its `done` only later.

**Sched** is `sched.c` with the operations of `queue.c`. Each operation holds
`queue_lock` throughout and is atomic. `get_mlq_proc` is in closed form: the
slots used are the current ones, or those of `init_slot` if no non-empty queue
has any left; MCSched has the loop as it is written and checks that they agree.
**SchedEnv** adds the least restrictive callers and two history variables that
count, for each waiting process, the refills and the dispatches from each queue
since it was enqueued.

**OS** composes the scheduler (by EXTENDS) and the barrier (by INSTANCE) with
`cpu_routine` and `ld_routine`. Each step accesses at most one shared thing, so
`cnt_proc_done++` is a load and a store. Of `run` only the program counter is
kept; `cpu_run` is the end of an instruction and is not forced to happen, since
an instruction may loop for ever (VmArea's `alloc_hang`). `ready_before` is a history variable: the processes that have been ready
since before the slot began. `stop` stands for the timer thread that ends when
all devices have left; `main` then joins it.

**VmArea** is the virtual memory of one process, in which a process is
sequential. `pgd` is the set of pages that have a page table entry, `dirty` the
set of addresses written since they were zeroed. `get_free_vmrg_area` is in
closed form (how many pieces its loop cuts off each region, which one it
returns, whether it ends), checked in MCVmArea against the loop. Return codes
are left out: `run` returns them to `cpu_routine`, which does not look at them.

**Paging** is what happens below the areas, for all processes and CPUs at once.
VmArea decides which pages an instruction is about; here they are chosen
freely, in the ways VmArea allows: pages are reserved in order and mapped by
`vm_map_ram`, and a process in `Hole` has the heap page without an entry that
`vm_heapmap` finds. `job[p]` is the instruction of `p` in the current slot: where
its CPU is and the locals that outlive a step. CPUs are only counted, since it
makes no difference which one runs a process. A step has one access to
something shared, as the table shows; `tick` is the slot barrier.

| Code | Actions |
|---|---|
| `pg_getpage` | `getpage` (lock, entry), `frame` or `frame_none`, `victim`, `slot` or `slot_none_getpage`, `evict`, `enter`, `found` (LRU, unlock) |
| `pg_getval`, `pg_setval` after `pg_getpage` | `touch` |
| `__read`, `__write`, `__free` | `readwrite`, `region`, and `update` at the end of the first two |
| `vm_map_ram` | `inc_vma_limit`, `map_lock`, `map_frame` or `map_frame_none`, `victim`, `slot` or `slot_none_map`, `evict`, `map_page` |
| `__alloc` of a free region | `region`, `reuse`, `victim`, `slot` or `slot_none_reuse`, `evict`, `reuse_enter`, `reuse_put`, `reuse_update` |

An entry keeps the bits PRESENT and SWAPPED and the low 13 bits, in which the
frame number and the swap place overlap; `PAGING_PTE_FPN` reads them in both
cases, as the code does. `MEM_in_use` has one mutex per file, because it is static in
`mm.h`; `LRU_lock` is used in `mm-vm.c` only and makes each list operation atomic.
`crashed` means that a null, wild or uninitialized pointer was used: what
follows is undefined, nothing more is said about it, and the properties speak
about the states before. `Watched` are the processes whose data is followed, and
`Mixed` says which instructions may overlap in a slot: all, or only accesses with
accesses and mappings with mappings.

## Runs

All runs finish within a minute.

| Run | Instance | Result |
|---|---|---|
| `timer` | 3 devices, a clock that wraps at 3 | all seven properties hold, ImplementsBarrier and the two liveness properties included |
| `sched` | 4 processes, one of priority 0 and three of priority 1 with room for 2 in their queue, 1 CPU | holds; refills, both kinds of overtaking, two processes in one queue and the exit occur |
| `os_safety` | 3 CPUs, 4 processes (sizes 4, 1, 3, 0; starts 0, 0, 1, 4), slice 2 | holds, Completion and EndsWhenCounted included: if instructions return all processes complete, and unless an increment is lost the simulator then ends; simultaneous completions, preemption, late loading, idle CPUs and both ways to stop occur |
| `os_hang` | 2 CPUs, 2 processes | **violated**: a lost increment keeps a CPU polling for ever, although instructions return |
| `os_slots` | README's `test_sched_slot` | **violated**: slots count dispatches, not time slots |
| `vm_regions` | 12 bytes, pages of 4, 2 variables, sizes 1, 2, 5 and 14, accesses at offset 2 | holds, WritePrivate included; regions cross pages, are cut into several pieces and reused, accesses inside and beyond a region and requests that never return occur |
| `paging` | 2 CPUs, 2 processes with 2 pages each and one unmapped heap page, 2 frames, 2 slots, no mixing | all seven properties hold, InstructionEnds included; victims of the other process, swapping in, full swap and all three ways to crash occur |
| `vm_heapmap` | 16 bytes | **violated**: a heap variable on a page without an entry |
| `vm_apart` | 16 bytes, 3 variables | **violated**: a stack and a heap variable overlap |
| `vm_overflow` | 24 bytes, 8-bit int | **violated**: an overlap is reported where there is none |
| `paging_swapin` | the same with 1 CPU | **violated**: a page comes back from swap with another page's bytes |
| `paging_locks` | the same with 2 CPUs, mixing | **violated**: two pages share a frame |

The violated runs state what a comment, a message or the repository's README
says; the findings in `PROJECT.json` quote it. The overlap error of `vm_overflow`
needs only that `vmemsz` squared exceeds the range of an int, which the real
3145728 does, by far more than 24 exceeds the root of 256.

In `paging_swapin` a slot number is read with the mask of a frame number: slot
`n` is read as `32 n` modulo 8192 (`2 n` modulo 4 in the instance). The number
that was read is also the one that is put back on the free list, so the page's own slot
is lost to the device, and the other one may be free and in use at once, to be
overwritten by the next victim: DataKept forbids this too, but the shortest
counterexample is a page with another's bytes. The free list thus is *long* enough
(OutOfSwapJustified in `paging`) but may name the wrong slots. With entries that keep
slot numbers unchanged (`SWPOFF_UNIT = 1`) DataKept holds in this instance. In `paging_locks`, `pg_getpage` has found its page present when `vm_map_ram` on the other
CPU, under the other mutex, takes that page as its victim. `add_LRU_page` then puts the
evicted page back on the list with the frame it had; when that node comes to the
head, its frame is given away a second time.

More disagreements are part of the models and have no run of their own. A
request for one byte never returns: the "dummy, size 0 region"
(`src/mm-vm.c:1209`) has room for it in every iteration; so does, by an unsigned
subtraction, a heap request larger than the addresses below a region's start
(`LoopsForever`, which FreeLoopAgrees compares with the loop). `__free` says "set
all byte memory NULL" (`src/mm-vm.c:722`) and leaves the last byte of a stack region
and every byte of a heap region (`Zeroed`). An offset beyond a heap region's start
address passes the test for "offset out of region range" (`src/mm-vm.c:944`;
`InRange`). What `get_free_vmrg_area` cuts off a free region while it walks on is
not put back anywhere (`src/mm-vm.c:1187`), so free space is lost. In Paging: a victim
that is not evicted because swap is full stays in its frame but not on the list
(`slot_none_getpage`), which is why LruExact names all pages only until swap has run
out; when the list has become empty the next replacement or update uses an
uninitialized or null pointer; `__alloc` updates the list with the copy of an entry
that it has since replaced, so a page of another process may move
(`reuse_update`); and in `alloc_pages_range` the search for another swap device
(`src/mm.c:196`) follows a wild pointer (`slot_none_map`).

Bounds. The timer has as many devices as the simulator has CPUs plus one; three
give a first, a middle and a last element of the list and any two that
disagree. Two priorities give a quota of 1 and of 2, so that refills come
before and after a queue is empty; several CPUs call the scheduler in OS, and
the theorems hold for any number of them. Sizes and starting times in OS are chosen so that processes can finish in the same
slot, before and after the loader ends. The areas have three pages, so that
regions cross a page boundary, both areas grow and meet, and free regions
hold zero, one and two pieces. Paging has more than twice as many pages as frames,
more than frames and slots together hold, so that every replacement has a
victim of either process, swap fills up, and the list becomes empty; two CPUs
give every pair of overlapping steps. `FPN_MOD` and `SWPOFF_UNIT` are 8192 and 32
in the program, 2 and 2 in `paging`, 4 and 2 in the other runs: both times a slot other than 0 is read as
another one. `TIME_MOD` is 2^64 in the program: in Timer it is
small so that it wraps, in OS it is large enough that the loader's comparison
does not see it wrap. `INT_MOD` is 2^32 in the program; except in `vm_overflow`
it is beyond every product that occurs.

Deadlock is checked in all runs. `Terminated`, `Exited`, `Hung` and `Crashed` mark the states
in which the program is over or stuck in the modelled way.

## Fairness

Every thread is scheduled by the operating system: weak fairness of `main`, of
the timer and of each device or CPU thread. In Timer a device is fair in *some* next
call (`next_slot` or `detach_event`), never in a particular one: an
iteration of `cpu_routine` and `ld_routine` comes to one of them if the instruction
it executes returns. `NextSlotReturns` and `StopTimerReturns` assume that. A device at work
that never calls again, like a CPU in the endless loop of `get_free_vmrg_area`,
keeps all others waiting.
Spurious wake-ups are never forced. In SchedEnv a process on a CPU is put back
or finished (its time slice ends) and some idle CPU asks for a process, because
`cpu_routine` does so in every slot, again if instructions return. OS does not assume
it: `cpu_run`, the end of an instruction, has no fairness in the specification,
and Completion and Termination name the assumption in the formula (`InstructionsReturn`).
EndsWhenCounted needs none, as no process is left by then. In OS fairness of `tick` and `stop` is what
SlotBarrier's own specification states, and `timer` shows that `timer.c`
implements it; a device that never calls again stays at work, and then neither of
them is enabled. In Paging each process that runs has weak fairness of its next
step: its CPU thread is scheduled. A mutex is not assumed to be fair; within a slot
the other CPUs take it only a bounded number of times. No instruction is ever
forced to start.

## Proofs

**TimerProofs** (any `N`, any `TIME_MOD`). The inductive invariant adds to the type
invariant: until `start_timer` nothing runs; a device's `done` is set exactly
between `next_slot` and its release, and stays set in the part of the list that the
timer has passed in the first loop or not yet reached in the second; `fsh` is set
exactly for the devices that are gone; the counters count the part of the list that
was passed; nobody sleeps on a condition that holds; and `timer_stop` is set only
when all have gone. None of the properties is inductive alone: that a
wake-up is not lost needs to know which devices the timer has passed, and that the
clock is stable needs that each of them has arrived or left. From it follow
`TypeCorrect`, `WakeupsKept`, `FreedLast`, `ClockStable`, and `Refinement`:
the safety part of SlotBarrier holds of `timer.c` under the mapping, each
action being a step or a stutter of the barrier.

**SchedProofs** (any processes, priorities below `MAX_PRIO`, capacity and number of
CPUs). `IInv` consists of the type invariant, the exactness of the queues in
two parts, and three facts about a waiting process: a process at place `k` has had
at most `MAX_QUEUE_SIZE - k` predecessors served (`PlaceInv`), each refill
happened only because its own queue had used up its quota (`RefillInv`), and a queue
was served at most its quota for every refill, less what it has left (`ServedInv`).
`TypeCorrect`, `QueuesExactAlways` and `OvertakingBounded` follow; the bound on
refills is the quotient of the places ahead by the quota. `ExitAlwaysJustified`
is proved beside it: when `enqueue` gives up, the full queue and the process that
did not fit map the numbers up to `MAX_QUEUE_SIZE + 1` one-to-one into the ready processes of
that priority.

**OSProofs** (any CPUs, processes, sizes, starting times and slice). `IInv` has one
part per question. `StateInv` ties each thread's place in its code to what the
barrier says of it. `PlaceInv` says that a loaded process is queued, on one CPU or
completed; OnePlace is a count and not inductive, so `OnePlaceAlways` derives the count
from it. `CountInv` reserves room for every CPU in `Pending`, which has completed a
process and not counted it: the load and the store of `cnt_proc_done++` are both covered,
since the register of each CPU leaves that room too (`CounterNeverAhead`). `WorkInv`
extends the claim of WorkConserving to a CPU that was told that the queue is
empty and has not yet reached `next_slot`, and says that what is in `ready_before`
is still queued (`WorkConservation`). `EnoughInv` is about the CPUs in `Leaving`: such a CPU
saw an empty queue after the last process was loaded, so each unfinished process was
on another CPU, an injection from processes to the CPUs that stay
(`CPUsAlwaysSuffice`). `SlicesFresh` needs that a CPU without a process has no
slice.

**PagingProofs** (any CPUs, processes, pages, frames and slots). `BaseInv` holds for every
workload, mixed ones included: the types of jobs and lists, which instruction can be
at which label, that its pages are different reserved pages of its own process, how many
frames `alloc_pages_range` has collected, that what is read from an absent entry is a slot,
and that each mutex is held by exactly the CPU inside (`MutexAlwaysExact`). The other
theorems are for workloads that are not mixed (`ASSUME ~Mixed`), as `paging_locks` shows
that FrameOwner is false otherwise. Then `ClassInv` and the mutexes leave one CPU at a time in
the part of the code that uses frames, slots or victims (`Alone`), and `MemInv` relates what
that CPU has in hand to page tables and lists:

* present pages are in frames of their own that are not free (`PresentInv`), and
  frames in hand are neither free nor used by a page (`MapInv`, `VictimInv`), so no frame
  has two owners; `OwnedInv` says that each has one (`FramesOwned`);
* the page that was asked for stays absent until it gets its frame
  (`NeedInv`), and a victim stays present and off the list until it is evicted
  (`VictimInv`). Both are needed for the LRU list: `add_LRU_page` looks for the frame number,
  and finds the right page only because no other page has that frame (`LruAlwaysExact`);
* pages that are to be mapped were never mapped before (`FreshInv`, `MapInv`), so mapping
  never overwrites the entry of a page in swap;
* `SlotInv` counts entries of the free list and pages swapped out, whichever slots they
  are, which is enough for `OutOfSwapAlwaysJustified`: who finds the list empty is alone, and
  no entry is on its way. `pg_getpage` puts nothing back when it uses a free frame; the second
  part is the reason why the list does not get shorter that way: as long as RAM has a
  free frame, no slot has been used for good;
* when swap has run out for good the list may have lost victims, which is why `CoverInv`
  depends on a slot that is free or still to come back.

`MemInv` is claimed until the program has crashed. `TypeCorrect` holds in crashed
states too. TLC checked each inductive invariant as an invariant of the
instances above before it was proved.

**AccessProofs** (as PagingProofs, `ASSUME ~Mixed`). `pg_getpage` gives the mutex back before
`pg_getval` or `pg_setval` uses the frame it returned. The page has just been moved to the end of the
LRU list, and AccessFresh says that the other CPUs cannot make it a victim before the slot ends if
NFrames exceeds (NCPU - 1) times the size of each of their instructions. `AccessInv` counts, for a CPU p at
`touch`: the frames that are neither free nor ahead of p's page on the list (`Taken`) and the CPUs
that may still move a node to the end without asking for a page (`Due`) are together no more than the
pages that the other CPUs have asked for (`Tokens`).

* When the page is moved to the end, nothing is taken but what the one CPU inside
  `pg_getpage` has in hand (`OneInHand`, `RefreshFacts`); this needs `OwnedInv` and `CoverInv`.
* A step takes a frame, or becomes due, only if it spends a page (`StepSpent`) or was due
  (`VictimStep`, `FrameStep`, `FoundStep`, `UpdateStep`); the `...Order` lemmas say what each list operation does to
  the order of the other nodes.
* A CPU that looks for a victim has a page left to spend, so the others have spent less than all
  frames but that of p, and the head of the list is not p's page (`TokensBound`, `HeadSafe`).

Two cases are not covered by the count. `update_LRU_lst` at the end of an access whose own page
was evicted in the meantime looks up a slot number and may move any node, that of p included; then the
count starts anew. And when swap is full for good (`Exhausted`) the list loses nodes, but no page
is evicted any more.

**VmAreaProofs** (any page size, sizes of memory and bus, variables and requests). `IInv`
compares regions by their ends in the order of the addresses, so that one argument serves
both areas. Live and free regions of an area are clear of each other (`ClearInv`): a new
region is the last piece cut off a free region, with what is left of that one
behind it (`LeftFacts`, `FoundFacts`), or lies beyond the border (`CommitFacts`), and
everything handed out before is behind the border (`UsedInv`). The free list after a search
consists of cut regions of the old one, none of them twice (`FreeListFacts`, on top of
`AscendingFacts`). The heap's border is special: its first region includes the address of the
border and later ones do not, which is sound because live regions have two
bytes or more (`LiveInv`; a request for one byte never returns). From these follow `RegionsDisjoint`,
`AlwaysBehindBorder`, `TypeCorrect` and the action properties `LengthsExact` and
`WritesPrivate`. `StackAlwaysMapped` rests on `BorderInv` and `StackReserved`: the stack's end is a
whole number of pages, all pages below it are mapped, and the pages that `inc_vma_limit` adds are
exactly those up to the new end (`GrowStack`). `WritePrivate` speaks of offsets up to
`BUSSZ - vmemsz` (1 MiB with the 3 MiB of the repository's configurations): a larger one
passes the range test of the heap, wraps around and may hit another variable.

The assumptions are the named ASSUMEs of Timer, Sched, SchedEnv, OS, VmArea and Paging: at least one
device, positive sizes, every priority below `MAX_PRIO` (the program does not
validate that one), finitely many processes and CPUs, the loader's thread is
none of the CPUs; in VmArea that the virtual memory and the bus range are whole numbers of
pages, the bus range being no smaller, and that sizes are positive; in Paging the field widths, the bound on a request named
above, and more than one frame in RAM and in swap.

Model-checked only: all liveness properties (fairness is out of the prover's
reach) and with them the fairness part of ImplementsBarrier; and the agreement of the two
closed forms with their loops (recursive definitions).

## Assumptions and omissions

* `time_slot` is at least 1 (with 0 no process is ever preempted) and every
  priority is below `MAX_PRIO`.
* Requests have a positive size below 2^31, offsets are not negative and below
  2^31. Memory from `malloc` for a new process is taken as zeroed: its symbol table, its
  page directory, and the heads of the free lists, which `init_mm` uses before it sets
  them (`src/mm.c:351`, `366`).
* A variable's number is below `PAGING_MAX_SYMTBL_SZ`. The tests at `src/mm-vm.c:261` and
  `704`, which let the number itself pass, are left out.
* Instructions return, where a property says so: Completion and Termination by `InstructionsReturn`,
  the liveness of Timer and of SchedEnv by their fairness. It is false of a program with
  `alloc 1 r` (VmArea's `alloc_hang`, `src/mm-vm.c:1209`): its CPU never comes back
  and the simulator stops. InstructionEnds in Paging is about what comes after
  `get_free_vmrg_area`, which VmArea models.
* A crash in an instruction (`crashed` in Paging: an empty LRU list, or swap found full while
  mapping) ends the whole program. OS describes the simulator up to it, and its liveness
  properties are about executions without one.
* Writes that wrap around below address 0 hit the address left after masking to
  the bus; `vm_regions` uses an offset that does not wrap back into the virtual
  memory.
* VmArea takes every mapping to succeed. The rollback at `src/mm-vm.c:1115` is
  reached only if `alloc_pages_range` finds all swap devices full, and its search for
  another device (`src/mm.c:196`) uses a wild pointer before it can say so.
* In Paging a request is for at most as many pages as RAM has frames, as the
  comment at `src/mm.c:262` asks; RAM and swap have at least two frames, RAM at most
  8192. With one frame, as in `input/test_rw` (RAM of 256 bytes), `MEMPHY_format` leaves
  the end of the free list uninitialized (`src/mm-memphy.c:142`), and what the second
  `MEMPHY_get_freefp` finds is undefined.
* The end of `pg_getpage` (`src/mm-vm.c:324-329`: LRU list, second read of the entry, unlock) is
  one step (`found`). With mixed instructions a mapping on another CPU could come in between.
* AccessFresh and FrameOwner are claimed for instructions of one kind at a time;
  with mixed instructions both fail, for the reason `paging_locks` shows.
  AccessFresh also needs that the instructions of the other CPUs cannot go through all
  frames in one slot.

### Not modelled

* `read_config` and `load`: they read files once, sequentially, and keep no state.
* The values of bytes and the copying loop of a frame: only whose bytes a
  frame holds is kept. The sequential devices (`MEMPHY_mv_csr`, `MEMPHY_seq_*`): `main`
  makes every device random access.
* The FIFO branch (`LRU` undefined) and `MM_FIXED_MEMSZ`: not in this build.
* `src/mem.c`, `src/paging.c`, `free_pcb_memph`, `alloc` and `free_data` of the
  contiguous memory: not called in this build.
* Everything that only prints, `RAM_dump` and its unlocked walk of the free list
  included.

## Plan

1. Done: SlotBarrier, Timer with its refinement and proofs; Sched and its proofs; OS;
   VmArea; Paging.
2. Done: proofs for OS (all its safety properties), for the exit in SchedEnv, and for
   Paging (all its safety properties).
3. Done: proofs for VmArea (all its properties but the agreement with the loop).
