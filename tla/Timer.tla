------------------------------- MODULE Timer -------------------------------
(***************************************************************************)
(* timer.c: the timer thread and the devices that run in step with it.     *)
(*                                                                         *)
(* Every access to a device's done and fsh flags is inside a critical      *)
(* section of that device's event_lock or timer_lock.  A critical section  *)
(* is one action here; pthread_cond_wait is the step to "asleep" (it frees *)
(* the lock), pthread_cond_signal is the step out of "asleep" of the       *)
(* thread that sleeps on that condition, if one does, and a spurious       *)
(* wake-up is an action of its own.  Whether the two locks that share      *)
(* done are enough is what the invariants below are about.                 *)
(*                                                                         *)
(* Devices are numbered in the order in which main attaches them.          *)
(* attach_event pushes at the head of dev_list, so the list that starts at *)
(* device d goes on with d - 1, and 0 is the NULL that ends it.            *)
(***************************************************************************)
EXTENDS Naturals

CONSTANTS
    N,          \* devices that main attaches: num_cpus CPUs and the loader
    TIME_MOD    \* _time is a uint64_t: 2^64 in the program

ASSUME NAssumption == N \in Nat \ {0}
ASSUME ClockAssumption == TIME_MOD \in Nat \ {0}

VARIABLES
    timer_started, timer_stop,  \* the flags of timer.c
    dev_list,                   \* head of the list of attached devices
    done, fsh,                  \* the flags of each device's timer_id_t
    time,                       \* _time
    tpc,                        \* where timer_routine is
    temp, nfsh, event,          \* its locals temp, fsh and event
    dpc                         \* where each device's thread is

vars == <<timer_started, timer_stop, dev_list, done, fsh, time,
          tpc, temp, nfsh, event, dpc>>

Dev == 1 .. N

\* temp->next
next(d) == d - 1

TypeOK ==
    /\ timer_started \in BOOLEAN
    /\ timer_stop \in BOOLEAN
    /\ dev_list \in 0 .. N
    /\ done \in [Dev -> BOOLEAN]
    /\ fsh \in [Dev -> BOOLEAN]
    /\ time \in 0 .. TIME_MOD - 1
    /\ tpc \in {"off", "top", "wait", "asleep", "release", "exit"}
    /\ temp \in 0 .. N
    /\ nfsh \in 0 .. N
    /\ event \in 0 .. N
    /\ dpc \in [Dev -> {"none", "work", "check", "asleep", "gone"}]

Init ==
    /\ timer_started = FALSE
    /\ timer_stop = FALSE
    /\ dev_list = 0
    /\ done = [d \in Dev |-> FALSE]
    /\ fsh = [d \in Dev |-> FALSE]
    /\ time = 0
    /\ tpc = "off"
    /\ temp = 0
    /\ nfsh = 0
    /\ event = 0
    /\ dpc = [d \in Dev |-> "none"]

-----------------------------------------------------------------------------
(* The main thread: attach every device, start the timer, stop it after    *)
(* joining the devices' threads.                                           *)

attach_event ==
    /\ ~timer_started
    /\ dev_list < N
    /\ dev_list' = dev_list + 1
    /\ done' = [done EXCEPT ![dev_list + 1] = FALSE]
    /\ fsh' = [fsh EXCEPT ![dev_list + 1] = FALSE]
    /\ UNCHANGED <<timer_started, timer_stop, time, tpc, temp, nfsh, event, dpc>>

\* main creates the devices' threads after start_timer.
start_timer ==
    /\ ~timer_started
    /\ dev_list = N
    /\ timer_started' = TRUE
    /\ tpc' = "top"
    /\ dpc' = [d \in Dev |-> "work"]
    /\ UNCHANGED <<timer_stop, dev_list, done, fsh, time, temp, nfsh, event>>

\* The first statement of stop_timer: main has joined all other threads.
stop_timer ==
    /\ timer_started
    /\ ~timer_stop
    /\ \A d \in Dev : dpc[d] = "gone"
    /\ timer_stop' = TRUE
    /\ UNCHANGED <<timer_started, dev_list, done, fsh, time, tpc, temp, nfsh,
                   event, dpc>>

\* Slip: the containers are freed without joining the timer thread.
stop_timer_no_join ==
    /\ timer_stop
    /\ dev_list # 0
    /\ dev_list' = 0
    /\ UNCHANGED <<timer_started, timer_stop, done, fsh, time, tpc, temp, nfsh,
                   event, dpc>>

\* The rest of stop_timer: pthread_join, then every container is freed.
stop_timer_join ==
    /\ timer_stop
    /\ tpc = "exit"
    /\ dev_list # 0
    /\ dev_list' = 0
    /\ UNCHANGED <<timer_started, timer_stop, done, fsh, time, tpc, temp, nfsh,
                   event, dpc>>

-----------------------------------------------------------------------------
(* timer_routine *)

\* Slip: the counters of the first loop are not reset in each slot.
timer_top_no_reset ==
    /\ tpc = "top"
    /\ tpc' = IF timer_stop THEN "exit" ELSE "wait"
    /\ temp' = IF timer_stop THEN temp ELSE dev_list
    /\ UNCHANGED <<timer_started, timer_stop, dev_list, done, fsh, time, nfsh,
                   event, dpc>>

\* while (!timer_stop), and the start of the first loop.
timer_top ==
    /\ tpc = "top"
    /\ IF timer_stop
       THEN /\ tpc' = "exit"
            /\ UNCHANGED <<temp, nfsh, event>>
       ELSE /\ tpc' = "wait"
            /\ temp' = dev_list
            /\ nfsh' = 0
            /\ event' = 0
    /\ UNCHANGED <<timer_started, timer_stop, dev_list, done, fsh, time, dpc>>

\* Slip: the timer forgets to look at fsh.
timer_wait_ignores_fsh ==
    /\ tpc = "wait"
    /\ temp # 0
    /\ IF ~done[temp]
       THEN tpc' = "asleep" /\ UNCHANGED <<temp, nfsh, event>>
       ELSE /\ nfsh' = IF fsh[temp] THEN nfsh + 1 ELSE nfsh
            /\ event' = event + 1
            /\ temp' = next(temp)
            /\ UNCHANGED tpc
    /\ UNCHANGED <<timer_started, timer_stop, dev_list, done, fsh, time, dpc>>

\* Slip: the timer looks at each device once instead of waiting for it.
timer_wait_no_loop ==
    /\ tpc = "wait"
    /\ temp # 0
    /\ nfsh' = IF fsh[temp] THEN nfsh + 1 ELSE nfsh
    /\ event' = event + 1
    /\ temp' = next(temp)
    /\ UNCHANGED <<timer_started, timer_stop, dev_list, done, fsh, time, tpc, dpc>>

\* One device of the first loop: wait until it is done with the slot or gone.
timer_wait ==
    /\ tpc = "wait"
    /\ temp # 0
    /\ IF ~done[temp] /\ ~fsh[temp]
       THEN tpc' = "asleep" /\ UNCHANGED <<temp, nfsh, event>>
       ELSE /\ nfsh' = IF fsh[temp] THEN nfsh + 1 ELSE nfsh
            /\ event' = event + 1
            /\ temp' = next(temp)
            /\ UNCHANGED tpc
    /\ UNCHANGED <<timer_started, timer_stop, dev_list, done, fsh, time, dpc>>

\* _time++, and the start of the second loop.
timer_tick ==
    /\ tpc = "wait"
    /\ temp = 0
    /\ time' = (time + 1) % TIME_MOD
    /\ tpc' = "release"
    /\ temp' = dev_list
    /\ UNCHANGED <<timer_started, timer_stop, dev_list, done, fsh, nfsh, event, dpc>>

\* pthread_cond_signal(timer_cond) of device d.
signal_timer_cond(d) ==
    dpc' = [dpc EXCEPT ![d] = IF dpc[d] = "asleep" THEN "check" ELSE dpc[d]]

\* Slip: done is cleared without waking the device.
timer_release_no_signal ==
    /\ tpc = "release"
    /\ temp # 0
    /\ done' = [done EXCEPT ![temp] = FALSE]
    /\ temp' = next(temp)
    /\ UNCHANGED <<timer_started, timer_stop, dev_list, fsh, time, tpc, nfsh, event, dpc>>

\* One device of the second loop: let it go on.
timer_release ==
    /\ tpc = "release"
    /\ temp # 0
    /\ done' = [done EXCEPT ![temp] = FALSE]
    /\ signal_timer_cond(temp)
    /\ temp' = next(temp)
    /\ UNCHANGED <<timer_started, timer_stop, dev_list, fsh, time, tpc, nfsh, event>>

\* Slip: the timer gives up as soon as one device has finished.
timer_end_any_fsh ==
    /\ tpc = "release"
    /\ temp = 0
    /\ tpc' = IF nfsh # 0 THEN "exit" ELSE "top"
    /\ UNCHANGED <<timer_started, timer_stop, dev_list, done, fsh, time,
                   temp, nfsh, event, dpc>>

\* if (fsh == event) break;
timer_end ==
    /\ tpc = "release"
    /\ temp = 0
    /\ tpc' = IF nfsh = event THEN "exit" ELSE "top"
    /\ UNCHANGED <<timer_started, timer_stop, dev_list, done, fsh, time,
                   temp, nfsh, event, dpc>>

\* pthread_cond_wait may return although nobody signalled.
timer_spurious_wakeup ==
    /\ tpc = "asleep"
    /\ tpc' = "wait"
    /\ UNCHANGED <<timer_started, timer_stop, dev_list, done, fsh, time,
                   temp, nfsh, event, dpc>>

-----------------------------------------------------------------------------
(* The devices *)

\* pthread_cond_signal(event_cond) of device d: the timer may sleep on it.
signal_event_cond(d) ==
    tpc' = IF tpc = "asleep" /\ temp = d THEN "wait" ELSE tpc

\* Slip: the timer is not told that the device is done.
next_slot_no_signal(d) ==
    /\ dpc[d] = "work"
    /\ done' = [done EXCEPT ![d] = TRUE]
    /\ dpc' = [dpc EXCEPT ![d] = "check"]
    /\ UNCHANGED <<timer_started, timer_stop, dev_list, fsh, time, tpc, temp, nfsh, event>>

\* The first critical section of next_slot.
next_slot(d) ==
    /\ dpc[d] = "work"
    /\ done' = [done EXCEPT ![d] = TRUE]
    /\ signal_event_cond(d)
    /\ dpc' = [dpc EXCEPT ![d] = "check"]
    /\ UNCHANGED <<timer_started, timer_stop, dev_list, fsh, time, temp, nfsh, event>>

\* The second critical section of next_slot: return, or wait for the timer.
next_slot_wait(d) ==
    /\ dpc[d] = "check"
    /\ dpc' = [dpc EXCEPT ![d] = IF done[d] THEN "asleep" ELSE "work"]
    /\ UNCHANGED <<timer_started, timer_stop, dev_list, done, fsh, time, tpc,
                   temp, nfsh, event>>

spurious_wakeup(d) ==
    /\ dpc[d] = "asleep"
    /\ dpc' = [dpc EXCEPT ![d] = "check"]
    /\ UNCHANGED <<timer_started, timer_stop, dev_list, done, fsh, time, tpc,
                   temp, nfsh, event>>

\* detach_event; the thread ends right after it.
detach_event(d) ==
    /\ dpc[d] = "work"
    /\ fsh' = [fsh EXCEPT ![d] = TRUE]
    /\ signal_event_cond(d)
    /\ dpc' = [dpc EXCEPT ![d] = "gone"]
    /\ UNCHANGED <<timer_started, timer_stop, dev_list, done, time, temp, nfsh, event>>

-----------------------------------------------------------------------------
\* The end of the program: nothing is left to do, which is no deadlock.
Terminated ==
    /\ timer_stop
    /\ dev_list = 0
    /\ UNCHANGED vars

Main == attach_event \/ start_timer \/ stop_timer \/ stop_timer_join

timer_routine ==
    \/ timer_top \/ timer_wait \/ timer_tick \/ timer_release \/ timer_end

Device(d) == next_slot(d) \/ next_slot_wait(d) \/ detach_event(d)

Next ==
    \/ Main
    \/ timer_routine
    \/ timer_spurious_wakeup
    \/ \E d \in Dev : Device(d) \/ spurious_wakeup(d)
    \/ Terminated

Safety == Init /\ [][Next]_vars

(***************************************************************************)
(* Every thread keeps running: main, the timer and each device take their  *)
(* next step when they can.  A device is taken to reach its next call of   *)
(* next_slot or detach_event: cpu_routine and ld_routine do, as long as    *)
(* the instruction that a CPU executes returns.  Waking up spuriously is   *)
(* never forced.                                                           *)
(***************************************************************************)
Spec ==
    /\ Safety
    /\ WF_vars(Main)
    /\ WF_vars(timer_routine)
    /\ \A d \in Dev : WF_vars(Device(d))

-----------------------------------------------------------------------------
(* Properties *)

(***************************************************************************)
(* No wake-up is lost (timer.c:31-36, 70-75).  A thread sleeps only while  *)
(* the condition it waits for is false: the timer on a device that has     *)
(* neither finished the slot nor left, a device while its done is set.  It *)
(* is not obvious, since done is set under event_lock and cleared under    *)
(* timer_lock.                                                             *)
(***************************************************************************)
NoLostWakeup ==
    /\ tpc = "asleep" => temp # 0 /\ ~done[temp] /\ ~fsh[temp]
    /\ \A d \in Dev : dpc[d] = "asleep" => done[d]

(***************************************************************************)
(* The clock only moves while no device works in the slot (timer.c:45), so *)
(* the unlocked read in current_time() never races with _time++.           *)
(***************************************************************************)
TimeStable ==
    [][time' # time => \A d \in Dev : fsh[d] \/ dpc[d] \in {"check", "asleep"}]_vars

(***************************************************************************)
(* No device is used after stop_timer freed it (timer.c:123-131): when the *)
(* list is gone, so are the timer thread and every device's thread.        *)
(***************************************************************************)
NoUseAfterFree ==
    timer_started /\ dev_list # N =>
        tpc = "exit" /\ \A d \in Dev : dpc[d] = "gone"

(***************************************************************************)
(* next_slot returns (timer.c:61-77): a device that waits for the next     *)
(* slot gets it, if those at work call next_slot or detach_event again.    *)
(***************************************************************************)
NextSlotReturns ==
    \A d \in Dev : dpc[d] = "check" ~> dpc[d] = "work"

(***************************************************************************)
(* stop_timer returns (timer.c:120-132): once every device has detached,   *)
(* the timer thread ends and the list is freed.                            *)
(***************************************************************************)
StopTimerReturns ==
    (timer_started /\ \A d \in Dev : fsh[d]) ~> (tpc = "exit" /\ dev_list = 0)

(***************************************************************************)
(* timer.c implements SlotBarrier.  A device has arrived when its done is  *)
(* set, except that from _time++ on every device counts as back at work,   *)
(* also the ones that the second loop has yet to reach.                    *)
(***************************************************************************)
Released(d) == ~done[d] \/ (tpc = "release" /\ d <= temp)

slot_state ==
    [d \in Dev |-> IF fsh[d] THEN "gone"
                   ELSE IF Released(d) THEN "work"
                   ELSE "arrived"]

Barrier == INSTANCE SlotBarrier
               WITH state <- slot_state, ticking <- (tpc # "exit")

\* Every behaviour of timer.c is one of the abstract barrier (timer.c:21-93).
ImplementsBarrier == Barrier!BarrierSpec
=============================================================================
