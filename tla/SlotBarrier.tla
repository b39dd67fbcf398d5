---------------------------- MODULE SlotBarrier ----------------------------
(***************************************************************************)
(* What timer.c promises to the threads of the simulator: time advances in *)
(* slots, and a slot ends for every device at once.                        *)
(*                                                                         *)
(* A device (a CPU thread or the loader thread) works in the current slot, *)
(* arrives at the end of it (the call of next_slot), or leaves for good    *)
(* (detach_event).  The clock advances only when no device is still at     *)
(* work, and that same step puts every device that arrived back to work.   *)
(***************************************************************************)
EXTENDS Naturals

CONSTANTS
    Dev,        \* the attached devices
    TIME_MOD    \* current_time() counts modulo this; 2^64 in the program

VARIABLES
    time,       \* _time
    state,      \* what each device is doing in the current slot
    ticking     \* whether the timer thread is still running

barrierVars == <<time, state, ticking>>

BarrierTypeOK ==
    /\ time \in 0 .. TIME_MOD - 1
    /\ state \in [Dev -> {"work", "arrived", "gone"}]
    /\ ticking \in BOOLEAN

BarrierInit ==
    /\ time = 0
    /\ state = [d \in Dev |-> "work"]
    /\ ticking = TRUE

\* next_slot, up to the point where the caller waits for the next slot.
Arrive(d) ==
    /\ state[d] = "work"
    /\ state' = [state EXCEPT ![d] = "arrived"]
    /\ UNCHANGED <<time, ticking>>

\* detach_event.
Leave(d) ==
    /\ state[d] = "work"
    /\ state' = [state EXCEPT ![d] = "gone"]
    /\ UNCHANGED <<time, ticking>>

\* The slot ends: next_slot returns to every device that called it.
Tick ==
    /\ ticking
    /\ \A d \in Dev : state[d] # "work"
    /\ time' = (time + 1) % TIME_MOD
    /\ state' = [d \in Dev |-> IF state[d] = "arrived" THEN "work" ELSE state[d]]
    /\ UNCHANGED ticking

\* The timer thread ends, once every device has left.
Stop ==
    /\ ticking
    /\ \A d \in Dev : state[d] = "gone"
    /\ ticking' = FALSE
    /\ UNCHANGED <<time, state>>

BarrierNext ==
    \/ \E d \in Dev : Arrive(d) \/ Leave(d)
    \/ Tick
    \/ Stop

BarrierSafety == BarrierInit /\ [][BarrierNext]_barrierVars

(***************************************************************************)
(* The timer thread runs whenever it can.  Nothing is promised about how   *)
(* long a device works in a slot.                                          *)
(***************************************************************************)
BarrierSpec ==
    /\ BarrierSafety
    /\ WF_barrierVars(Tick)
    /\ WF_barrierVars(Stop)
=============================================================================
