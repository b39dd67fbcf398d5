---------------------------- MODULE TimerProofs ----------------------------
(***************************************************************************)
(* Proofs about timer.c for any number of devices: the flags protected by  *)
(* two locks never lose a wake-up, time stands still while a device works, *)
(* and the whole implements SlotBarrier.                                   *)
(***************************************************************************)
EXTENDS Timer, TLAPS

-----------------------------------------------------------------------------
(* The inductive invariant *)

\* The devices whose slot the timer may count as over: they have left, or
\* they are inside next_slot with done set.
Passed(d) == fsh[d] \/ (done[d] /\ dpc[d] \in {"check", "asleep"})

\* Before start_timer there is no timer and no device thread, and no device
\* has reported anything; from then on the list is whole until the timer
\* and every device's thread have ended.
LifeInv ==
    /\ ~timer_started => /\ tpc = "off"
                         /\ ~timer_stop
                         /\ \A d \in Dev : dpc[d] = "none" /\ ~done[d] /\ ~fsh[d]
    /\ timer_started => /\ tpc # "off"
                        /\ \A d \in Dev : dpc[d] # "none"
                        /\ dev_list = N \/ (timer_stop /\ tpc = "exit")
    /\ timer_stop => timer_started /\ \A d \in Dev : dpc[d] = "gone"

\* The flags follow the device's thread.
FlagInv ==
    \A d \in Dev :
        /\ fsh[d] <=> dpc[d] = "gone"
        /\ dpc[d] = "work" => ~done[d]
        /\ dpc[d] = "asleep" => done[d]

\* In the first loop the devices already visited have passed, and the timer
\* sleeps only on one that has not.
WaitInv ==
    /\ tpc = "asleep" => temp # 0 /\ ~done[temp] /\ ~fsh[temp]
    /\ tpc \in {"wait", "asleep"} =>
           /\ \A d \in Dev : d > temp => Passed(d)
           /\ event = N - temp
           /\ nfsh <= event
           /\ nfsh = event => \A d \in Dev : d > temp => fsh[d]

\* In the second loop the devices still to be visited have passed.
ReleaseInv ==
    tpc = "release" =>
        /\ \A d \in Dev : d <= temp => Passed(d)
        /\ nfsh = event => \A d \in Dev : fsh[d]

\* The timer thread ends after every device has left.
ExitInv == tpc = "exit" => \A d \in Dev : fsh[d]

IInv == TypeOK /\ LifeInv /\ FlagInv /\ WaitInv /\ ReleaseInv /\ ExitInv

-----------------------------------------------------------------------------
\* The invariant holds initially.
LEMMA InitIInv == Init => IInv
<1>0. SUFFICES ASSUME Init PROVE IInv
    OBVIOUS
<1> USE NAssumption, ClockAssumption
<1>1. TypeOK
  <2>1. done \in [Dev -> BOOLEAN] /\ fsh \in [Dev -> BOOLEAN]
    BY <1>0, Zenon DEF Init
  <2>2. /\ timer_started \in BOOLEAN /\ timer_stop \in BOOLEAN
        /\ tpc = "off" /\ dpc = [d \in Dev |-> "none"]
        /\ dev_list = 0 /\ time = 0 /\ temp = 0 /\ nfsh = 0 /\ event = 0
    BY <1>0, Zenon DEF Init
  <2> QED
    BY <2>1, <2>2 DEF TypeOK
<1>2. LifeInv /\ FlagInv
    BY <1>0 DEF Init, LifeInv, FlagInv
<1>3. WaitInv /\ ReleaseInv /\ ExitInv
    BY <1>0 DEF Init, WaitInv, ReleaseInv, ExitInv
<1> QED
    BY <1>1, <1>2, <1>3 DEF IInv

\* Every step of main, of the timer and of a device preserves it.
LEMMA NextIInv == IInv /\ [Next]_vars => IInv'
<1> SUFFICES ASSUME IInv, [Next]_vars PROVE IInv'
    OBVIOUS
<1> USE NAssumption, ClockAssumption DEF IInv, Dev
<1>1. CASE attach_event
  <2> USE <1>1 DEF attach_event
  <2>1. TypeOK'
    BY DEF TypeOK
  <2>2. LifeInv'
    BY DEF TypeOK, LifeInv
  <2>3. FlagInv'
    BY DEF TypeOK, LifeInv, FlagInv
  <2>4. WaitInv'
    BY DEF TypeOK, LifeInv, FlagInv, WaitInv, Passed
  <2>5. ReleaseInv'
    BY DEF TypeOK, LifeInv, FlagInv, WaitInv, ReleaseInv, Passed
  <2>6. ExitInv'
    BY DEF TypeOK, LifeInv, FlagInv, ReleaseInv, ExitInv
  <2> QED
    BY <2>1, <2>2, <2>3, <2>4, <2>5, <2>6
<1>2. CASE start_timer
  <2> USE <1>2 DEF start_timer
  <2>1. TypeOK'
    BY DEF TypeOK
  <2>2. LifeInv'
    BY DEF TypeOK, LifeInv
  <2>3. FlagInv'
    BY DEF TypeOK, LifeInv, FlagInv
  <2>4. WaitInv'
    BY DEF TypeOK, LifeInv, FlagInv, WaitInv, Passed
  <2>5. ReleaseInv'
    BY DEF TypeOK, LifeInv, FlagInv, WaitInv, ReleaseInv, Passed
  <2>6. ExitInv'
    BY DEF TypeOK, LifeInv, FlagInv, ReleaseInv, ExitInv
  <2> QED
    BY <2>1, <2>2, <2>3, <2>4, <2>5, <2>6
<1>3. CASE stop_timer
  <2> USE <1>3 DEF stop_timer
  <2>1. TypeOK'
    BY DEF TypeOK
  <2>2. LifeInv'
    BY DEF TypeOK, LifeInv
  <2>3. FlagInv'
    BY DEF TypeOK, LifeInv, FlagInv
  <2>4. WaitInv'
    BY DEF TypeOK, LifeInv, FlagInv, WaitInv, Passed
  <2>5. ReleaseInv'
    BY DEF TypeOK, LifeInv, FlagInv, WaitInv, ReleaseInv, Passed
  <2>6. ExitInv'
    BY DEF TypeOK, LifeInv, FlagInv, ReleaseInv, ExitInv
  <2> QED
    BY <2>1, <2>2, <2>3, <2>4, <2>5, <2>6
<1>4. CASE stop_timer_join
  <2> USE <1>4 DEF stop_timer_join
  <2>1. TypeOK'
    BY DEF TypeOK
  <2>2. LifeInv'
    BY DEF TypeOK, LifeInv
  <2>3. FlagInv'
    BY DEF TypeOK, LifeInv, FlagInv
  <2>4. WaitInv'
    BY DEF TypeOK, LifeInv, FlagInv, WaitInv, Passed
  <2>5. ReleaseInv'
    BY DEF TypeOK, LifeInv, FlagInv, WaitInv, ReleaseInv, Passed
  <2>6. ExitInv'
    BY DEF TypeOK, LifeInv, FlagInv, ReleaseInv, ExitInv
  <2> QED
    BY <2>1, <2>2, <2>3, <2>4, <2>5, <2>6
<1>5. CASE timer_top
  <2> USE <1>5 DEF timer_top
  <2>1. TypeOK'
    BY DEF TypeOK
  <2>2. LifeInv'
    BY DEF TypeOK, LifeInv
  <2>3. FlagInv'
    BY DEF TypeOK, LifeInv, FlagInv
  <2>4. WaitInv'
    BY DEF TypeOK, LifeInv, FlagInv, WaitInv, Passed
  <2>5. ReleaseInv'
    BY DEF TypeOK, LifeInv, FlagInv, WaitInv, ReleaseInv, Passed
  <2>6. ExitInv'
    BY DEF TypeOK, LifeInv, FlagInv, ReleaseInv, ExitInv
  <2> QED
    BY <2>1, <2>2, <2>3, <2>4, <2>5, <2>6
<1>6. CASE timer_wait
  <2> USE <1>6 DEF timer_wait, next
  <2>1. TypeOK'
    BY DEF TypeOK, WaitInv, LifeInv
  <2>2. LifeInv'
    BY DEF TypeOK, LifeInv
  <2>3. FlagInv'
    BY DEF TypeOK, LifeInv, FlagInv
  <2>4. WaitInv'
    BY SMTT(30) DEF TypeOK, LifeInv, FlagInv, WaitInv, Passed
  <2>5. ReleaseInv'
    BY DEF TypeOK, LifeInv, FlagInv, WaitInv, ReleaseInv, Passed
  <2>6. ExitInv'
    BY DEF TypeOK, LifeInv, FlagInv, ReleaseInv, ExitInv
  <2> QED
    BY <2>1, <2>2, <2>3, <2>4, <2>5, <2>6
<1>7. CASE timer_tick
  <2> USE <1>7 DEF timer_tick
  <2>1. TypeOK'
    BY DEF TypeOK, WaitInv, LifeInv
  <2>2. LifeInv'
    BY DEF TypeOK, LifeInv
  <2>3. FlagInv'
    BY DEF TypeOK, LifeInv, FlagInv
  <2>4. WaitInv'
    BY DEF TypeOK, LifeInv, FlagInv, WaitInv, Passed
  <2>5. ReleaseInv'
    BY DEF TypeOK, LifeInv, FlagInv, WaitInv, ReleaseInv, Passed
  <2>6. ExitInv'
    BY DEF TypeOK, LifeInv, FlagInv, ReleaseInv, ExitInv
  <2> QED
    BY <2>1, <2>2, <2>3, <2>4, <2>5, <2>6
<1>8. CASE timer_release
  <2> USE <1>8 DEF timer_release, next, signal_timer_cond
  <2>1. TypeOK'
    BY DEF TypeOK, WaitInv, LifeInv
  <2>2. LifeInv'
    BY DEF TypeOK, LifeInv
  <2>3. FlagInv'
    BY DEF TypeOK, LifeInv, FlagInv
  <2>4. WaitInv'
    BY DEF TypeOK, LifeInv, FlagInv, WaitInv, Passed
  <2>5. ReleaseInv'
    BY DEF TypeOK, LifeInv, FlagInv, WaitInv, ReleaseInv, Passed
  <2>6. ExitInv'
    BY DEF TypeOK, LifeInv, FlagInv, ReleaseInv, ExitInv
  <2> QED
    BY <2>1, <2>2, <2>3, <2>4, <2>5, <2>6
<1>9. CASE timer_end
  <2> USE <1>9 DEF timer_end
  <2>1. TypeOK'
    BY DEF TypeOK
  <2>2. LifeInv'
    BY DEF TypeOK, LifeInv
  <2>3. FlagInv'
    BY DEF TypeOK, LifeInv, FlagInv
  <2>4. WaitInv'
    BY DEF TypeOK, LifeInv, FlagInv, WaitInv, Passed
  <2>5. ReleaseInv'
    BY DEF TypeOK, LifeInv, FlagInv, WaitInv, ReleaseInv, Passed
  <2>6. ExitInv'
    BY DEF TypeOK, LifeInv, FlagInv, ReleaseInv, ExitInv
  <2> QED
    BY <2>1, <2>2, <2>3, <2>4, <2>5, <2>6
<1>10. CASE timer_spurious_wakeup
  <2> USE <1>10 DEF timer_spurious_wakeup
  <2>1. TypeOK'
    BY DEF TypeOK
  <2>2. LifeInv'
    BY DEF TypeOK, LifeInv
  <2>3. FlagInv'
    BY DEF TypeOK, LifeInv, FlagInv
  <2>4. WaitInv'
    BY DEF TypeOK, LifeInv, FlagInv, WaitInv, Passed
  <2>5. ReleaseInv'
    BY DEF TypeOK, LifeInv, FlagInv, WaitInv, ReleaseInv, Passed
  <2>6. ExitInv'
    BY DEF TypeOK, LifeInv, FlagInv, ReleaseInv, ExitInv
  <2> QED
    BY <2>1, <2>2, <2>3, <2>4, <2>5, <2>6
<1>11. ASSUME NEW d \in Dev, next_slot(d) PROVE IInv'
  <2> USE <1>11 DEF next_slot, signal_event_cond
  <2>1. TypeOK'
    BY DEF TypeOK
  <2>2. LifeInv'
    BY DEF TypeOK, LifeInv
  <2>3. FlagInv'
    BY DEF TypeOK, LifeInv, FlagInv
  <2>4. WaitInv'
    BY DEF TypeOK, LifeInv, FlagInv, WaitInv, Passed
  <2>5. ReleaseInv'
    BY DEF TypeOK, LifeInv, FlagInv, WaitInv, ReleaseInv, Passed
  <2>6. ExitInv'
    BY DEF TypeOK, LifeInv, FlagInv, ReleaseInv, ExitInv
  <2> QED
    BY <2>1, <2>2, <2>3, <2>4, <2>5, <2>6
<1>12. ASSUME NEW d \in Dev, next_slot_wait(d) PROVE IInv'
  <2> USE <1>12 DEF next_slot_wait
  <2>1. TypeOK'
    BY DEF TypeOK
  <2>2. LifeInv'
    BY DEF TypeOK, LifeInv
  <2>3. FlagInv'
    BY DEF TypeOK, LifeInv, FlagInv
  <2>4. WaitInv'
    BY DEF TypeOK, LifeInv, FlagInv, WaitInv, Passed
  <2>5. ReleaseInv'
    BY DEF TypeOK, LifeInv, FlagInv, WaitInv, ReleaseInv, Passed
  <2>6. ExitInv'
    BY DEF TypeOK, LifeInv, FlagInv, ReleaseInv, ExitInv
  <2> QED
    BY <2>1, <2>2, <2>3, <2>4, <2>5, <2>6
<1>13. ASSUME NEW d \in Dev, detach_event(d) PROVE IInv'
  <2> USE <1>13 DEF detach_event, signal_event_cond
  <2>1. TypeOK'
    BY DEF TypeOK
  <2>2. LifeInv'
    BY DEF TypeOK, LifeInv
  <2>3. FlagInv'
    BY DEF TypeOK, LifeInv, FlagInv
  <2>4. WaitInv'
    BY DEF TypeOK, LifeInv, FlagInv, WaitInv, Passed
  <2>5. ReleaseInv'
    BY DEF TypeOK, LifeInv, FlagInv, WaitInv, ReleaseInv, Passed
  <2>6. ExitInv'
    BY DEF TypeOK, LifeInv, FlagInv, ReleaseInv, ExitInv
  <2> QED
    BY <2>1, <2>2, <2>3, <2>4, <2>5, <2>6
<1>14. ASSUME NEW d \in Dev, spurious_wakeup(d) PROVE IInv'
  <2> USE <1>14 DEF spurious_wakeup
  <2>1. TypeOK'
    BY DEF TypeOK
  <2>2. LifeInv'
    BY DEF TypeOK, LifeInv
  <2>3. FlagInv'
    BY DEF TypeOK, LifeInv, FlagInv
  <2>4. WaitInv'
    BY DEF TypeOK, LifeInv, FlagInv, WaitInv, Passed
  <2>5. ReleaseInv'
    BY DEF TypeOK, LifeInv, FlagInv, WaitInv, ReleaseInv, Passed
  <2>6. ExitInv'
    BY DEF TypeOK, LifeInv, FlagInv, ReleaseInv, ExitInv
  <2> QED
    BY <2>1, <2>2, <2>3, <2>4, <2>5, <2>6
<1>15. CASE UNCHANGED vars
    BY <1>15 DEF vars, TypeOK, LifeInv, FlagInv, WaitInv, ReleaseInv, ExitInv, Passed
<1> QED
    BY <1>1, <1>2, <1>3, <1>4, <1>5, <1>6, <1>7, <1>8, <1>9, <1>10, <1>11, <1>12, <1>13, <1>14, <1>15
       DEF Next, Main, timer_routine, Device, Terminated

-----------------------------------------------------------------------------
\* The strengthened invariant holds in every reachable state of timer.c.
THEOREM Invariance == Safety => []IInv
BY InitIInv, NextIInv, PTL DEF Safety

\* Every variable of timer.c keeps its type, whatever the number of devices.
THEOREM TypeCorrect == Safety => []TypeOK
<1>1. IInv => TypeOK
    BY DEF IInv
<1> QED
    BY <1>1, Invariance, PTL

\* The two condition variables of a device never lose a wake-up, although
\* done is written under one lock and tested under the other (timer.c:31-36,
\* 48-53, 63-76).
THEOREM WakeupsKept == Safety => []NoLostWakeup
<1>1. IInv => NoLostWakeup
    BY DEF IInv, WaitInv, FlagInv, NoLostWakeup
<1> QED
    BY <1>1, Invariance, PTL

\* stop_timer frees the device list only after the last use (timer.c:120-132).
THEOREM FreedLast == Safety => []NoUseAfterFree
<1>1. IInv => NoUseAfterFree
    BY DEF IInv, LifeInv, NoUseAfterFree
<1> QED
    BY <1>1, Invariance, PTL

\* _time changes only while every device has left or waits in next_slot
\* (timer.c:45), so current_time() needs no lock.
THEOREM ClockStable == Safety => TimeStable
<1>1. IInv /\ [Next]_vars =>
          [time' # time => \A d \in Dev : fsh[d] \/ dpc[d] \in {"check", "asleep"}]_vars
  <2> SUFFICES ASSUME IInv, Next, time' # time, NEW d \in Dev
               PROVE  fsh[d] \/ dpc[d] \in {"check", "asleep"}
    OBVIOUS
  <2>1. timer_tick
    BY DEF Next, Main, timer_routine, Device, Terminated, vars,
           attach_event, start_timer, stop_timer, stop_timer_join, timer_top,
           timer_wait, timer_release, timer_end, timer_spurious_wakeup,
           next_slot, next_slot_wait, detach_event, spurious_wakeup
  <2>2. d > temp
    BY <2>1, NAssumption DEF timer_tick, Dev
  <2> QED
    BY <2>1, <2>2 DEF timer_tick, IInv, WaitInv, Passed
<1> QED
    BY <1>1, Invariance, PTL DEF Safety, TimeStable

-----------------------------------------------------------------------------
(***************************************************************************)
(* timer.c implements the abstract barrier: timer_tick is Tick, next_slot  *)
(* is Arrive, detach_event is Leave, the end of the timer thread is Stop,  *)
(* and all other steps leave the abstract state alone.                     *)
(***************************************************************************)

\* The initial state of timer.c is one of the barrier.
LEMMA InitRefines == Init => Barrier!BarrierInit
BY DEF Init, Barrier!BarrierInit, slot_state, Released

\* A step after which the clock, the mapped state of every device and the
\* timer thread's presence are as before is a stuttering step of the barrier.
LEMMA Stutters ==
    ASSUME time' = time,
           \A d \in Dev : slot_state'[d] = slot_state[d],
           (tpc # "exit")' = (tpc # "exit")
    PROVE  [Barrier!BarrierNext]_Barrier!barrierVars
<1>1. slot_state' = slot_state
    BY DEF slot_state, Dev
<1> QED
    BY <1>1 DEF Barrier!barrierVars

\* Every step of timer.c is a step of the barrier or leaves it alone.
LEMMA NextRefines ==
    IInv /\ [Next]_vars => [Barrier!BarrierNext]_Barrier!barrierVars
<1> SUFFICES ASSUME IInv, [Next]_vars
             PROVE  [Barrier!BarrierNext]_Barrier!barrierVars
    OBVIOUS
<1> USE NAssumption
<1>1. CASE attach_event
    BY <1>1, Stutters DEF attach_event, slot_state, Released, IInv, TypeOK, LifeInv, Dev
<1>2. CASE start_timer
    BY <1>2, Stutters DEF start_timer, slot_state, Released, IInv, LifeInv
<1>3. CASE stop_timer \/ stop_timer_join \/ timer_wait \/ timer_spurious_wakeup
    BY <1>3, Stutters
       DEF stop_timer, stop_timer_join, timer_wait, timer_spurious_wakeup,
           slot_state, Released
<1>4. CASE timer_top
  <2>1. CASE timer_stop
    BY <1>4, <2>1 DEF timer_top, Barrier!BarrierNext, Barrier!Stop, slot_state,
           Released, IInv, LifeInv, FlagInv
  <2>2. CASE ~timer_stop
    BY <1>4, <2>2, Stutters DEF timer_top, slot_state, Released
  <2> QED
    BY <2>1, <2>2
<1>5. CASE timer_tick
    BY <1>5 DEF timer_tick, Barrier!BarrierNext, Barrier!Tick, slot_state,
           Released, IInv, TypeOK, LifeInv, WaitInv, Passed, Dev
<1>6. CASE timer_release
    BY <1>6, Stutters DEF timer_release, next, slot_state, Released, IInv,
           TypeOK, ReleaseInv, Passed, Dev
<1>7. CASE timer_end
  <2>1. CASE nfsh = event
    BY <1>7, <2>1 DEF timer_end, Barrier!BarrierNext, Barrier!Stop, slot_state,
           Released, IInv, ReleaseInv, Dev
  <2>2. CASE nfsh # event
    BY <1>7, <2>2, Stutters DEF timer_end, slot_state, Released, Dev
  <2> QED
    BY <2>1, <2>2
<1>8. ASSUME NEW d \in Dev, next_slot(d)
      PROVE  Barrier!BarrierNext
    BY ZenonT(30), <1>8 DEF next_slot, signal_event_cond, Barrier!BarrierNext, Barrier!Arrive,
           slot_state, Released, IInv, TypeOK, FlagInv, ReleaseInv, Passed
<1>9. ASSUME NEW d \in Dev, detach_event(d)
      PROVE  Barrier!BarrierNext
    BY ZenonT(30), <1>9 DEF detach_event, signal_event_cond, Barrier!BarrierNext, Barrier!Leave,
           slot_state, Released, IInv, TypeOK, FlagInv
<1>10. ASSUME NEW d \in Dev, next_slot_wait(d) \/ spurious_wakeup(d)
       PROVE  [Barrier!BarrierNext]_Barrier!barrierVars
    BY <1>10, Stutters DEF next_slot_wait, spurious_wakeup, slot_state, Released
<1>11. CASE UNCHANGED vars
    BY <1>11, Stutters DEF vars, slot_state, Released
<1> QED
    BY <1>1, <1>2, <1>3, <1>4, <1>5, <1>6, <1>7, <1>8, <1>9, <1>10, <1>11
       DEF Next, Main, timer_routine, Device, Terminated

\* timer.c implements the safety part of SlotBarrier for every number of
\* devices (timer.c:21-93).
THEOREM Refinement == Safety => Barrier!BarrierSafety
BY InitRefines, NextRefines, Invariance, PTL DEF Safety, Barrier!BarrierSafety
=============================================================================
