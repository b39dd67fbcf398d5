------------------------------- MODULE MCOS -------------------------------
(* The simulator on small configurations. *)
EXTENDS OS, TLC

CONSTANTS c1, c2, c3

\* Four processes: a long urgent one, three less urgent ones of which two
\* start later, in one queue of the lowest priority.
Prio4 == <<0, 1, 1, 1>>
Start4 == <<0, 0, 1, 4>>
Size4 == <<4, 1, 3, 0>>

\* Two processes that can finish in the same slot on two CPUs.
Prio2 == <<0, 0>>
Start2 == <<0, 0>>
Size2 == <<2, 1>>

\* README.md's test_sched_slot: quotas 2 and 3, time slice 3.
PrioSlot == <<1, 0>>
SizeSlot == <<4, 4>>
=============================================================================
