------------------------------ MODULE MCVmArea ------------------------------
(***************************************************************************)
(* The virtual areas of one process on small address spaces, and the loop  *)
(* of get_free_vmrg_area written out iteration by iteration, against which *)
(* the closed form in VmArea is checked.                                   *)
(***************************************************************************)
EXTENDS VmArea, TLC

\* The variables of a process are interchangeable.
Perms == Permutations(Rgid)

\* More iterations than a loop that ends can take.
Fuel == 2 * vmemsz

\* The values of an unsigned long, for addresses that may wrap around.
Wrap(n) == n % 2^16

\* The loop at node i of the list l, with the last piece found in new.
RECURSIVE Loop(_, _, _, _, _, _)
Loop(v, size, l, i, new, fuel) ==
    LET rg == l[i]
        last == IF v = 0 THEN Wrap(rg.rg_start + size - 1) ELSE Wrap(rg.rg_start - size + 1)
        fits == IF v = 0 THEN last <= rg.rg_end ELSE last >= rg.rg_end
        next == Wrap(Advance(v, rg.rg_start, size))
        rest == IF last # rg.rg_end THEN [l EXCEPT ![i].rg_start = next]
                ELSE IF i < Len(l) THEN SubSeq(l, 1, i - 1) \o SubSeq(l, i + 1, Len(l))
                ELSE [l EXCEPT ![i].rg_start = rg.rg_end]
    IN  IF fuel = 0 THEN [found |-> "never", list |-> l, new |-> new]
        ELSE IF i > Len(l)
        THEN [found |-> IF new = <<>> THEN "no" ELSE "yes", list |-> l, new |-> new]
        ELSE IF fits THEN Loop(v, size, rest, i, <<Region(rg.rg_start, last)>>, fuel - 1)
        ELSE Loop(v, size, l, i + 1, new, fuel - 1)

(***************************************************************************)
(* The closed form is what the loop of get_free_vmrg_area (mm-vm.c:        *)
(* 1179-1257) computes: it finds nothing, or the same region leaving the   *)
(* same list, or does not end.                                             *)
(***************************************************************************)
FreeLoopAgrees ==
    \A v \in Vma, size \in Sizes :
        LET run == Loop(v, size, vm_freerg_list[v], 1, <<>>, Fuel)
        IN  IF LoopsForever(v, size) THEN run.found = "never"
            ELSE IF Fitting(v, size) = {}
            THEN run.found = "no" /\ run.list = vm_freerg_list[v]
            ELSE /\ run.found = "yes"
                 /\ run.new = <<FoundRegion(v, size)>>
                 /\ run.list = FreeList(v, size)
=============================================================================
