------------------------------- MODULE VmArea -------------------------------
(***************************************************************************)
(* The virtual memory of one process: mm-vm.c and the parts of mm.c that   *)
(* set up its two areas and map pages into them.                           *)
(*                                                                         *)
(* Area 0, the stack, grows up from address 0; area 1, the heap, grows     *)
(* down from vmemsz - 1.  sbrk is the border of what has been handed out,  *)
(* vm_end the border of what has been reserved in whole pages.  A freed    *)
(* region goes to the area's free list, from which later requests are      *)
(* served.  A process runs on one CPU at a time, so its operations are     *)
(* sequential and each is one action.                                      *)
(*                                                                         *)
(* Of the page table only the set of mapped pages is kept, of a byte only  *)
(* whether it has been written since it was last zeroed.  Frames, swapping *)
(* and the LRU list belong to the paging layer; a page can always be       *)
(* brought into memory here (the swap devices do not fill up).             *)
(***************************************************************************)
EXTENDS Integers, Sequences, FiniteSets

CONSTANTS
    PAGESZ,     \* PAGING_PAGESZ, 256 in the program
    vmemsz,     \* size of the virtual memory, a multiple of PAGESZ
    BUSSZ,      \* 2^PAGING_CPU_BUS_WIDTH: an address is masked to this range
    INT_MOD,    \* number of values of an int, 2^32 in the program
    Rgid,       \* indices of the symbol table that the process uses
    Sizes,      \* sizes that it asks for
    Offsets     \* offsets that it reads and writes at

ASSUME PageAssumption ==
    /\ PAGESZ \in Nat \ {0}
    /\ vmemsz \in Nat \ {0} /\ vmemsz % PAGESZ = 0
    /\ BUSSZ \in Nat /\ BUSSZ >= vmemsz /\ BUSSZ % PAGESZ = 0
ASSUME IntAssumption == INT_MOD \in Nat \ {0} /\ INT_MOD % 2 = 0
ASSUME RequestAssumption == Sizes \subseteq Nat \ {0} /\ Offsets \subseteq Nat

VARIABLES
    sbrk, vm_end, vm_freerg_list,   \* per area
    symrgtbl,       \* the regions that the process's variables stand for
    pgd,            \* the pages with an entry in the page table
    dirty,          \* the addresses written since they were last zeroed
    hung            \* get_free_vmrg_area loops for ever

vars == <<sbrk, vm_end, vm_freerg_list, symrgtbl, pgd, dirty, hung>>

Vma == {0, 1}
Addr == 0 .. vmemsz - 1

vm_start == [v \in Vma |-> IF v = 0 THEN 0 ELSE vmemsz - 1]

\* A vm_rg_struct: both ends belong to the region, a heap region runs down.
Region(s, e) == [rg_start |-> s, rg_end |-> e]

\* A symbol table entry that stands for no region.
Unused(r) == symrgtbl[r].rg_start = symrgtbl[r].rg_end

TypeOK ==
    /\ sbrk \in [Vma -> 0 .. vmemsz]
    /\ vm_end \in [Vma -> -PAGESZ .. vmemsz]
    /\ vm_freerg_list \in [Vma -> Seq([rg_start : Addr, rg_end : Addr])]
    /\ symrgtbl \in [Rgid -> [rg_start : Addr, rg_end : Addr, vmaid : Vma]]
    /\ pgd \subseteq 0 .. (BUSSZ \div PAGESZ) - 1
    /\ dirty \subseteq 0 .. BUSSZ - 1
    /\ hung \in BOOLEAN

\* init_mm.  Memory from malloc is taken as zeroed: the symbol table, the page
\* directory and the list heads that enlist_vm_rg_node links the first regions to.
Init ==
    /\ sbrk = vm_start
    /\ vm_end = vm_start
    /\ vm_freerg_list = [v \in Vma |-> <<Region(vm_start[v], vm_start[v])>>]
    /\ symrgtbl = [r \in Rgid |-> [rg_start |-> 0, rg_end |-> 0, vmaid |-> 0]]
    /\ pgd = {}
    /\ dirty = {}
    /\ hung = FALSE

\* The addresses of a region of area v.
Bytes(v, rg) ==
    IF v = 0 THEN rg.rg_start .. rg.rg_end ELSE rg.rg_end .. rg.rg_start

\* n bytes further in the direction in which area v grows.
Advance(v, a, n) == IF v = 0 THEN a + n ELSE a - n

\* pg_getpage: the page of an address.  A page without an entry is taken for
\* one that is in swap, and gets an entry when it is first touched.
PageOf(a) == a \div PAGESZ

PagesOf(addrs) == {PageOf(a) : a \in addrs}

-----------------------------------------------------------------------------
(* get_free_vmrg_area.  The loop does not stop at the first region that    *)
(* fits: it cuts one piece of the requested size after the other off every *)
(* region of the list and returns the last one.                            *)

Length(v, rg) ==
    IF v = 0 THEN rg.rg_end - rg.rg_start + 1 ELSE rg.rg_start - rg.rg_end + 1

\* The pieces that the loop cuts off a region.
Pieces(v, rg, size) == Length(v, rg) \div size

\* What it leaves of the region.
Left(v, rg, size) ==
    [rg EXCEPT !.rg_start = Advance(v, @, Pieces(v, rg, size) * size)]

\* The elements of a finite set of numbers in ascending order.
Ascending(S) ==
    CHOOSE f \in [1 .. Cardinality(S) -> S] :
        \A k, l \in 1 .. Cardinality(S) : k < l => f[k] < f[l]

\* What is left of the list: regions that are used up leave it, but for the
\* last one, which becomes a dummy.
FreeList(v, size) ==
    LET list == vm_freerg_list[v]
        last == Len(list)
        cut == [i \in 1 .. last |-> Left(v, list[i], size)]
        rest == IF Length(v, cut[last]) # 0 THEN cut
                ELSE [cut EXCEPT ![last] = Region(list[last].rg_end, list[last].rg_end)]
        kept == {i \in 1 .. last : Length(v, rest[i]) # 0}
    IN  [k \in 1 .. Cardinality(kept) |-> rest[Ascending(kept)[k]]]

\* The regions with room for the request.
Fitting(v, size) ==
    {i \in 1 .. Len(vm_freerg_list[v]) : Length(v, vm_freerg_list[v][i]) >= size}

\* Slip: the piece returned is one byte short of its place.
FoundRegion_off_by_one(v, size) ==
    LET i == CHOOSE i \in Fitting(v, size) : \A j \in Fitting(v, size) : j <= i
        rg == vm_freerg_list[v][i]
        start == Advance(v, rg.rg_start, (Pieces(v, rg, size) - 1) * size + 1)
    IN  Region(start, Advance(v, start, size - 1))

\* The piece that the loop cut last.
FoundRegion(v, size) ==
    LET i == CHOOSE i \in Fitting(v, size) : \A j \in Fitting(v, size) : j <= i
        rg == vm_freerg_list[v][i]
        start == Advance(v, rg.rg_start, (Pieces(v, rg, size) - 1) * size)
    IN  Region(start, Advance(v, start, size - 1))

(***************************************************************************)
(* The loop does not end.  A request for one byte fits the dummy region at *)
(* the end of the list again and again.  In the heap, rg_start - size + 1  *)
(* is computed with unsigned longs: when less than size addresses are left *)
(* below a region's start it is a huge number, the region "fits" and its   *)
(* start wraps around to be cut down in steps of size from 2^64.           *)
(***************************************************************************)
LoopsForever(v, size) ==
    \/ size = 1
    \/ /\ v = 1
       /\ \E i \in 1 .. Len(vm_freerg_list[1]) :
             LET left == Left(1, vm_freerg_list[1][i], size)
             IN  Length(1, left) # 0 /\ left.rg_start + 1 < size

-----------------------------------------------------------------------------
(* inc_vma_limit *)

\* PAGING_PAGE_ALIGNSZ
AlignUp(n) == ((n + PAGESZ - 1) \div PAGESZ) * PAGESZ

\* The value of an int expression whose exact value is n.
ToInt(n) == ((n + INT_MOD \div 2) % INT_MOD) - INT_MOD \div 2

\* validate_overlap_vm_area: the sign of a product tells whether the planned
\* area [vmastart, vmaend] reaches into the other one.
validate_overlap_vm_area(v, vmastart, vmaend) ==
    LET o == 1 - v
    IN  \/ vm_start[o] = vm_end[o]
        \/ ToInt((vm_start[o] - vmastart) * (vmaend - vm_end[o])) < 0
        \/ vmaend = vm_end[o]

\* Slip: one page too few is reserved when the area already has some bytes left.
NewPages_floor(v, size) ==
    LET spare == IF v = 0 THEN vm_end[0] - sbrk[0] ELSE sbrk[1] - vm_end[1]
        n == (size - spare) \div PAGESZ
        first == IF v = 0 \/ vm_end[v] = vmemsz - 1 THEN vm_end[v] \div PAGESZ
                 ELSE (vm_end[v] - 1) \div PAGESZ
    IN  {Advance(v, first, k) : k \in 0 .. n - 1}

\* The pages that vm_map_ram and vmap_page_range map for the request: as many
\* as it needs beyond what the area has reserved, starting at the area's end.
NewPages(v, size) ==
    LET spare == IF v = 0 THEN vm_end[0] - sbrk[0] ELSE sbrk[1] - vm_end[1]
        n == AlignUp(size - spare) \div PAGESZ
        first == IF v = 0 \/ vm_end[v] = vmemsz - 1 THEN vm_end[v] \div PAGESZ
                 ELSE (vm_end[v] - 1) \div PAGESZ
    IN  {Advance(v, first, k) : k \in 0 .. n - 1}

\* The new end of the area.
NewEnd(v, size) ==
    IF v = 0 THEN AlignUp(sbrk[0] + size) ELSE AlignUp(sbrk[1] - size) - PAGESZ

-----------------------------------------------------------------------------
(* __alloc *)

\* Slip: the entry keeps the area of the region that it stood for before.
SetSymbol_keeps_vma(r, v, rg) ==
    symrgtbl' = [symrgtbl EXCEPT ![r].rg_start = rg.rg_start, ![r].rg_end = rg.rg_end]

SetSymbol(r, v, rg) ==
    symrgtbl' = [symrgtbl EXCEPT ![r] = [rg_start |-> rg.rg_start,
                                         rg_end |-> rg.rg_end, vmaid |-> v]]

\* A free region is found; its pages are brought into memory.
alloc_free(v, r, size) ==
    /\ Fitting(v, size) # {}
    /\ SetSymbol(r, v, FoundRegion(v, size))
    /\ vm_freerg_list' = [vm_freerg_list EXCEPT ![v] = FreeList(v, size)]
    /\ pgd' = pgd \cup PagesOf(Bytes(v, FoundRegion(v, size)))
    /\ UNCHANGED <<sbrk, vm_end, dirty, hung>>

\* get_free_vmrg_area never returns.
alloc_hang(v, size) ==
    /\ LoopsForever(v, size)
    /\ hung' = TRUE
    /\ UNCHANGED <<sbrk, vm_end, vm_freerg_list, symrgtbl, pgd, dirty>>

\* Slip: one byte more than there is may be handed out.
OutOfVm_off_by_one(v, size) ==
    IF v = 0 THEN sbrk[0] + size > vmemsz + 1 ELSE sbrk[1] - size < 0

OutOfVm(v, size) ==
    IF v = 0 THEN sbrk[0] + size > vmemsz ELSE sbrk[1] - size < 0

\* More is asked for than the area has reserved.
MustGrow(v, size) ==
    IF v = 0 THEN sbrk[0] + size > vm_end[0] ELSE sbrk[1] - size < vm_end[1]

\* The planned area at the border.
Overlaps(v, size) == ~validate_overlap_vm_area(v, sbrk[v], Advance(v, sbrk[v], size))

\* inc_vma_limit succeeds: more pages are reserved.
inc_vma_limit(v, size) ==
    /\ vm_end' = [vm_end EXCEPT ![v] = NewEnd(v, size)]
    /\ pgd' = pgd \cup NewPages(v, size)

\* Slip: the border stays one byte inside every heap region but the first.
commit_short_border(v, r, size) ==
    LET start == IF v = 0 \/ sbrk[1] = vmemsz - 1 THEN sbrk[v] ELSE sbrk[1] - 1
    IN  /\ SetSymbol(r, v, Region(start, Advance(v, start, size - 1)))
        /\ sbrk' = [sbrk EXCEPT ![v] = IF v = 0 THEN @ + size ELSE @ - size + 1]

\* The region at the area's border is handed out.  The first heap region
\* includes the address sbrk, all others start below it.
commit(v, r, size) ==
    LET start == IF v = 0 \/ sbrk[1] = vmemsz - 1 THEN sbrk[v] ELSE sbrk[1] - 1
    IN  /\ SetSymbol(r, v, Region(start, Advance(v, start, size - 1)))
        /\ sbrk' = [sbrk EXCEPT ![v] = IF v = 0 THEN @ + size ELSE start - size + 1]

\* No free region is found: take the space at the border, which may have to
\* be moved.  The caller is told of a failure and does not look at it.
alloc_border(v, r, size) ==
    /\ Fitting(v, size) = {}
    /\ \/ /\ OutOfVm(v, size) \/ (MustGrow(v, size) /\ Overlaps(v, size))
          /\ UNCHANGED vars
       \/ /\ ~OutOfVm(v, size) /\ MustGrow(v, size) /\ ~Overlaps(v, size)
          /\ inc_vma_limit(v, size)
          /\ commit(v, r, size)
          /\ UNCHANGED <<vm_freerg_list, dirty, hung>>
       \/ /\ ~OutOfVm(v, size) /\ ~MustGrow(v, size)
          /\ commit(v, r, size)
          /\ UNCHANGED <<vm_end, vm_freerg_list, pgd, dirty, hung>>

\* __alloc, called by pgalloc for the stack and by pgmalloc for the heap.
alloc(v, r, size) ==
    /\ ~hung
    /\ IF LoopsForever(v, size)
       THEN alloc_hang(v, size)
       ELSE alloc_free(v, r, size) \/ alloc_border(v, r, size)

pgalloc(r, size) == alloc(0, r, size)

pgmalloc(r, size) == alloc(1, r, size)

-----------------------------------------------------------------------------
(* __free *)

\* The addresses that the loop zeroes: it counts up and stops before rg_end.
Zeroed(rg) == rg.rg_start .. rg.rg_end - 1

\* Slip: the entry is left in the symbol table.
free_keeps_symbol(r) ==
    LET v == symrgtbl[r].vmaid
        rg == Region(symrgtbl[r].rg_start, symrgtbl[r].rg_end)
    IN  /\ ~hung
        /\ ~Unused(r)
        /\ dirty' = dirty \ Zeroed(rg)
        /\ pgd' = pgd \cup PagesOf(Zeroed(rg))
        /\ vm_freerg_list' = [vm_freerg_list EXCEPT ![v] = <<rg>> \o @]
        /\ UNCHANGED <<sbrk, vm_end, symrgtbl, hung>>

\* The region is zeroed, its entry cleared, and it goes to the head of the
\* free list (enlist_vm_freerg_list takes every region of two or more bytes).
free(r) ==
    LET v == symrgtbl[r].vmaid
        rg == Region(symrgtbl[r].rg_start, symrgtbl[r].rg_end)
    IN  /\ ~hung
        /\ ~Unused(r)
        /\ dirty' = dirty \ Zeroed(rg)
        /\ pgd' = pgd \cup PagesOf(Zeroed(rg))
        /\ symrgtbl' = [symrgtbl EXCEPT ![r].rg_start = 0, ![r].rg_end = 0]
        /\ vm_freerg_list' = [vm_freerg_list EXCEPT ![v] = <<rg>> \o @]
        /\ UNCHANGED <<sbrk, vm_end, hung>>

\* Nothing to free: the entry stands for no region.  An rgid outside of the
\* table does nothing either (Rgid has none; rgid = PAGING_MAX_SYMTBL_SZ, which
\* the tests of get_symrg_byid and __free let pass, is left out).
free_invalid(r) ==
    /\ ~hung
    /\ Unused(r)
    /\ UNCHANGED vars

pgfree_data(r) == free(r) \/ free_invalid(r)

-----------------------------------------------------------------------------
(* __read and __write *)

\* The address of an offset in a region, of which PAGING_PGN and PAGING_OFFST
\* keep the bits of the bus.
Target(r, off) == Advance(symrgtbl[r].vmaid, symrgtbl[r].rg_start, off) % BUSSZ

\* Slip: an offset equal to the length of the region passes.
InRange_off_by_one(r, off) ==
    IF symrgtbl[r].vmaid = 0
    THEN symrgtbl[r].rg_start + off <= symrgtbl[r].rg_end + 1
    ELSE \/ symrgtbl[r].rg_start - off >= symrgtbl[r].rg_end
         \/ symrgtbl[r].rg_start - off < 0

\* The range test.  rg_start - offset is an unsigned long, so an offset beyond
\* the address rg_start makes it huge and passes the test of the heap.
InRange(r, off) ==
    IF symrgtbl[r].vmaid = 0
    THEN symrgtbl[r].rg_start + off <= symrgtbl[r].rg_end
    ELSE \/ symrgtbl[r].rg_start - off >= symrgtbl[r].rg_end
         \/ symrgtbl[r].rg_start - off < 0

\* __read and __write go on to the byte at Target(r, off).
Accepted(r, off) == ~Unused(r) /\ InRange(r, off)

\* The page that an access brings into memory.
Touched(r, off) == IF Accepted(r, off) THEN {PageOf(Target(r, off))} ELSE {}

pgread(r, off) ==
    /\ ~hung
    /\ pgd' = pgd \cup Touched(r, off)
    /\ UNCHANGED <<sbrk, vm_end, vm_freerg_list, symrgtbl, dirty, hung>>

\* A write of a value other than zero.
pgwrite(r, off) ==
    /\ ~hung
    /\ pgd' = pgd \cup Touched(r, off)
    /\ dirty' = IF Accepted(r, off) THEN dirty \cup {Target(r, off)} ELSE dirty
    /\ UNCHANGED <<sbrk, vm_end, vm_freerg_list, symrgtbl, hung>>

-----------------------------------------------------------------------------
\* The CPU thread that fell into the endless loop stays there.
Hung == hung /\ UNCHANGED vars

Next ==
    \/ \E r \in Rgid, size \in Sizes : pgalloc(r, size) \/ pgmalloc(r, size)
    \/ \E r \in Rgid : pgfree_data(r)
    \/ \E r \in Rgid, off \in Offsets : pgread(r, off) \/ pgwrite(r, off)
    \/ Hung

Spec == Init /\ [][Next]_vars

-----------------------------------------------------------------------------
(* Properties *)

Live(v) == {r \in Rgid : ~Unused(r) /\ symrgtbl[r].vmaid = v}

LiveBytes(r) == Bytes(symrgtbl[r].vmaid, symrgtbl[r])

\* The free regions of area v; the one-byte dummy is none.
Free(v) == {i \in 1 .. Len(vm_freerg_list[v]) : Length(v, vm_freerg_list[v][i]) > 1}

FreeBytes(v, i) == Bytes(v, vm_freerg_list[v][i])

(***************************************************************************)
(* The allocator of an area hands no byte out twice (mm-vm.c:439-765,      *)
(* 1166-1263): live regions of the same area do not meet each other or a   *)
(* free region, however often regions are cut up, freed and reused.        *)
(***************************************************************************)
AreaDisjoint ==
    \A v \in Vma :
        /\ \A r, s \in Live(v) : r # s => LiveBytes(r) \cap LiveBytes(s) = {}
        /\ \A r \in Live(v), i \in Free(v) : LiveBytes(r) \cap FreeBytes(v, i) = {}
        /\ \A i, j \in Free(v) : i # j => FreeBytes(v, i) \cap FreeBytes(v, j) = {}

(***************************************************************************)
(* Everything handed out is on the used side of the area's border          *)
(* (mm-vm.c:627-645), so growing at the border never reaches it.           *)
(***************************************************************************)
BehindBorder ==
    \A v \in Vma :
        LET used == IF v = 0 THEN 0 .. sbrk[0] - 1 ELSE sbrk[1] .. vmemsz - 1
        IN  /\ \A r \in Live(v) : LiveBytes(r) \subseteq used
            /\ \A i \in Free(v) : FreeBytes(v, i) \subseteq used

(***************************************************************************)
(* A byte of a stack variable is always on a mapped page, whatever was     *)
(* allocated before it (mm-vm.c:1088-1107, mm.c:84-150).                   *)
(***************************************************************************)
StackMapped ==
    \A r \in Live(0) : \A a \in LiveBytes(r) : PageOf(a) \in pgd

(***************************************************************************)
(* A stack variable has the length asked for, as README.md:8 wants it      *)
(* ("the allocated region should be [0-199] instead of [0-200]"), and so   *)
(* does a heap variable (mm-vm.c:627-645, 1184-1185, 1222-1223).           *)
(***************************************************************************)
ExactLength ==
    [][\A r \in Rgid, size \in Sizes, v \in Vma :
          alloc(v, r, size) /\ symrgtbl' # symrgtbl =>
              /\ symrgtbl'[r].vmaid = v
              /\ Length(v, symrgtbl'[r]) = size]_vars

(***************************************************************************)
(* What is written through one variable at an offset of at most            *)
(* BUSSZ - vmemsz does not change a byte of another variable of the same   *)
(* area: "offset out of region range" (mm-vm.c:939, 944) and the allocator *)
(* keep them apart.  A larger offset can pass the heap's range test, wrap  *)
(* around back into the virtual memory and hit another variable.           *)
(***************************************************************************)
WritePrivate ==
    [][\A r, s \in Rgid, off \in Offsets :
          /\ pgwrite(r, off) /\ off <= BUSSZ - vmemsz
          /\ r # s /\ {r, s} \subseteq Live(symrgtbl[r].vmaid)
          => (dirty' \ dirty) \cap LiveBytes(s) = {}]_vars

-----------------------------------------------------------------------------
(* What the comments and messages of the code promise and it does not keep *)

(***************************************************************************)
(* "inc_vma_limit - increase vm area limits to reserve space for new       *)
(* variable" (mm-vm.c:1074): a byte of a heap variable is on a mapped page.*)
(***************************************************************************)
HeapMapped ==
    \A r \in Live(1) : \A a \in LiveBytes(r) : PageOf(a) \in pgd

(***************************************************************************)
(* "validate the planned memory area is not overlapped" (mm-vm.c:1052): no *)
(* byte belongs to a variable of each area.                                *)
(***************************************************************************)
AreasApart ==
    \A r \in Live(0), s \in Live(1) : LiveBytes(r) \cap LiveBytes(s) = {}

(***************************************************************************)
(* "ERROR: Memory overlap detected!" (mm-vm.c:1064) is only reported when  *)
(* the planned area meets the other one.                                   *)
(***************************************************************************)
OverlapReal ==
    \A v \in Vma, size \in Sizes :
        ~OutOfVm(v, size) /\ MustGrow(v, size) /\ Overlaps(v, size) =>
            IF v = 0 THEN sbrk[0] + size > vm_end[1] ELSE sbrk[1] - size < vm_end[0]
=============================================================================
