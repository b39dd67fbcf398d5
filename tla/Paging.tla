------------------------------- MODULE Paging -------------------------------
(***************************************************************************)
(* Physical memory: the page tables, the frames of RAM, the slots of the   *)
(* active swap device and the system-wide LRU list, used by all CPUs.      *)
(* mm.c, mm-vm.c and mm-memphy.c in the LRU and SYNC build.                *)
(*                                                                         *)
(* A process is run by one CPU at a time and has at most one instruction   *)
(* in a time slot; all CPUs wait for the end of a slot (SlotBarrier).      *)
(* Which CPU it is makes no difference here, so CPUs are only counted.  A  *)
(* step has one access to something that other CPUs use: a free list       *)
(* (under the device's mutex), the LRU list (under LRU_lock) or the page   *)
(* table entry of a victim.                                                *)
(* MEM_in_use is static in mm.h, so every file that includes it has a      *)
(* mutex of its own: vm_map_ram locks the one of mm.c, pg_getpage the one  *)
(* of mm-vm.c.                                                             *)
(*                                                                         *)
(* A page is one byte.  Which pages an instruction needs is decided by the *)
(* areas of its process (VmArea): reserved pages are mapped in order, and  *)
(* a process in Hole has a heap page that it uses though no entry was made *)
(* for it.  Of data only its owner is kept: ram and swp say whose page the *)
(* bytes of a frame belong to.                                             *)
(***************************************************************************)
EXTENDS Integers, Sequences, FiniteSets

CONSTANTS
    NCPU,           \* number of CPU threads
    Proc,           \* the processes
    NPages,         \* pages that a process can reserve
    Hole,           \* processes with a heap page that is never mapped
    NFrames,        \* frames of RAM
    NSwap,          \* frames of the active swap device, slots for short
    MaxPages,       \* pages that one instruction is about
    FPN_MOD,        \* values of the FPN field of an entry, 2^13
    SWPOFF_UNIT,    \* weight of the lowest bit of the SWPOFF field, 2^5
    Watched,        \* processes whose data is followed
    Mixed           \* may different kinds of instruction overlap in a slot?

Frames == 0 .. NFrames - 1
Slots == 0 .. NSwap - 1

ASSUME SizeAssumption ==
    /\ NCPU \in Nat \ {0}
    /\ NPages \in Nat /\ NFrames \in Nat /\ NSwap \in Nat
    /\ Hole \subseteq Proc /\ Watched \subseteq Proc
    /\ Mixed \in BOOLEAN

\* A configuration names its processes.
ASSUME FiniteAssumption == IsFiniteSet(Proc)

\* vm_map_ram: "we request 1000 frames meanwhile our RAM has size of 3 frames
\* Don't try to perform that case".
ASSUME RequestAssumption == MaxPages \in 1 .. NFrames

\* A frame number fits its field, and the number that is read from the entry
\* of a swapped page is one of the device's: RAM has at most 8192 frames and
\* swap at least as many (65536 in the configurations of the repository).
ASSUME FieldAssumption ==
    /\ FPN_MOD \in Nat /\ FPN_MOD >= NFrames
    /\ SWPOFF_UNIT \in Nat
    /\ \A off \in Slots : (off * SWPOFF_UNIT) % FPN_MOD \in Slots

\* MEMPHY_format ends the list only at a node that it appends: the next pointer
\* of the only frame of a device is not initialized.
ASSUME FormatAssumption == NFrames > 1 /\ NSwap > 1

VARIABLES
    job,            \* job[p]: the instruction of p in this slot: where the CPU that
                    \* runs it is, and its locals
    reserved,       \* reserved[p]: pages of p below vm_end
    pgd,            \* the page table entries of all processes
    mram_free, mswp_free,   \* free_fp_list of RAM and of the swap device
    lru,            \* the LRU list from lru_head to lru_tail
    MEM_in_use,     \* the processes that hold the mutex of each file
    ram, swp,       \* whose data each frame and each slot holds
    crashed         \* a wild or null pointer was used

vars == <<job, reserved, pgd, mram_free, mswp_free, lru, MEM_in_use, ram, swp,
          crashed>>

\* Page NPages of a process is its heap page without an entry.
Page == Proc \X (0 .. NPages)
NoPage == << >>

\* An LRU_list node.
Node == [page : Page, fpn : 0 .. FPN_MOD - 1]
NoNode == [page |-> NoPage, fpn |-> 0]

\* A page table entry: the bits PRESENT and SWAPPED, and the bits 0-12, which
\* hold the FPN or the low bits of SWPTYP and SWPOFF.
Pte == [present : BOOLEAN, swapped : BOOLEAN, low : 0 .. FPN_MOD - 1]

Kinds == {"rw", "free", "map", "reuse"}

Labels == {"idle", "getpage", "frame", "victim", "slot", "evict", "enter", "found", "touch",
           "update", "map_lock", "map_frame", "map_page", "reuse", "reuse_enter",
           "reuse_put", "reuse_update", "done"}

Resting == [pc |-> "idle", kind |-> "rw", size |-> 0, pages |-> << >>, tgtfpn |-> 0, vic |-> NoNode,
            swpfpn |-> 0, fpn |-> 0, frm_lst |-> << >>]

TypeOK ==
    /\ job \in [Proc -> [pc : Labels, kind : Kinds, size : 0 .. MaxPages, pages : Seq(Page),
                        tgtfpn : 0 .. FPN_MOD - 1, vic : Node \cup {NoNode},
                        swpfpn : Slots, fpn : 0 .. FPN_MOD - 1, frm_lst : Seq(Frames)]]
    /\ reserved \in [Proc -> 0 .. NPages]
    /\ pgd \in [Page -> Pte]
    /\ mram_free \in Seq(Frames)
    /\ mswp_free \in Seq(Slots)
    /\ lru \in Seq(Node)
    /\ MEM_in_use \in [{"mm", "mm-vm"} -> SUBSET Proc]
    /\ ram \in [Frames -> Page \cup {NoPage}]
    /\ swp \in [Slots -> Page \cup {NoPage}]
    /\ crashed \in BOOLEAN

\* The free list of a new device with n frames (n > 1: FormatAssumption).
MEMPHY_format(n) == [i \in 1 .. n |-> i - 1]

\* Both devices are new and no process has a page.
Init ==
    /\ job = [p \in Proc |-> Resting]
    /\ reserved = [p \in Proc |-> 0]
    /\ pgd = [pg \in Page |-> [present |-> FALSE, swapped |-> FALSE, low |-> 0]]
    /\ mram_free = MEMPHY_format(NFrames)
    /\ mswp_free = MEMPHY_format(NSwap)
    /\ lru = << >>
    /\ MEM_in_use = [f \in {"mm", "mm-vm"} |-> {}]
    /\ ram = [f \in Frames |-> NoPage]
    /\ swp = [s \in Slots |-> NoPage]
    /\ crashed = FALSE

\* The data of a page, as far as it is followed.
Mark(pg) == IF pg[1] \in Watched THEN pg ELSE NoPage

-----------------------------------------------------------------------------
(* Devices *)

\* A frame is given back at the head of the list, from which the next is taken.
MEMPHY_put_freefp(list, fpn) == <<fpn>> \o list

\* __swap_cp_page: device dst after frame sf of src was copied to its frame df.
swap_cp_page(src, sf, dst, df) == [dst EXCEPT ![df] = src[sf]]

-----------------------------------------------------------------------------
(* Page table entries *)

pte_set_fpn(pte, fpn) == [present |-> TRUE, swapped |-> FALSE, low |-> fpn % FPN_MOD]

\* Slip: the offset is not cut to the bits of its field.
pte_set_swap_unmasked(pte, swpoff) ==
    [present |-> FALSE, swapped |-> TRUE, low |-> swpoff * SWPOFF_UNIT]

\* SWPTYP is always 0: the active device is the first one.
pte_set_swap(pte, swpoff) ==
    [present |-> FALSE, swapped |-> TRUE, low |-> (swpoff * SWPOFF_UNIT) % FPN_MOD]

\* PAGING_PTE_FPN, for present and for swapped pages.
PAGING_PTE_FPN(pte) == pte.low

-----------------------------------------------------------------------------
(* The LRU list *)

MoveToTail(l, i) == SubSeq(l, 1, i - 1) \o SubSeq(l, i + 1, Len(l)) \o <<l[i]>>

Places(l, fpn) == {i \in 1 .. Len(l) : l[i].fpn = fpn}

FirstPlace(l, fpn) == CHOOSE i \in Places(l, fpn) : \A j \in Places(l, fpn) : i <= j

\* Slip: the list is not searched for the frame number.
add_LRU_page_unsearched(l, pg, fpn) == Append(l, [page |-> pg, fpn |-> fpn])

\* Slip: a node that is found is left where it is.
add_LRU_page_in_place(l, pg, fpn) ==
    IF Places(l, fpn) = {} THEN Append(l, [page |-> pg, fpn |-> fpn]) ELSE l

\* A node with the same frame number is moved and stays as it is.
add_LRU_page(l, pg, fpn) ==
    IF Places(l, fpn) = {} THEN Append(l, [page |-> pg, fpn |-> fpn])
    ELSE MoveToTail(l, FirstPlace(l, fpn))

update_LRU_lst(l, fpn) ==
    IF Places(l, fpn) = {} THEN l ELSE MoveToTail(l, FirstPlace(l, fpn))

-----------------------------------------------------------------------------
(* The instructions of a slot *)

At(p, l) == ~crashed /\ job[p].pc = l

Goto(p, l) == job' = [job EXCEPT ![p].pc = l]

\* The CPU goes on with locals r; at the end of the instruction they are gone.
Continue(p, r) ==
    job' = [job EXCEPT ![p] = IF r.pc = "done" THEN [Resting EXCEPT !.pc = "done", !.size = r.size]
                              ELSE r]

Current(p) == Head(job[p].pages)

Busy(p) == job[p].pc \notin {"idle", "done"}

\* Reads, writes and frees go through pg_getpage.
Class(kind) == IF kind = "free" THEN "rw" ELSE kind

\* The workload of the model: unless Mixed, instructions that overlap are all
\* accesses or all mappings, and the reuse of a free region is on its own.
MayOverlap(p, kind) ==
    \/ Mixed
    \/ \A q \in Proc \ {p} :
          Busy(q) => kind # "reuse" /\ Class(job[q].kind) = Class(kind)

\* n pages of process p from page lo on.
PagesFrom(p, lo, n) == [i \in 1 .. n |-> <<p, lo + i - 1>>]

\* A CPU that has not run an instruction in this slot runs one of p.
begin(p, kind, pages, l) ==
    /\ At(p, "idle")
    /\ Cardinality({q \in Proc : job[q].pc # "idle"}) < NCPU
    /\ MayOverlap(p, kind)
    /\ job' = [job EXCEPT ![p] = [Resting EXCEPT !.pc = l, !.kind = kind, !.size = Len(pages),
                                                 !.pages = pages]]
    /\ UNCHANGED <<pgd, mram_free, mswp_free, lru, MEM_in_use, ram, swp, crashed>>

\* __read or __write of one byte.
readwrite(p) ==
    /\ \E n \in 0 .. NPages :
          /\ n < reserved[p] \/ (n = NPages /\ p \in Hole)
          /\ begin(p, "rw", PagesFrom(p, n, 1), "getpage")
    /\ UNCHANGED reserved

\* __free, or __alloc of a free region, of some reserved pages.  The loop of
\* __free does nothing in a heap region, so only __alloc meets a page of Hole.
region(p, kind, l) ==
    /\ \E n \in 1 .. MaxPages : \E lo \in 0 .. NPages :
          /\ \/ lo + n <= reserved[p]
             \/ kind = "reuse" /\ p \in Hole /\ lo = NPages /\ n = 1
          /\ begin(p, kind, PagesFrom(p, lo, n), l)
    /\ UNCHANGED reserved

\* inc_vma_limit: vm_end is moved before vm_map_ram maps the pages.
inc_vma_limit(p) ==
    \E n \in 1 .. MaxPages :
        /\ reserved[p] + n <= NPages
        /\ begin(p, "map", PagesFrom(p, reserved[p], n), "map_lock")
        /\ reserved' = [reserved EXCEPT ![p] = @ + n]

\* The CPUs that ran an instruction are in next_slot, the others idle: the slot ends.
tick ==
    /\ ~crashed
    /\ \A p \in Proc : ~Busy(p)
    /\ job' = [p \in Proc |-> Resting]
    /\ UNCHANGED <<reserved, pgd, mram_free, mswp_free, lru, MEM_in_use, ram, swp, crashed>>

-----------------------------------------------------------------------------
(* Replacement, the same in pg_getpage, alloc_pages_range and __alloc *)

\* find_LRU_victim_page
victim(p) ==
    /\ At(p, "victim")
    /\ job' = [job EXCEPT ![p].pc = "slot",
                          ![p].vic = IF lru = << >> THEN NoNode ELSE Head(lru)]
    /\ lru' = IF lru = << >> THEN lru ELSE Tail(lru)
    /\ UNCHANGED <<reserved, pgd, mram_free, mswp_free, MEM_in_use, ram, swp, crashed>>

\* MEMPHY_get_freefp of the active swap device gives a slot.  Without a victim
\* vicpte is not initialized.
slot(p) ==
    /\ At(p, "slot")
    /\ mswp_free # << >>
    /\ job' = [job EXCEPT ![p].pc = "evict", ![p].swpfpn = Head(mswp_free)]
    /\ mswp_free' = Tail(mswp_free)
    /\ crashed' = (job[p].vic = NoNode)
    /\ UNCHANGED <<reserved, pgd, mram_free, lru, MEM_in_use, ram, swp>>

\* Where an access that failed goes on: __read and __write update the LRU list
\* all the same, __free tries the next byte.
AfterAccess(p) ==
    IF job[p].kind = "rw" THEN "update"
    ELSE IF Len(job[p].pages) = 1 THEN "done"
    ELSE "getpage"

\* What is left of a region when the current page is dealt with.
Rest(p) == IF Len(job[p].pages) = 1 THEN job[p].pages ELSE Tail(job[p].pages)

\* Slip: pg_getpage tries again until there is a slot.
slot_none_getpage_retry(p) ==
    /\ At(p, "slot")
    /\ mswp_free = << >>
    /\ job[p].kind \in {"rw", "free"}
    /\ Goto(p, "victim")
    /\ UNCHANGED <<reserved, pgd, mram_free, mswp_free, lru, MEM_in_use, ram, swp, crashed>>

\* Slip: pg_getpage returns with the mutex held.
slot_none_getpage_locked(p) ==
    /\ At(p, "slot")
    /\ mswp_free = << >>
    /\ job[p].kind \in {"rw", "free"}
    /\ Continue(p, [job[p] EXCEPT !.pc = AfterAccess(p), !.pages = Rest(p), !.vic = NoNode,
                                  !.tgtfpn = 0])
    /\ UNCHANGED <<reserved, pgd, mram_free, mswp_free, lru, MEM_in_use, ram, swp, crashed>>

\* "Out of SWAP": the victim is not put back on the list.
slot_none_getpage(p) ==
    /\ At(p, "slot")
    /\ mswp_free = << >>
    /\ job[p].kind \in {"rw", "free"}
    /\ Continue(p, [job[p] EXCEPT !.pc = AfterAccess(p), !.pages = Rest(p), !.vic = NoNode,
                                  !.tgtfpn = 0])
    /\ MEM_in_use' = [MEM_in_use EXCEPT !["mm-vm"] = @ \ {p}]
    /\ UNCHANGED <<reserved, pgd, mram_free, mswp_free, lru, ram, swp, crashed>>

\* The same in __alloc, which returns.
slot_none_reuse(p) ==
    /\ At(p, "slot")
    /\ mswp_free = << >>
    /\ job[p].kind = "reuse"
    /\ Continue(p, [job[p] EXCEPT !.pc = "done"])
    /\ UNCHANGED <<reserved, pgd, mram_free, mswp_free, lru, MEM_in_use, ram, swp, crashed>>

\* alloc_pages_range looks for another device: it takes the array of devices
\* for an array of pointers and follows what it finds in the first one.
slot_none_map(p) ==
    /\ At(p, "slot")
    /\ mswp_free = << >>
    /\ job[p].kind = "map"
    /\ crashed' = TRUE
    /\ UNCHANGED <<reserved, job, pgd, mram_free, mswp_free, lru, MEM_in_use, ram, swp>>

\* alloc_pages_range has one more frame: are there enough for its pages?
AllocNext(p) == IF Len(job[p].frm_lst) + 1 = Len(job[p].pages) THEN "map_page" ELSE "map_frame"

\* Slip: the entry of the victim is not changed.
evict_unmarked(p) ==
    /\ At(p, "evict")
    /\ swp' = swap_cp_page(ram, job[p].vic.fpn, swp, job[p].swpfpn)
    /\ job' = IF job[p].kind = "map"
              THEN [job EXCEPT ![p].frm_lst = Append(@, job[p].vic.fpn), ![p].vic = NoNode,
                               ![p].swpfpn = 0, ![p].pc = AllocNext(p)]
              ELSE [job EXCEPT ![p].swpfpn = 0,
                               ![p].pc = IF job[p].kind = "reuse" THEN "reuse_enter" ELSE "enter"]
    /\ UNCHANGED <<reserved, pgd, mram_free, mswp_free, lru, MEM_in_use, ram, crashed>>

\* The victim is copied to the slot (__swap_cp_page) and its entry says so.
\* pg_getpage copies the other page in before it changes the entry; no one
\* can tell.
evict(p) ==
    /\ At(p, "evict")
    /\ swp' = swap_cp_page(ram, job[p].vic.fpn, swp, job[p].swpfpn)
    /\ pgd' = [pgd EXCEPT ![job[p].vic.page] = pte_set_swap(@, job[p].swpfpn)]
    /\ job' = IF job[p].kind = "map"
              THEN [job EXCEPT ![p].frm_lst = Append(@, job[p].vic.fpn), ![p].vic = NoNode,
                               ![p].swpfpn = 0, ![p].pc = AllocNext(p)]
              ELSE [job EXCEPT ![p].swpfpn = 0,
                               ![p].pc = IF job[p].kind = "reuse" THEN "reuse_enter" ELSE "enter"]
    /\ UNCHANGED <<reserved, mram_free, mswp_free, lru, MEM_in_use, ram, crashed>>

-----------------------------------------------------------------------------
(* pg_getpage and its callers *)

\* The mutex is taken, and the entry read.
getpage(p) ==
    /\ At(p, "getpage")
    /\ MEM_in_use["mm-vm"] = {}
    /\ MEM_in_use' = [MEM_in_use EXCEPT !["mm-vm"] = {p}]
    /\ job' = IF pgd[Current(p)].present THEN [job EXCEPT ![p].pc = "found"]
              ELSE [job EXCEPT ![p].pc = "frame", ![p].tgtfpn = PAGING_PTE_FPN(pgd[Current(p)])]
    /\ UNCHANGED <<reserved, pgd, mram_free, mswp_free, lru, ram, swp, crashed>>

\* A free frame of RAM is used.  The slot that was read is not given back.
frame(p) ==
    /\ At(p, "frame")
    /\ mram_free # << >>
    /\ mram_free' = Tail(mram_free)
    /\ ram' = swap_cp_page(swp, job[p].tgtfpn, ram, Head(mram_free))
    /\ pgd' = [pgd EXCEPT ![Current(p)] = pte_set_fpn(@, Head(mram_free))]
    /\ job' = [job EXCEPT ![p].pc = "found", ![p].tgtfpn = 0]
    /\ UNCHANGED <<reserved, mswp_free, lru, MEM_in_use, swp, crashed>>

\* There is none: a page must go.
frame_none(p) ==
    /\ At(p, "frame")
    /\ mram_free = << >>
    /\ Goto(p, "victim")
    /\ UNCHANGED <<reserved, pgd, mram_free, mswp_free, lru, MEM_in_use, ram, swp, crashed>>

\* Slip: the slot is not given back.
enter_keeps_slot(p) ==
    /\ At(p, "enter")
    /\ ram' = swap_cp_page(swp, job[p].tgtfpn, ram, job[p].vic.fpn)
    /\ pgd' = [pgd EXCEPT ![Current(p)] = pte_set_fpn(@, job[p].vic.fpn)]
    /\ job' = [job EXCEPT ![p].pc = "found", ![p].vic = NoNode, ![p].tgtfpn = 0]
    /\ UNCHANGED <<reserved, mram_free, mswp_free, lru, MEM_in_use, swp, crashed>>

\* The page is copied into the victim's frame, and the slot that was read given
\* back.
enter(p) ==
    /\ At(p, "enter")
    /\ ram' = swap_cp_page(swp, job[p].tgtfpn, ram, job[p].vic.fpn)
    /\ pgd' = [pgd EXCEPT ![Current(p)] = pte_set_fpn(@, job[p].vic.fpn)]
    /\ mswp_free' = MEMPHY_put_freefp(mswp_free, job[p].tgtfpn)
    /\ job' = [job EXCEPT ![p].pc = "found", ![p].vic = NoNode, ![p].tgtfpn = 0]
    /\ UNCHANGED <<reserved, mram_free, lru, MEM_in_use, swp, crashed>>

\* The page is noted as used, and its frame returned.  The two reads of the
\* entry, the change of the list and the unlock are one step.  Only a mapping or
\* a reuse on another CPU could come in between, under another mutex or none:
\* that needs Mixed, and would be one more way to what paging_locks shows.
found(p) ==
    /\ At(p, "found")
    /\ lru' = add_LRU_page(lru, Current(p), PAGING_PTE_FPN(pgd[Current(p)]))
    /\ job' = [job EXCEPT ![p].pc = "touch", ![p].fpn = PAGING_PTE_FPN(pgd[Current(p)])]
    /\ MEM_in_use' = [MEM_in_use EXCEPT !["mm-vm"] = @ \ {p}]
    /\ UNCHANGED <<reserved, pgd, mram_free, mswp_free, ram, swp, crashed>>

\* pg_getval and pg_setval: the byte is read or written, without a mutex.
touch(p) ==
    /\ At(p, "touch")
    /\ Continue(p, [job[p] EXCEPT !.pc = AfterAccess(p), !.pages = Rest(p), !.fpn = 0])
    /\ UNCHANGED <<reserved, pgd, mram_free, mswp_free, lru, MEM_in_use, ram, swp, crashed>>

\* The end of __read and __write.
update(p) ==
    /\ At(p, "update")
    /\ crashed' = (lru = << >>)
    /\ lru' = update_LRU_lst(lru, PAGING_PTE_FPN(pgd[Current(p)]))
    /\ Continue(p, [job[p] EXCEPT !.pc = "done"])
    /\ UNCHANGED <<reserved, pgd, mram_free, mswp_free, MEM_in_use, ram, swp>>

-----------------------------------------------------------------------------
(* vm_map_ram: alloc_pages_range, then vmap_page_range *)

map_lock(p) ==
    /\ At(p, "map_lock")
    /\ MEM_in_use["mm"] = {}
    /\ MEM_in_use' = [MEM_in_use EXCEPT !["mm"] = {p}]
    /\ Goto(p, "map_frame")
    /\ UNCHANGED <<reserved, pgd, mram_free, mswp_free, lru, ram, swp, crashed>>

\* alloc_pages_range finds a free frame.
map_frame(p) ==
    /\ At(p, "map_frame")
    /\ mram_free # << >>
    /\ mram_free' = Tail(mram_free)
    /\ job' = [job EXCEPT ![p].frm_lst = Append(@, Head(mram_free)), ![p].pc = AllocNext(p)]
    /\ UNCHANGED <<reserved, pgd, mswp_free, lru, MEM_in_use, ram, swp, crashed>>

map_frame_none(p) ==
    /\ At(p, "map_frame")
    /\ mram_free = << >>
    /\ Goto(p, "victim")
    /\ UNCHANGED <<reserved, pgd, mram_free, mswp_free, lru, MEM_in_use, ram, swp, crashed>>

\* vmap_page_range maps the last page first, to the frame that came last.  From
\* now on the bytes of the frame are those of the page.
map_page(p) ==
    LET n == Len(job[p].frm_lst)
        pg == job[p].pages[n]
        fpn == job[p].frm_lst[n]
    IN  /\ At(p, "map_page")
        /\ pgd' = [pgd EXCEPT ![pg] = pte_set_fpn(@, fpn)]
        /\ lru' = add_LRU_page(lru, pg, fpn)
        /\ ram' = [ram EXCEPT ![fpn] = Mark(pg)]
        /\ Continue(p, [job[p] EXCEPT !.frm_lst = SubSeq(@, 1, n - 1),
                                      !.pc = IF n = 1 THEN "done" ELSE "map_page"])
        /\ MEM_in_use' = IF n = 1 THEN [MEM_in_use EXCEPT !["mm"] = @ \ {p}] ELSE MEM_in_use
        /\ UNCHANGED <<reserved, mram_free, mswp_free, swp, crashed>>

-----------------------------------------------------------------------------
(* __alloc of a free region, which takes neither mutex *)

\* current_pte is copied.
reuse(p) ==
    /\ At(p, "reuse")
    /\ job' = [job EXCEPT ![p].pc = IF pgd[Current(p)].present THEN "reuse_update" ELSE "victim",
                          ![p].tgtfpn = PAGING_PTE_FPN(pgd[Current(p)])]
    /\ UNCHANGED <<reserved, pgd, mram_free, mswp_free, lru, MEM_in_use, ram, swp, crashed>>

reuse_enter(p) ==
    /\ At(p, "reuse_enter")
    /\ ram' = swap_cp_page(swp, job[p].tgtfpn, ram, job[p].vic.fpn)
    /\ pgd' = [pgd EXCEPT ![Current(p)] = pte_set_fpn(@, job[p].vic.fpn)]
    /\ lru' = add_LRU_page(lru, Current(p), job[p].vic.fpn)
    /\ job' = [job EXCEPT ![p].pc = "reuse_put", ![p].vic = NoNode]
    /\ UNCHANGED <<reserved, mram_free, mswp_free, MEM_in_use, swp, crashed>>

reuse_put(p) ==
    /\ At(p, "reuse_put")
    /\ mswp_free' = MEMPHY_put_freefp(mswp_free, job[p].tgtfpn)
    /\ Goto(p, "reuse_update")
    /\ UNCHANGED <<reserved, pgd, mram_free, lru, MEM_in_use, ram, swp, crashed>>

\* The list is updated with the copy of the entry that was made at first.
reuse_update(p) ==
    /\ At(p, "reuse_update")
    /\ crashed' = (lru = << >>)
    /\ lru' = update_LRU_lst(lru, job[p].tgtfpn)
    /\ Continue(p, [job[p] EXCEPT !.pc = IF Len(job[p].pages) = 1 THEN "done" ELSE "reuse",
                                  !.pages = Rest(p), !.tgtfpn = 0])
    /\ UNCHANGED <<reserved, pgd, mram_free, mswp_free, MEM_in_use, ram, swp>>

-----------------------------------------------------------------------------
start(p) ==
    \/ readwrite(p)
    \/ region(p, "free", "getpage")
    \/ region(p, "reuse", "reuse")
    \/ inc_vma_limit(p)

\* The steps of a CPU until it waits for the slot to end.
step(p) ==
    \/ victim(p) \/ slot(p) \/ slot_none_getpage(p) \/ slot_none_reuse(p) \/ slot_none_map(p)
    \/ evict(p)
    \/ getpage(p) \/ frame(p) \/ frame_none(p) \/ enter(p) \/ found(p) \/ touch(p) \/ update(p)
    \/ map_lock(p) \/ map_frame(p) \/ map_frame_none(p) \/ map_page(p)
    \/ reuse(p) \/ reuse_enter(p) \/ reuse_put(p) \/ reuse_update(p)

\* The process was killed by a signal.
Crashed == crashed /\ UNCHANGED vars

Next ==
    \/ \E p \in Proc : start(p) \/ step(p)
    \/ tick
    \/ Crashed

(***************************************************************************)
(* The threads run.  Whether a process has another instruction depends on  *)
(* the workload.  A CPU that waits for a mutex gets it, as an instruction  *)
(* takes it at most MaxPages times and no other starts before the slot     *)
(* ends, so weak fairness is enough.                                       *)
(***************************************************************************)
Spec == Init /\ [][Next]_vars /\ \A p \in Proc : WF_vars(step(p))

-----------------------------------------------------------------------------
(* Correctness *)

Present(pg) == pgd[pg].present

\* The CPU that runs p holds a frame that it took from a victim.
HoldsFrame(p) == job[p].pc \in {"enter", "reuse_enter"}

\* It is about to evict its victim.
Evicting(p) == job[p].pc \in {"slot", "evict"} /\ job[p].vic # NoNode

\* Everything that a frame belongs to.
Owners(f) ==
    {<<"page", pg>> : pg \in {pg \in Page : Present(pg) /\ pgd[pg].low = f}}
    \cup {<<"free", i>> : i \in {i \in 1 .. Len(mram_free) : mram_free[i] = f}}
    \cup {<<"held", p>> : p \in {p \in Proc : HoldsFrame(p) /\ job[p].vic.fpn = f}}
    \cup UNION {{<<"list", p, i>> : i \in {i \in 1 .. Len(job[p].frm_lst) : job[p].frm_lst[i] = f}} :
                p \in Proc}

\* A frame belongs to one page, to the free list, or to the CPU that is about
\* to give it to a page: no two pages share a frame and no frame is lost, although a
\* victim may be a page of a process that runs on another CPU.
FrameOwner == ~crashed => \A f \in Frames : Cardinality(Owners(f)) = 1

\* The CPU that runs p is between lock and unlock of the mutex of file f.
Inside(p, f) ==
    LET replacing == job[p].pc \in {"victim", "slot", "evict"}
    IN  IF f = "mm" THEN job[p].pc \in {"map_frame", "map_page"} \/ (replacing /\ job[p].kind = "map")
        ELSE job[p].pc \in {"frame", "enter", "found"} \/ (replacing /\ job[p].kind \in {"rw", "free"})

\* At most one CPU is inside vm_map_ram and at most one inside pg_getpage, and
\* whoever has left holds no mutex, on whatever path it left: no CPU can wait
\* for one that will not be given back.
MutexExact ==
    ~crashed => \A f \in {"mm", "mm-vm"} :
        /\ MEM_in_use[f] = {p \in Proc : Inside(p, f)}
        /\ Cardinality(MEM_in_use[f]) <= 1

\* The LRU list names present pages with the frames that they are in, and no
\* page twice.  As long as swap has not run out it names all of them, but for
\* those that are being evicted or that pg_getpage is about to add.
LruExact ==
    ~crashed =>
        /\ \A i \in 1 .. Len(lru) :
              Present(lru[i].page) /\ pgd[lru[i].page].low = lru[i].fpn
        /\ \A i, j \in 1 .. Len(lru) : lru[i].page = lru[j].page => i = j
        /\ mswp_free # << >> =>
              \A pg \in Page : Present(pg) =>
                  \/ \E i \in 1 .. Len(lru) : lru[i].page = pg
                  \/ \E p \in Proc : Evicting(p) /\ job[p].vic.page = pg
                  \/ \E p \in Proc : job[p].pc = "found" /\ Current(p) = pg

\* pg_getpage and __alloc give up with "Out of SWAP", and alloc_pages_range
\* looks for another device, only when at least as many pages are swapped out
\* as the device has slots.  This is about the number of pages, not about
\* where they are: what is put back on the free list is PAGING_PTE_FPN of the
\* entry, mostly another slot than the one the page was in (see DataKept).
OutOfSwapJustified ==
    \A p \in Proc :
        At(p, "slot") /\ mswp_free = << >> =>
            Cardinality({pg \in Page : pgd[pg].swapped}) >= NSwap

\* The frame that pg_getpage returned is still the page's when pg_setval or
\* pg_getval uses it, after the mutex was given back: the other CPUs cannot
\* evict a page that has just moved to the end of the list before the slot
\* ends, if RAM has more frames than their instructions are about.
AccessFresh ==
    \A p \in Proc :
        /\ At(p, "touch")
        /\ \A q \in Proc \ {p} : NFrames > (NCPU - 1) * job[q].size
        => /\ Present(Current(p)) /\ pgd[Current(p)].low = job[p].fpn
           /\ \A q \in Proc : job[q].pc = "evict" => job[q].vic.fpn # job[p].fpn

\* The bytes of a page in RAM are its own, also after it has been swapped out
\* and in again, and those of a page that is swapped out are in a slot: none
\* that is in use is handed out again.
DataKept ==
    ~crashed => \A pg \in Page :
        /\ Present(pg) => ram[pgd[pg].low] = Mark(pg)
        /\ pgd[pg].swapped => \E s \in Slots : swp[s] = Mark(pg)

\* Every instruction that has come as far as the page tables (get_free_vmrg_area
\* comes before, in VmArea) ends, and its CPU comes to next_slot, whether or not
\* there is room in RAM and in swap.
InstructionEnds == \A p \in Proc : Busy(p) ~> (job[p].pc = "done" \/ crashed)
=============================================================================
