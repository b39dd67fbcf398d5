---------------------------- MODULE PagingProofs ----------------------------
(***************************************************************************)
(* Proofs about paging for any number of CPUs, processes, pages, frames    *)
(* and slots.  The use of the two mutexes is proved for every workload;    *)
(* that frames, the LRU list and slots are kept in order is proved for     *)
(* workloads in which instructions of different kinds do not overlap       *)
(* (~Mixed), as it fails otherwise.                                        *)
(***************************************************************************)
EXTENDS Paging, FiniteSetTheorems, SequenceTheorems, WellFoundedInduction, TLAPS

-----------------------------------------------------------------------------
(* What holds whatever overlaps *)

\* The types of a job; that the frames of frm_lst are frames of RAM is left
\* to MapInv.
Jobs ==
    [pc : Labels, kind : Kinds, size : 0 .. MaxPages, pages : Seq(Page),
     tgtfpn : 0 .. FPN_MOD - 1, vic : Node \cup {NoNode},
     swpfpn : Slots, fpn : 0 .. FPN_MOD - 1, frm_lst : Seq(0 .. FPN_MOD - 1)]

JobType == job \in [Proc -> Jobs]

StateType ==
    /\ reserved \in [Proc -> 0 .. NPages]
    /\ pgd \in [Page -> Pte]
    /\ mram_free \in Seq(Frames)
    /\ mswp_free \in Seq(Slots)
    /\ lru \in Seq(Node)
    /\ MEM_in_use \in [{"mm", "mm-vm"} -> SUBSET Proc]
    /\ crashed \in BOOLEAN

\* Which instruction a CPU runs, by where it is.
KindInv ==
    \A p \in Proc :
        /\ job[p].pc \in {"getpage", "frame", "enter", "found", "touch"} =>
              job[p].kind \in {"rw", "free"}
        /\ job[p].pc = "update" => job[p].kind = "rw"
        /\ job[p].pc \in {"map_lock", "map_frame", "map_page"} => job[p].kind = "map"
        /\ job[p].pc \in {"reuse", "reuse_enter", "reuse_put", "reuse_update"} =>
              job[p].kind = "reuse"

\* The pages of an instruction are different reserved pages of its process.
PagesInv ==
    \A p \in Proc : Busy(p) =>
        /\ Len(job[p].pages) \in 1 .. job[p].size
        /\ \A i \in 1 .. Len(job[p].pages) :
              /\ job[p].pages[i][1] = p
              /\ job[p].pages[i][2] < reserved[p] \/ job[p].pages[i][2] = NPages
              /\ \A j \in 1 .. Len(job[p].pages) : job[p].pages[i] = job[p].pages[j] => i = j

\* What is read from the entry of a page that is not in RAM is a slot.
Reading(p) ==
    \/ job[p].pc \in {"frame", "enter", "reuse_enter", "reuse_put"}
    \/ job[p].pc \in {"victim", "slot", "evict"} /\ job[p].kind # "map"

SwapInv ==
    /\ \A pg \in Page : ~Present(pg) => pgd[pg].low \in Slots
    /\ \A p \in Proc : Reading(p) => job[p].tgtfpn \in Slots

\* Whoever is between lock and unlock, and only it, holds the mutex.
MutexInv ==
    \A f \in {"mm", "mm-vm"} :
        /\ MEM_in_use[f] = {p \in Proc : Inside(p, f)}
        /\ \A p, q \in MEM_in_use[f] : p = q

\* alloc_pages_range collects frames until there are as many as pages, and
\* vmap_page_range uses them up.
ListInv ==
    \A p \in Proc :
        /\ job[p].frm_lst # << >> =>
              job[p].kind = "map" /\ job[p].pc \in {"map_frame", "victim", "slot", "evict", "map_page"}
        /\ job[p].pc = "map_page" => Len(job[p].frm_lst) \in 1 .. Len(job[p].pages)
        /\ Busy(p) /\ job[p].kind = "map" /\ job[p].pc # "map_page" =>
              Len(job[p].frm_lst) < Len(job[p].pages)

BaseInv == JobType /\ StateType /\ KindInv /\ PagesInv /\ ListInv /\ SwapInv /\ MutexInv

-----------------------------------------------------------------------------
(* What holds when only instructions of the same kind overlap *)

\* Instructions that overlap are all accesses or all mappings.
ClassInv ==
    \A p, q \in Proc : p # q /\ Busy(p) /\ Busy(q) =>
        /\ Class(job[p].kind) = Class(job[q].kind)
        /\ job[p].kind # "reuse"

\* Where a CPU uses frames, slots or a victim: only one at a time, as follows
\* from ClassInv and MutexInv.
Critical(p) == Busy(p) /\ job[p].pc \notin {"getpage", "touch", "update", "map_lock"}

\* A page that was never mapped.
Fresh(pg) == ~Present(pg) /\ ~pgd[pg].swapped

\* Frame f is neither free nor in use by a page.
Unused(f) ==
    /\ f \in Frames
    /\ \A i \in 1 .. Len(mram_free) : mram_free[i] # f
    /\ \A pg \in Page : Present(pg) => pgd[pg].low # f

\* The present pages are in frames of their own, which are not free.
PresentInv ==
    /\ \A pg \in Page : Present(pg) =>
          /\ pgd[pg].low \in Frames /\ ~pgd[pg].swapped
          /\ \A i \in 1 .. Len(mram_free) : mram_free[i] # pgd[pg].low
          /\ \A po \in Page : Present(po) /\ pgd[po].low = pgd[pg].low => po = pg
    /\ \A i, j \in 1 .. Len(mram_free) : mram_free[i] = mram_free[j] => i = j

\* Pages that are not reserved were never mapped.
FreshInv ==
    \A p \in Proc : \A n \in 0 .. NPages - 1 : n >= reserved[p] => Fresh(<<p, n>>)

\* The frames collected for a mapping are nobody's, and the pages that are
\* still to be mapped were never mapped.
MapInv ==
    \A p \in Proc :
        /\ \A i \in 1 .. Len(job[p].frm_lst) :
              /\ Unused(job[p].frm_lst[i])
              /\ \A j \in 1 .. Len(job[p].frm_lst) : job[p].frm_lst[i] = job[p].frm_lst[j] => i = j
        /\ Busy(p) /\ job[p].kind = "map" =>
              \A i \in 1 .. Len(job[p].pages) :
                 job[p].pc # "map_page" \/ i <= Len(job[p].frm_lst) => Fresh(job[p].pages[i])

\* The page that is asked for is absent until it has a frame.
NeedInv ==
    \A p \in Proc :
        /\ Reading(p) /\ job[p].pc # "reuse_put" => ~Present(Current(p))
        /\ job[p].pc = "found" => Present(Current(p))

\* A victim is a present page that is no longer on the list; once evicted, its
\* frame is nobody's.
VictimInv ==
    \A p \in Proc :
        /\ job[p].pc \in {"evict", "enter", "reuse_enter"} => job[p].vic # NoNode
        /\ Evicting(p) =>
              /\ job[p].vic.page \in Page
              /\ Present(job[p].vic.page) /\ pgd[job[p].vic.page].low = job[p].vic.fpn
              /\ \A i \in 1 .. Len(lru) : lru[i].page # job[p].vic.page
        /\ HoldsFrame(p) => Unused(job[p].vic.fpn)
        /\ job[p].pc \in {"victim", "slot", "evict"} /\ job[p].kind # "reuse" => mram_free = << >>

\* The LRU list names present pages and their frames, no page twice.
LruInv ==
    /\ \A i \in 1 .. Len(lru) : Present(lru[i].page) /\ pgd[lru[i].page].low = lru[i].fpn
    /\ \A i, j \in 1 .. Len(lru) : lru[i].page = lru[j].page => i = j

\* No frame is lost.
OwnedInv ==
    \A f \in Frames :
        \/ \E i \in 1 .. Len(mram_free) : mram_free[i] = f
        \/ \E pg \in Page : Present(pg) /\ pgd[pg].low = f
        \/ \E p \in Proc : HoldsFrame(p) /\ job[p].vic.fpn = f
        \/ \E p \in Proc : \E i \in 1 .. Len(job[p].frm_lst) : job[p].frm_lst[i] = f

\* Page pg is on the list, being evicted, or about to be added.
Known(pg) ==
    \/ \E i \in 1 .. Len(lru) : lru[i].page = pg
    \/ \E p \in Proc : Evicting(p) /\ job[p].vic.page = pg
    \/ \E p \in Proc : job[p].pc = "found" /\ Current(p) = pg

\* A slot was taken that may still come back.
SlotOut == \E p \in Proc : job[p].pc \in {"evict", "enter", "reuse_enter", "reuse_put"}

\* When swap is exhausted for good, the list may have lost victims.
CoverInv == mswp_free # << >> \/ SlotOut => \A pg \in Page : Present(pg) => Known(pg)

\* The pages that are swapped out.
Swapped == {pg \in Page : pgd[pg].swapped}

OneOut(labels) == IF \E p \in Proc : job[p].pc \in labels THEN 1 ELSE 0

\* Free entries, pages swapped out and the slot that a CPU has in hand are
\* together no fewer than the slots.  Only their number is kept, not which
\* slots they are.
SlotInv ==
    /\ Len(mswp_free) + Cardinality(Swapped) + OneOut({"evict", "reuse_put"}) >= NSwap
    /\ mram_free # << >> =>
          Len(mswp_free) + OneOut({"evict", "reuse_enter", "reuse_put"}) >= NSwap

MemInv == /\ PresentInv /\ FreshInv /\ MapInv /\ NeedInv /\ VictimInv /\ LruInv
          /\ OwnedInv /\ CoverInv /\ SlotInv

IInv == BaseInv /\ ClassInv /\ (~crashed => MemInv)

-----------------------------------------------------------------------------
(* Sequences *)

\* A part of a sequence.
LEMMA PartSeq ==
    ASSUME NEW S, NEW s \in Seq(S), NEW m \in Nat \ {0}, NEW n \in Int, n <= Len(s)
    PROVE  /\ SubSeq(s, m, n) \in Seq(S)
           /\ Len(SubSeq(s, m, n)) = IF m <= n THEN n - m + 1 ELSE 0
           /\ \A i \in 1 .. n - m + 1 : SubSeq(s, m, n)[i] = s[m + i - 1]
<1>1. \A i \in m .. n : s[i] \in S
    OBVIOUS
<1>2. m \in Int /\ n \in Int
    OBVIOUS
<1> QED
    BY <1>1, <1>2, SubSeqProperties

\* A sequence without its last element.
LEMMA ButLast ==
    ASSUME NEW S, NEW s \in Seq(S), s # << >>
    PROVE  /\ SubSeq(s, 1, Len(s) - 1) \in Seq(S)
           /\ Len(SubSeq(s, 1, Len(s) - 1)) = Len(s) - 1
           /\ \A i \in 1 .. Len(s) - 1 : SubSeq(s, 1, Len(s) - 1)[i] = s[i]
<1> DEFINE n == Len(s) - 1
<1>1. n \in Nat /\ n <= Len(s) /\ 1 \in Nat \ {0} /\ n - 1 + 1 = n
    OBVIOUS
<1>2. /\ SubSeq(s, 1, n) \in Seq(S)
      /\ Len(SubSeq(s, 1, n)) = IF 1 <= n THEN n - 1 + 1 ELSE 0
      /\ \A i \in 1 .. n - 1 + 1 : SubSeq(s, 1, n)[i] = s[1 + i - 1]
    BY <1>1, PartSeq
<1> QED
    BY <1>1, <1>2

-----------------------------------------------------------------------------
(* Jobs *)

\* Numbers that are used without saying.
LEMMA Sizes ==
    /\ NPages \in Nat /\ NFrames \in Nat \ {0} /\ NSwap \in Nat \ {0} /\ FPN_MOD \in Nat \ {0}
    /\ MaxPages \in Nat \ {0} /\ SWPOFF_UNIT \in Nat
    /\ Frames \subseteq 0 .. FPN_MOD - 1 /\ Slots \subseteq Nat
    /\ 0 \in Frames /\ 0 \in Slots /\ 0 \in 0 .. FPN_MOD - 1
BY SizeAssumption, FormatAssumption, RequestAssumption, FieldAssumption DEF Frames, Slots

\* A CPU without an instruction.
LEMMA RestingJob ==
    /\ Resting \in Jobs /\ Resting.pc = "idle" /\ Resting.frm_lst = << >>
    /\ \A n \in 0 .. MaxPages :
          /\ [Resting EXCEPT !.pc = "done", !.size = n] \in Jobs
          /\ [Resting EXCEPT !.pc = "done", !.size = n].pc = "done"
          /\ [Resting EXCEPT !.pc = "done", !.size = n].frm_lst = << >>
          /\ [Resting EXCEPT !.pc = "done", !.size = n].size = n
<1>1. << >> \in Seq(Page) /\ << >> \in Seq(0 .. FPN_MOD - 1)
    OBVIOUS
<1>2. NoNode \in Node \cup {NoNode} /\ 0 \in 0 .. MaxPages
    BY Sizes
<1>3. "idle" \in Labels /\ "done" \in Labels /\ "rw" \in Kinds
    BY DEF Labels, Kinds
<1>4. Resting \in Jobs /\ Resting.pc = "idle" /\ Resting.frm_lst = << >>
    BY <1>1, <1>2, <1>3, Sizes DEF Resting, Jobs
<1>5. ASSUME NEW n \in 0 .. MaxPages
      PROVE  /\ [Resting EXCEPT !.pc = "done", !.size = n] \in Jobs
             /\ [Resting EXCEPT !.pc = "done", !.size = n].pc = "done"
             /\ [Resting EXCEPT !.pc = "done", !.size = n].frm_lst = << >>
             /\ [Resting EXCEPT !.pc = "done", !.size = n].size = n
    BY <1>3, <1>4 DEF Jobs
<1> QED
    BY <1>4, <1>5

\* The job of p is replaced by j.
LEMMA JobUpdate ==
    ASSUME JobType, NEW p \in Proc, NEW j \in Jobs, job' = [job EXCEPT ![p] = j]
    PROVE  JobType' /\ job'[p] = j /\ \A q \in Proc : q # p => job'[q] = job[q]
BY DEF JobType

\* The CPU goes on with the same instruction: its pages are the same, or the
\* first of several is dealt with.
GoesOn(p) ==
    /\ job'[p].pc \notin {"idle", "done"}
    /\ job'[p].kind = job[p].kind
    /\ job'[p].size = job[p].size
    /\ \/ job'[p].pages = job[p].pages
       \/ Len(job[p].pages) > 1 /\ job'[p].pages = Tail(job[p].pages)

\* It is at the end of it, and its locals are gone.
Ends(p) == job'[p].pc = "done" /\ job'[p].frm_lst = << >>

\* Where a step leads, and what it does to the job.
LEMMA StepJob ==
    ASSUME BaseInv, NEW p \in Proc, step(p)
    PROVE  /\ JobType'
           /\ \A q \in Proc : q # p => job'[q] = job[q]
           /\ Busy(p)
           /\ GoesOn(p) \/ Ends(p)
<1> DEFINE j == job[p]
           On(r) == /\ r.pc \notin {"idle", "done"}
                    /\ r.kind = j.kind /\ r.size = j.size
                    /\ r.pages = j.pages \/ (Len(j.pages) > 1 /\ r.pages = Tail(j.pages))
           G(r) == r \in Jobs /\ (On(r) \/ (r.pc = "done" /\ r.frm_lst = << >>))
<1>0. j \in Jobs /\ JobType
    BY DEF BaseInv, JobType
<1>1. Busy(p)
    BY DEF step, At, Busy, victim, slot, slot_none_getpage, slot_none_reuse, slot_none_map, evict,
       getpage, frame, frame_none, enter, found, touch, update, map_lock, map_frame,
       map_frame_none, map_page, reuse, reuse_enter, reuse_put, reuse_update
<1>2. /\ j.pages \in Seq(Page) /\ Len(j.pages) \in Nat \ {0} /\ Len(j.pages) <= j.size
      /\ j.size \in 0 .. MaxPages
    BY <1>0, <1>1 DEF BaseInv, PagesInv, Jobs
<1>3. /\ Rest(p) \in Seq(Page)
      /\ Rest(p) = j.pages \/ (Len(j.pages) > 1 /\ Rest(p) = Tail(j.pages))
  <2>1. j.pages # << >>
    BY <1>2
  <2>2. Tail(j.pages) \in Seq(Page)
    BY <1>2, <2>1
  <2>3. CASE Len(j.pages) = 1
    BY <1>2, <2>3 DEF Rest
  <2>4. CASE Len(j.pages) # 1
    <3>0. \A k \in Nat \ {0} : k # 1 => k > 1
      OBVIOUS
    <3>1. Len(j.pages) > 1
      BY <1>2, <2>4, <3>0
    <3> QED
      BY <2>2, <2>4, <3>1 DEF Rest
  <2> QED
    BY <2>3, <2>4
<1>4. SUFFICES \E r : G(r) /\ job' = [job EXCEPT ![p] = r]
    BY <1>0, <1>1, JobUpdate DEF GoesOn, Ends
<1>5. ASSUME NEW r \in Jobs, Continue(p, r), r.pc = "done" \/ On(r)
      PROVE  \E s : G(s) /\ job' = [job EXCEPT ![p] = s]
  <2>1. CASE r.pc = "done"
    <3>1. r.size \in 0 .. MaxPages
      BY DEF Jobs
    <3>2. G([Resting EXCEPT !.pc = "done", !.size = r.size])
      BY <3>1, RestingJob
    <3> HIDE DEF G
    <3> QED
      BY <1>5, <2>1, <3>2 DEF Continue
  <2>2. CASE r.pc # "done"
    <3>1. G(r)
      BY <1>5, <2>2
    <3> HIDE DEF G
    <3> QED
      BY <1>5, <2>2, <3>1 DEF Continue
  <2> QED
    BY <2>1, <2>2
<1>6. /\ {"slot", "evict", "found", "frame", "victim", "touch", "map_frame", "map_page", "reuse_enter",
        "enter", "reuse_put", "reuse_update", "reuse", "update", "getpage", "done"} \subseteq Labels
      /\ NoNode \in Node \cup {NoNode}
    BY DEF Labels
<1>7. AfterAccess(p) \in {"update", "done", "getpage"} /\ AllocNext(p) \in {"map_page", "map_frame"}
    BY DEF AfterAccess, AllocNext
<1>8. /\ mswp_free \in Seq(Slots) /\ mram_free \in Seq(Frames) /\ lru \in Seq(Node)
      /\ pgd \in [Page -> Pte] /\ Current(p) \in Page /\ pgd[Current(p)].low \in 0 .. FPN_MOD - 1
    BY <1>2 DEF BaseInv, StateType, Current, Pte
<1>e. j.vic.fpn \in 0 .. FPN_MOD - 1
  <2>1. j.vic \in Node \cup {NoNode}
    BY <1>0 DEF Jobs
  <2> QED
    BY <2>1, Sizes DEF Node, NoNode
<1>9. CASE victim(p)
  <2>1. lru # << >> => Head(lru) \in Node
    BY <1>8
  <2>2. G([j EXCEPT !.pc = "slot", !.vic = IF lru = << >> THEN NoNode ELSE Head(lru)])
    BY <1>0, <1>6, <2>1 DEF Jobs
  <2> HIDE DEF G
  <2> QED
    BY <1>0, <1>9, <2>2 DEF victim
<1>10. CASE slot(p)
  <2>1. Head(mswp_free) \in Slots
    BY <1>8, <1>10 DEF slot
  <2>2. G([j EXCEPT !.pc = "evict", !.swpfpn = Head(mswp_free)])
    BY <1>0, <1>6, <2>1 DEF Jobs
  <2> HIDE DEF G
  <2> QED
    BY <1>0, <1>10, <2>2 DEF slot
<1>11. CASE slot_none_getpage(p)
  <2> DEFINE r == [j EXCEPT !.pc = AfterAccess(p), !.pages = Rest(p), !.vic = NoNode, !.tgtfpn = 0]
  <2>2. r \in Jobs /\ (r.pc = "done" \/ On(r))
    BY <1>0, <1>3, <1>6, <1>7, Sizes DEF Jobs
  <2>3. Continue(p, r)
    BY <1>11 DEF slot_none_getpage
  <2> HIDE DEF r, G, On
  <2> QED
    BY <1>5, <2>2, <2>3
<1>12. CASE slot_none_reuse(p)
  <2> DEFINE r == [j EXCEPT !.pc = "done"]
  <2>2. r \in Jobs /\ (r.pc = "done" \/ On(r))
    BY <1>0, <1>3, <1>6, <1>7, Sizes DEF Jobs
  <2>3. Continue(p, r)
    BY <1>12 DEF slot_none_reuse
  <2> HIDE DEF r, G, On
  <2> QED
    BY <1>5, <2>2, <2>3
<1>13. CASE slot_none_map(p)
  <2>1. job' = [job EXCEPT ![p] = j]
    BY <1>0, <1>13 DEF slot_none_map, JobType
  <2>2. G(j)
    BY <1>0, <1>1 DEF Busy
  <2> HIDE DEF G
  <2> QED
    BY <2>1, <2>2
<1>14. CASE evict(p) /\ j.kind = "map"
  <2>1. /\ Append(j.frm_lst, j.vic.fpn) \in Seq(0 .. FPN_MOD - 1)
        /\ AllocNext(p) \in Labels
    BY <1>0, <1>6, <1>7, <1>e DEF Jobs
  <2>2. G([j EXCEPT !.frm_lst = Append(@, j.vic.fpn), !.vic = NoNode, !.swpfpn = 0,
                    !.pc = AllocNext(p)])
    BY <1>0, <1>6, <1>7, <2>1, Sizes DEF Jobs
  <2> HIDE DEF G
  <2> QED
    BY <1>0, <1>14, <2>2 DEF evict
<1>15. CASE evict(p) /\ j.kind # "map"
  <2> DEFINE l == IF j.kind = "reuse" THEN "reuse_enter" ELSE "enter"
  <2>2. G([j EXCEPT !.swpfpn = 0, !.pc = l])
    BY <1>0, <1>6, Sizes DEF Jobs
  <2> HIDE DEF G
  <2> QED
    BY <1>0, <1>15, <2>2 DEF evict
<1>16. CASE getpage(p)
  <2>1. G([j EXCEPT !.pc = "found"])
    BY <1>0, <1>6 DEF Jobs
  <2>2. G([j EXCEPT !.pc = "frame", !.tgtfpn = pgd[Current(p)].low])
    BY <1>0, <1>6, <1>8 DEF Jobs
  <2> HIDE DEF G
  <2> QED
    BY <1>0, <1>16, <2>1, <2>2 DEF getpage, PAGING_PTE_FPN
<1>17. CASE frame(p)
  <2>2. G([j EXCEPT !.pc = "found", !.tgtfpn = 0])
    BY <1>0, <1>6, <1>7, <1>8, Sizes DEF Jobs
  <2> HIDE DEF G
  <2> QED
    BY <1>0, <1>17, <2>2 DEF frame, Goto
<1>18. CASE frame_none(p)
  <2>2. G([j EXCEPT !.pc = "victim"])
    BY <1>0, <1>6, <1>7, <1>8 DEF Jobs
  <2> HIDE DEF G
  <2> QED
    BY <1>0, <1>18, <2>2 DEF frame_none, Goto
<1>19. CASE enter(p)
  <2>2. G([j EXCEPT !.pc = "found", !.vic = NoNode, !.tgtfpn = 0])
    BY <1>0, <1>6, <1>7, <1>8, Sizes DEF Jobs
  <2> HIDE DEF G
  <2> QED
    BY <1>0, <1>19, <2>2 DEF enter, Goto
<1>20. CASE found(p)
  <2>2. G([j EXCEPT !.pc = "touch", !.fpn = pgd[Current(p)].low])
    BY <1>0, <1>6, <1>8 DEF Jobs
  <2> HIDE DEF G
  <2> QED
    BY <1>0, <1>20, <2>2 DEF found, PAGING_PTE_FPN
<1>21. CASE touch(p)
  <2> DEFINE r == [j EXCEPT !.pc = AfterAccess(p), !.pages = Rest(p), !.fpn = 0]
  <2>2. r \in Jobs /\ (r.pc = "done" \/ On(r))
    BY <1>0, <1>3, <1>6, <1>7, Sizes DEF Jobs
  <2>3. Continue(p, r)
    BY <1>21 DEF touch
  <2> HIDE DEF r, G, On
  <2> QED
    BY <1>5, <2>2, <2>3
<1>22. CASE update(p)
  <2> DEFINE r == [j EXCEPT !.pc = "done"]
  <2>2. r \in Jobs /\ (r.pc = "done" \/ On(r))
    BY <1>0, <1>3, <1>6, <1>7, Sizes DEF Jobs
  <2>3. Continue(p, r)
    BY <1>22 DEF update
  <2> HIDE DEF r, G, On
  <2> QED
    BY <1>5, <2>2, <2>3
<1>23. CASE map_lock(p)
  <2>2. G([j EXCEPT !.pc = "map_frame"])
    BY <1>0, <1>6, <1>7, <1>8 DEF Jobs
  <2> HIDE DEF G
  <2> QED
    BY <1>0, <1>23, <2>2 DEF map_lock, Goto
<1>24. CASE map_frame(p)
  <2>1. /\ Append(j.frm_lst, Head(mram_free)) \in Seq(0 .. FPN_MOD - 1)
        /\ AllocNext(p) \in Labels
    <3>1. Head(mram_free) \in 0 .. FPN_MOD - 1
      BY SMTT(30), <1>8, <1>24, Sizes DEF map_frame
    <3> QED
      BY <1>0, <1>6, <1>7, <3>1 DEF Jobs
  <2>2. G([j EXCEPT !.frm_lst = Append(@, Head(mram_free)), !.pc = AllocNext(p)])
    BY <1>0, <1>6, <1>7, <2>1 DEF Jobs
  <2> HIDE DEF G
  <2> QED
    BY <1>0, <1>24, <2>2 DEF map_frame
<1>25. CASE map_frame_none(p)
  <2>2. G([j EXCEPT !.pc = "victim"])
    BY <1>0, <1>6, <1>7, <1>8 DEF Jobs
  <2> HIDE DEF G
  <2> QED
    BY <1>0, <1>25, <2>2 DEF map_frame_none, Goto
<1>26. CASE map_page(p)
  <2> DEFINE n == Len(j.frm_lst)
             r == [j EXCEPT !.frm_lst = SubSeq(@, 1, n - 1),
                            !.pc = IF n = 1 THEN "done" ELSE "map_page"]
  <2>1. SubSeq(j.frm_lst, 1, n - 1) \in Seq(0 .. FPN_MOD - 1)
    <3>1. j.frm_lst \in Seq(0 .. FPN_MOD - 1)
      BY <1>0 DEF Jobs
    <3>2. 1 \in Nat \ {0} /\ n - 1 \in Int /\ n - 1 <= n
      BY <3>1
    <3> QED
      BY <3>1, <3>2, PartSeq
  <2>2. r \in Jobs /\ (r.pc = "done" \/ On(r))
    BY <1>0, <1>6, <2>1 DEF Jobs
  <2>3. Continue(p, r)
    BY <1>26 DEF map_page
  <2> HIDE DEF r, G, On
  <2> QED
    BY <1>5, <2>2, <2>3
<1>27. CASE reuse(p)
  <2> DEFINE l == IF pgd[Current(p)].present THEN "reuse_update" ELSE "victim"
  <2>2. G([j EXCEPT !.pc = l, !.tgtfpn = pgd[Current(p)].low])
    BY <1>0, <1>6, <1>8 DEF Jobs
  <2> HIDE DEF G
  <2> QED
    BY <1>0, <1>27, <2>2 DEF reuse, PAGING_PTE_FPN
<1>28. CASE reuse_enter(p)
  <2>2. G([j EXCEPT !.pc = "reuse_put", !.vic = NoNode])
    BY <1>0, <1>6, <1>7, <1>8 DEF Jobs
  <2> HIDE DEF G
  <2> QED
    BY <1>0, <1>28, <2>2 DEF reuse_enter, Goto
<1>29. CASE reuse_put(p)
  <2>2. G([j EXCEPT !.pc = "reuse_update"])
    BY <1>0, <1>6, <1>7, <1>8 DEF Jobs
  <2> HIDE DEF G
  <2> QED
    BY <1>0, <1>29, <2>2 DEF reuse_put, Goto
<1>30. CASE reuse_update(p)
  <2> DEFINE l == IF Len(j.pages) = 1 THEN "done" ELSE "reuse"
  <2> DEFINE r == [j EXCEPT !.pc = l, !.pages = Rest(p), !.tgtfpn = 0]
  <2>2. r \in Jobs /\ (r.pc = "done" \/ On(r))
    BY <1>0, <1>3, <1>6, <1>7, Sizes DEF Jobs
  <2>3. Continue(p, r)
    BY <1>30 DEF reuse_update
  <2> HIDE DEF r, G, On
  <2> QED
    BY <1>5, <2>2, <2>3
<1> QED
    BY <1>9, <1>10, <1>11, <1>12, <1>13, <1>14, <1>15, <1>16, <1>17, <1>18, <1>19, <1>20, <1>21,
       <1>22, <1>23, <1>24, <1>25, <1>26, <1>27, <1>28, <1>29, <1>30 DEF step

\* CPU p starts an instruction on n pages from page lo on.
Begun(p, kind, l, lo, n) ==
    /\ UNCHANGED <<pgd, mram_free, mswp_free, lru, MEM_in_use, ram, swp, crashed>>
    /\ ~crashed /\ MayOverlap(p, kind)
    /\ Cardinality({q \in Proc : job[q].pc # "idle"}) < NCPU
    /\ JobType' /\ (\A q \in Proc : q # p => job'[q] = job[q])
    /\ job[p].pc = "idle"
    /\ job'[p].pc = l /\ job'[p].kind = kind /\ job'[p].size = n
    /\ job'[p].frm_lst = << >>
    /\ Len(job'[p].pages) = n
    /\ \A i \in 1 .. n : job'[p].pages[i] = <<p, lo + i - 1>>

LEMMA BeginJob ==
    ASSUME JobType, NEW p \in Proc, NEW kind \in Kinds, NEW l \in Labels,
           NEW lo \in Nat, NEW n \in 1 .. MaxPages, lo + n - 1 <= NPages,
           begin(p, kind, PagesFrom(p, lo, n), l)
    PROVE  Begun(p, kind, l, lo, n)
<1> DEFINE s == PagesFrom(p, lo, n)
           j == [Resting EXCEPT !.pc = l, !.kind = kind, !.size = Len(s), !.pages = s]
<1>1. n \in Nat /\ NPages \in Nat /\ MaxPages \in Nat
    BY Sizes
<1>2. \A i \in 1 .. n : <<p, lo + i - 1>> \in Page
  <2>1. \A i \in 1 .. n : lo + i - 1 \in 0 .. NPages
    BY <1>1
  <2> QED
    BY <2>1 DEF Page
<1>3. s \in [1 .. n -> Page] /\ \A i \in 1 .. n : s[i] = <<p, lo + i - 1>>
    BY <1>2 DEF PagesFrom
<1> HIDE DEF s
<1>4. s \in Seq(Page) /\ Len(s) = n
    BY <1>1, <1>3
<1>5. job' = [job EXCEPT ![p] = j]
    BY DEF begin, s
<1>6. Resting \in Jobs /\ Resting.frm_lst = << >>
    BY RestingJob
<1>7. n \in 0 .. MaxPages
    BY <1>1
<1>8. /\ j \in Jobs /\ j.pc = l /\ j.kind = kind /\ j.size = n /\ j.frm_lst = << >>
      /\ j.pages = s
    BY <1>4, <1>6, <1>7 DEF Jobs
<1> HIDE DEF j
<1>9. JobType' /\ job'[p] = j /\ \A q \in Proc : q # p => job'[q] = job[q]
    BY <1>5, <1>8, JobUpdate
<1>10. /\ UNCHANGED <<pgd, mram_free, mswp_free, lru, MEM_in_use, ram, swp, crashed>>
       /\ ~crashed /\ MayOverlap(p, kind)
       /\ Cardinality({q \in Proc : job[q].pc # "idle"}) < NCPU
       /\ job[p].pc = "idle"
    BY DEF begin, At
<1> QED
    BY <1>3, <1>4, <1>8, <1>9, <1>10 DEF Begun

\* Where each kind of instruction starts.
StartsAt(kind, l) ==
    \/ l = "getpage" /\ kind \in {"rw", "free"}
    \/ l = "reuse" /\ kind = "reuse"
    \/ l = "map_lock" /\ kind = "map"

\* An instruction of p may be about n pages from page lo on.
About(p, kind, lo, n) ==
    /\ lo + n <= reserved'[p] \/ (lo = NPages /\ n = 1 /\ kind # "map")
    /\ kind = "map" => reserved[p] = lo

LEMMA StartForm ==
    ASSUME BaseInv, NEW p \in Proc, start(p)
    PROVE  /\ reserved' \in [Proc -> 0 .. NPages] /\ \A q \in Proc : reserved[q] <= reserved'[q]
           /\ \E kind \in Kinds, l \in Labels, lo \in Nat, n \in 1 .. MaxPages :
                 /\ StartsAt(kind, l) /\ About(p, kind, lo, n)
                 /\ lo + n - 1 <= NPages
                 /\ begin(p, kind, PagesFrom(p, lo, n), l)
<1> DEFINE Found == \E kind \in Kinds, l \in Labels, lo \in Nat, n \in 1 .. MaxPages :
                 /\ StartsAt(kind, l) /\ About(p, kind, lo, n)
                 /\ lo + n - 1 <= NPages
                 /\ begin(p, kind, PagesFrom(p, lo, n), l)
           Res == reserved' \in [Proc -> 0 .. NPages] /\ \A q \in Proc : reserved[q] <= reserved'[q]
<1> SUFFICES Found /\ Res
    OBVIOUS
<1>0. reserved \in [Proc -> 0 .. NPages] /\ NPages \in Nat /\ MaxPages \in Nat \ {0}
    BY Sizes DEF BaseInv, StateType
<1>1. reserved[p] \in 0 .. NPages /\ reserved[p] \in Nat
    BY <1>0
<1>2. /\ "getpage" \in Labels /\ "reuse" \in Labels /\ "map_lock" \in Labels
      /\ "rw" \in Kinds /\ "free" \in Kinds /\ "reuse" \in Kinds /\ "map" \in Kinds
    BY DEF Labels, Kinds
<1>3. ASSUME NEW kind \in Kinds, NEW l \in Labels, NEW lo \in 0 .. NPages, NEW n \in 1 .. MaxPages,
             StartsAt(kind, l), kind # "map",
             lo + n <= reserved[p] \/ (lo = NPages /\ n = 1),
             begin(p, kind, PagesFrom(p, lo, n), l), reserved' = reserved
      PROVE  Found /\ Res
  <2>1. lo \in Nat /\ lo + n - 1 <= NPages
    BY <1>0, <1>1, <1>3
  <2>2. About(p, kind, lo, n)
    BY <1>3 DEF About
  <2>3. Found
    BY <1>3, <2>1, <2>2
  <2>4. Res
    BY <1>0, <1>3
  <2> QED
    BY <2>3, <2>4
<1>4. CASE readwrite(p)
  <2>1. PICK lo \in 0 .. NPages :
            /\ lo < reserved[p] \/ lo = NPages
            /\ begin(p, "rw", PagesFrom(p, lo, 1), "getpage")
            /\ reserved' = reserved
    BY <1>4 DEF readwrite
  <2>2. 1 \in 1 .. MaxPages
    BY <1>0
  <2>3. lo + 1 <= reserved[p] \/ lo = NPages
    BY <1>0, <1>1, <2>1
  <2>4. StartsAt("rw", "getpage")
    BY DEF StartsAt
  <2> HIDE DEF Found, Res
  <2> QED
    BY <1>2, <1>3, <2>1, <2>2, <2>3, <2>4
<1>5. CASE region(p, "free", "getpage")
  <2>1. PICK n \in 1 .. MaxPages : \E lo \in 0 .. NPages :
            /\ lo + n <= reserved[p] \/ (lo = NPages /\ n = 1)
            /\ begin(p, "free", PagesFrom(p, lo, n), "getpage")
            /\ reserved' = reserved
    BY <1>5 DEF region
  <2>2. PICK lo \in 0 .. NPages :
            /\ lo + n <= reserved[p] \/ (lo = NPages /\ n = 1)
            /\ begin(p, "free", PagesFrom(p, lo, n), "getpage")
            /\ reserved' = reserved
    BY <2>1
  <2>3. StartsAt("free", "getpage")
    BY DEF StartsAt
  <2> HIDE DEF Found, Res
  <2> QED
    BY <1>2, <1>3, <2>2, <2>3
<1>6. CASE region(p, "reuse", "reuse")
  <2>1. PICK n \in 1 .. MaxPages : \E lo \in 0 .. NPages :
            /\ lo + n <= reserved[p] \/ (lo = NPages /\ n = 1)
            /\ begin(p, "reuse", PagesFrom(p, lo, n), "reuse")
            /\ reserved' = reserved
    BY <1>6 DEF region
  <2>2. PICK lo \in 0 .. NPages :
            /\ lo + n <= reserved[p] \/ (lo = NPages /\ n = 1)
            /\ begin(p, "reuse", PagesFrom(p, lo, n), "reuse")
            /\ reserved' = reserved
    BY <2>1
  <2>3. StartsAt("reuse", "reuse")
    BY DEF StartsAt
  <2> HIDE DEF Found, Res
  <2> QED
    BY <1>2, <1>3, <2>2, <2>3
<1>7. CASE inc_vma_limit(p)
  <2>1. PICK n \in 1 .. MaxPages :
            /\ reserved[p] + n <= NPages
            /\ begin(p, "map", PagesFrom(p, reserved[p], n), "map_lock")
            /\ reserved' = [reserved EXCEPT ![p] = @ + n]
    BY <1>7 DEF inc_vma_limit
  <2>2. reserved[p] + n - 1 <= NPages /\ n \in Nat /\ reserved[p] + n \in 0 .. NPages
    BY <1>0, <1>1, <2>1
  <2>3. Res /\ reserved[p] + n = reserved'[p]
    BY <1>0, <1>1, <2>1, <2>2
  <2>4. About(p, "map", reserved[p], n)
    BY <1>1, <2>2, <2>3 DEF About
  <2>5. StartsAt("map", "map_lock")
    BY DEF StartsAt
  <2>6. Found
    BY <1>1, <1>2, <2>1, <2>2, <2>4, <2>5
  <2> QED
    BY <2>3, <2>6
<1> QED
    BY <1>4, <1>5, <1>6, <1>7 DEF start

\* The start of an instruction: its pages are different reserved pages of the
\* process, and those of a mapping are newly reserved.
LEMMA StartJob ==
    ASSUME BaseInv, NEW p \in Proc, start(p)
    PROVE  /\ UNCHANGED <<pgd, mram_free, mswp_free, lru, MEM_in_use, ram, swp, crashed>>
           /\ ~crashed /\ MayOverlap(p, job'[p].kind)
           /\ Cardinality({q \in Proc : job[q].pc # "idle"}) < NCPU
           /\ JobType' /\ (\A q \in Proc : q # p => job'[q] = job[q])
           /\ job[p].pc = "idle"
           /\ job'[p].frm_lst = << >>
           /\ StartsAt(job'[p].kind, job'[p].pc)
           /\ reserved' \in [Proc -> 0 .. NPages] /\ \A q \in Proc : reserved[q] <= reserved'[q]
           /\ \E lo \in Nat, n \in 1 .. MaxPages :
                 /\ About(p, job'[p].kind, lo, n)
                 /\ job'[p].size = n /\ Len(job'[p].pages) = n
                 /\ \A i \in 1 .. n : job'[p].pages[i] = <<p, lo + i - 1>>
<1>1. PICK kind \in Kinds, l \in Labels, lo \in Nat, n \in 1 .. MaxPages :
                 /\ StartsAt(kind, l) /\ About(p, kind, lo, n)
                 /\ lo + n - 1 <= NPages
                 /\ begin(p, kind, PagesFrom(p, lo, n), l)
    BY StartForm
<1>2. JobType
    BY DEF BaseInv
<1>3. Begun(p, kind, l, lo, n)
    BY <1>1, <1>2, BeginJob
<1>4. reserved' \in [Proc -> 0 .. NPages] /\ \A q \in Proc : reserved[q] <= reserved'[q]
    BY StartForm
<1> QED
    BY <1>1, <1>3, <1>4 DEF Begun

-----------------------------------------------------------------------------
(* The LRU list *)

\* The first node with a frame number is one with that number.
LEMMA FirstIsPlace ==
    ASSUME NEW l \in Seq(Node), NEW fpn, Places(l, fpn) # {}
    PROVE  FirstPlace(l, fpn) \in 1 .. Len(l) /\ l[FirstPlace(l, fpn)].fpn = fpn
<1>1. Places(l, fpn) \subseteq Nat /\ Places(l, fpn) \subseteq 1 .. Len(l)
    BY DEF Places
<1>2. \E i \in Places(l, fpn) : \A j \in Places(l, fpn) : ~(<<j, i>> \in OpToRel(<, Nat))
    BY <1>1, NatLessThanWellFounded, WFMin
<1>3. PICK i \in Places(l, fpn) : \A j \in Places(l, fpn) : ~(<<j, i>> \in OpToRel(<, Nat))
    BY <1>2
<1>4. \A j \in Places(l, fpn) : <<j, i>> \in Nat \X Nat /\ ~(j < i)
    BY <1>1, <1>3 DEF OpToRel
<1>a. \A j, k \in Nat : ~(j < k) => k <= j
    OBVIOUS
<1>5. \A j \in Places(l, fpn) : i <= j
    BY <1>1, <1>4, <1>a
<1>6. FirstPlace(l, fpn) \in Places(l, fpn)
    BY <1>5 DEF FirstPlace
<1> QED
    BY <1>1, <1>6 DEF Places

\* Where the k-th node was before the i-th of n was moved to the end.
Before(i, n, k) == IF k < i THEN k ELSE IF k < n THEN k + 1 ELSE i

LEMMA BeforeFacts ==
    ASSUME NEW n \in Nat, NEW i \in 1 .. n
    PROVE  /\ \A k \in 1 .. n : Before(i, n, k) \in 1 .. n
           /\ \A k, m \in 1 .. n : Before(i, n, k) = Before(i, n, m) => k = m
           /\ \A m \in 1 .. n : \E k \in 1 .. n : Before(i, n, k) = m
<1>1. ASSUME NEW m \in 1 .. n PROVE \E k \in 1 .. n : Before(i, n, k) = m
  <2>1. CASE m < i
    BY <2>1 DEF Before
  <2>2. CASE m = i
    BY <2>2 DEF Before
  <2>3. CASE m > i
    <3>1. m - 1 \in 1 .. n /\ ~(m - 1 < i) /\ m - 1 < n /\ m - 1 + 1 = m
      BY <2>3
    <3> QED
      BY <3>1 DEF Before
  <2> QED
    BY <2>1, <2>2, <2>3
<1> QED
    BY <1>1 DEF Before

LEMMA MoveFacts ==
    ASSUME NEW l \in Seq(Node), NEW i \in 1 .. Len(l)
    PROVE  /\ MoveToTail(l, i) \in Seq(Node)
           /\ Len(MoveToTail(l, i)) = Len(l)
           /\ \A k \in 1 .. Len(l) : MoveToTail(l, i)[k] = l[Before(i, Len(l), k)]
<1> DEFINE n == Len(l)
           a == SubSeq(l, 1, i - 1)
           b == SubSeq(l, i + 1, n)
           c == <<l[i]>>
<1>1. n \in Nat /\ i \in Nat /\ i - 1 \in Int /\ i - 1 <= n /\ i + 1 \in Nat \ {0} /\ n \in Int
    OBVIOUS
<1>2. a \in Seq(Node) /\ Len(a) = i - 1 /\ \A k \in 1 .. i - 1 : a[k] = l[k]
  <2>1. /\ a \in Seq(Node) /\ Len(a) = IF 1 <= i - 1 THEN i - 1 - 1 + 1 ELSE 0
        /\ \A k \in 1 .. i - 1 - 1 + 1 : a[k] = l[1 + k - 1]
    BY <1>1, PartSeq
  <2> HIDE DEF a
  <2> QED
    BY <1>1, <2>1
<1>3. b \in Seq(Node) /\ Len(b) = n - i /\ \A k \in 1 .. n - i : b[k] = l[i + k]
  <2>1. /\ b \in Seq(Node) /\ Len(b) = IF i + 1 <= n THEN n - (i + 1) + 1 ELSE 0
        /\ \A k \in 1 .. n - (i + 1) + 1 : b[k] = l[i + 1 + k - 1]
    BY <1>1, PartSeq
  <2>2. i <= n
    OBVIOUS
  <2>3. /\ n - (i + 1) + 1 = n - i
        /\ (IF i + 1 <= n THEN n - (i + 1) + 1 ELSE 0) = n - i
        /\ \A k \in 1 .. n - i : i + 1 + k - 1 = i + k
    <3> HIDE DEF n
    <3> QED
      BY <1>1, <2>2
  <2> HIDE DEF b, n
  <2> QED
    BY <2>1, <2>3
<1>4. c \in Seq(Node) /\ Len(c) = 1 /\ c[1] = l[i]
    OBVIOUS
<1> HIDE DEF a, b, c
<1>5. /\ a \o b \in Seq(Node) /\ Len(a \o b) = n - 1
      /\ \A k \in 1 .. n - 1 : (a \o b)[k] = IF k <= i - 1 THEN a[k] ELSE b[k - (i - 1)]
  <2>1. /\ a \o b \in Seq(Node) /\ Len(a \o b) = Len(a) + Len(b)
        /\ \A k \in 1 .. Len(a) + Len(b) : (a \o b)[k] = IF k <= Len(a) THEN a[k] ELSE b[k - Len(a)]
    BY <1>2, <1>3, ConcatProperties
  <2>2. i - 1 + (n - i) = n - 1
    BY <1>1
  <2> HIDE DEF n
  <2> QED
    BY <1>2, <1>3, <2>1, <2>2
<1>6. /\ (a \o b) \o c \in Seq(Node) /\ Len((a \o b) \o c) = n
      /\ \A k \in 1 .. n : ((a \o b) \o c)[k] = IF k <= n - 1 THEN (a \o b)[k] ELSE c[k - (n - 1)]
  <2> DEFINE d == a \o b
  <2> HIDE DEF d
  <2>0. d \in Seq(Node) /\ Len(d) = n - 1
    BY <1>5 DEF d
  <2>1. /\ d \o c \in Seq(Node) /\ Len(d \o c) = Len(d) + Len(c)
        /\ \A k \in 1 .. Len(d) + Len(c) : (d \o c)[k] = IF k <= Len(d) THEN d[k] ELSE c[k - Len(d)]
    BY <2>0, <1>4, ConcatProperties
  <2>2. n - 1 + 1 = n
    BY <1>1
  <2> HIDE DEF n
  <2>3. /\ d \o c \in Seq(Node) /\ Len(d \o c) = n
        /\ \A k \in 1 .. n : (d \o c)[k] = IF k <= n - 1 THEN d[k] ELSE c[k - (n - 1)]
    BY <2>0, <1>4, <2>1, <2>2
  <2> QED
    BY <2>3 DEF d
<1>7. MoveToTail(l, i) = (a \o b) \o c
    BY DEF MoveToTail, a, b, c
<1>8. ASSUME NEW k \in 1 .. n
      PROVE  ((a \o b) \o c)[k] = l[Before(i, n, k)]
  <2>1. CASE k < i
    <3>1. k <= n - 1 /\ k <= i - 1 /\ k \in 1 .. n - 1 /\ k \in 1 .. i - 1
      BY <1>1, <2>1
    <3>2. Before(i, n, k) = k
      BY <2>1 DEF Before
    <3> HIDE DEF n
    <3> QED
      BY <1>2, <1>5, <1>6, <3>1, <3>2
  <2>2. CASE ~(k < i) /\ k < n
    <3>1. /\ k <= n - 1 /\ ~(k <= i - 1) /\ k \in 1 .. n - 1
          /\ k - (i - 1) \in 1 .. n - i /\ i + (k - (i - 1)) = k + 1
      BY <1>1, <2>2
    <3>2. Before(i, n, k) = k + 1
      BY <2>2 DEF Before
    <3> HIDE DEF n
    <3>3. ((a \o b) \o c)[k] = b[k - (i - 1)]
      BY <1>5, <1>6, <3>1
    <3>4. b[k - (i - 1)] = l[i + (k - (i - 1))]
      BY <1>3, <3>1
    <3> QED
      BY <3>1, <3>2, <3>3, <3>4
  <2>3. CASE ~(k < i) /\ ~(k < n)
    <3>1. ~(k <= n - 1) /\ k - (n - 1) = 1
      BY <1>1, <2>3
    <3>2. Before(i, n, k) = i
      BY <2>3 DEF Before
    <3> HIDE DEF n
    <3> QED
      BY <1>4, <1>6, <3>1, <3>2
  <2> QED
    BY <2>1, <2>2, <2>3
<1> QED
    BY <1>6, <1>7, <1>8

\* A page is added at the end, or the first node with the frame number moved there.
LEMMA AddFacts ==
    ASSUME NEW l \in Seq(Node), NEW pg \in Page, NEW fpn \in 0 .. FPN_MOD - 1
    PROVE  /\ add_LRU_page(l, pg, fpn) \in Seq(Node)
           /\ \/ /\ add_LRU_page(l, pg, fpn) = Append(l, [page |-> pg, fpn |-> fpn])
                 /\ [page |-> pg, fpn |-> fpn] \in Node
                 /\ \A i \in 1 .. Len(l) : l[i].fpn # fpn
              \/ \E i \in 1 .. Len(l) :
                    l[i].fpn = fpn /\ add_LRU_page(l, pg, fpn) = MoveToTail(l, i)
<1>1. [page |-> pg, fpn |-> fpn] \in Node
    BY DEF Node
<1>2. CASE Places(l, fpn) = {}
  <2>1. \A i \in 1 .. Len(l) : l[i].fpn # fpn
    BY <1>2 DEF Places
  <2>2. add_LRU_page(l, pg, fpn) = Append(l, [page |-> pg, fpn |-> fpn])
    BY <1>2 DEF add_LRU_page
  <2>3. Append(l, [page |-> pg, fpn |-> fpn]) \in Seq(Node)
    BY <1>1
  <2> QED
    BY <1>1, <2>1, <2>2, <2>3
<1>3. CASE Places(l, fpn) # {}
  <2>1. add_LRU_page(l, pg, fpn) = MoveToTail(l, FirstPlace(l, fpn))
    BY <1>3 DEF add_LRU_page
  <2> QED
    BY <1>3, <2>1, FirstIsPlace, MoveFacts
<1> QED
    BY <1>2, <1>3

LEMMA UpdateFacts ==
    ASSUME NEW l \in Seq(Node), NEW fpn
    PROVE  /\ update_LRU_lst(l, fpn) \in Seq(Node)
           /\ \/ update_LRU_lst(l, fpn) = l
              \/ \E i \in 1 .. Len(l) :
                    l[i].fpn = fpn /\ update_LRU_lst(l, fpn) = MoveToTail(l, i)
<1>1. CASE Places(l, fpn) = {}
    BY <1>1 DEF update_LRU_lst
<1>2. CASE Places(l, fpn) # {}
  <2>1. update_LRU_lst(l, fpn) = MoveToTail(l, FirstPlace(l, fpn))
    BY <1>2 DEF update_LRU_lst
  <2> QED
    BY <1>2, <2>1, FirstIsPlace, MoveFacts
<1> QED
    BY <1>1, <1>2

-----------------------------------------------------------------------------
(* Types *)

\* The entries that the steps make.
LEMMA Entries ==
    /\ \A pte, fpn : fpn \in 0 .. FPN_MOD - 1 =>
          /\ pte_set_fpn(pte, fpn) \in Pte
          /\ pte_set_fpn(pte, fpn).present /\ ~pte_set_fpn(pte, fpn).swapped
          /\ pte_set_fpn(pte, fpn).low = fpn
    /\ \A pte, off : off \in Slots =>
          /\ pte_set_swap(pte, off) \in Pte
          /\ ~pte_set_swap(pte, off).present /\ pte_set_swap(pte, off).swapped
          /\ pte_set_swap(pte, off).low \in Slots
<1>1. \A fpn \in 0 .. FPN_MOD - 1 : fpn % FPN_MOD = fpn
    BY Sizes
<1>2. ASSUME NEW off \in Slots
      PROVE  (off * SWPOFF_UNIT) % FPN_MOD \in Slots /\ (off * SWPOFF_UNIT) % FPN_MOD \in 0 .. FPN_MOD - 1
  <2>1. off \in Nat /\ SWPOFF_UNIT \in Nat
    BY Sizes
  <2>2. off * SWPOFF_UNIT \in Nat
    BY <2>1
  <2> DEFINE m == off * SWPOFF_UNIT
  <2> HIDE DEF m
  <2>3. m \in Int
    BY <2>2 DEF m
  <2>4. m % FPN_MOD \in 0 .. FPN_MOD - 1
    BY <2>3, Sizes
  <2> QED
    BY <2>4, FieldAssumption DEF m
<1>3. ASSUME NEW pte, NEW fpn \in 0 .. FPN_MOD - 1
      PROVE  /\ pte_set_fpn(pte, fpn) \in Pte
             /\ pte_set_fpn(pte, fpn).present /\ ~pte_set_fpn(pte, fpn).swapped
             /\ pte_set_fpn(pte, fpn).low = fpn
    BY <1>1 DEF pte_set_fpn, Pte
<1>4. ASSUME NEW pte, NEW off \in Slots
      PROVE  /\ pte_set_swap(pte, off) \in Pte
             /\ ~pte_set_swap(pte, off).present /\ pte_set_swap(pte, off).swapped
             /\ pte_set_swap(pte, off).low \in Slots
  <2> DEFINE m == (off * SWPOFF_UNIT) % FPN_MOD
  <2>1. m \in Slots /\ m \in 0 .. FPN_MOD - 1
    BY <1>2
  <2>2. pte_set_swap(pte, off) = [present |-> FALSE, swapped |-> TRUE, low |-> m]
    BY DEF pte_set_swap
  <2> HIDE DEF m
  <2> QED
    BY <2>1, <2>2 DEF Pte
<1> QED
    BY <1>3, <1>4

\* What the job of a running CPU names.
LEMMA JobParts ==
    ASSUME BaseInv, NEW p \in Proc
    PROVE  /\ job[p] \in Jobs /\ job[p].pc \in Labels /\ job[p].kind \in Kinds
           /\ job[p].pages \in Seq(Page) /\ job[p].frm_lst \in Seq(0 .. FPN_MOD - 1)
           /\ job[p].vic.fpn \in 0 .. FPN_MOD - 1
           /\ job[p].swpfpn \in Slots /\ job[p].tgtfpn \in 0 .. FPN_MOD - 1
           /\ job[p].vic # NoNode => job[p].vic \in Node /\ job[p].vic.page \in Page
           /\ Busy(p) =>
                 /\ Len(job[p].pages) \in Nat \ {0} /\ job[p].pages # << >>
                 /\ Current(p) \in Page /\ Current(p) = job[p].pages[1] /\ Current(p)[1] = p
                 /\ pgd[Current(p)] \in Pte /\ pgd[Current(p)].low \in 0 .. FPN_MOD - 1
<1>1. /\ job[p] \in Jobs /\ job[p].pc \in Labels /\ job[p].kind \in Kinds
      /\ job[p].pages \in Seq(Page) /\ job[p].frm_lst \in Seq(0 .. FPN_MOD - 1)
      /\ job[p].swpfpn \in Slots /\ job[p].tgtfpn \in 0 .. FPN_MOD - 1
      /\ job[p].vic \in Node \cup {NoNode} /\ job[p].size \in 0 .. MaxPages
    BY DEF BaseInv, JobType, Jobs
<1>2. job[p].vic.fpn \in 0 .. FPN_MOD - 1
    BY <1>1, Sizes DEF Node, NoNode
<1>3. job[p].vic # NoNode => job[p].vic \in Node /\ job[p].vic.page \in Page
    BY <1>1 DEF Node
<1>4. ASSUME Busy(p)
      PROVE  /\ Len(job[p].pages) \in Nat \ {0} /\ job[p].pages # << >>
             /\ Current(p) \in Page /\ Current(p) = job[p].pages[1] /\ Current(p)[1] = p
             /\ pgd[Current(p)] \in Pte /\ pgd[Current(p)].low \in 0 .. FPN_MOD - 1
  <2>1. Len(job[p].pages) \in 1 .. job[p].size
    BY <1>4 DEF BaseInv, PagesInv
  <2>2. Len(job[p].pages) \in Nat \ {0} /\ job[p].pages # << >>
    BY <1>1, <2>1
  <2>3. Current(p) \in Page /\ Current(p) = job[p].pages[1]
    BY <1>1, <2>2 DEF Current
  <2>4. Current(p)[1] = p
    BY <1>4, <2>2, <2>3 DEF BaseInv, PagesInv
  <2>5. pgd[Current(p)] \in Pte /\ pgd[Current(p)].low \in 0 .. FPN_MOD - 1
    BY <2>3 DEF BaseInv, StateType, Pte
  <2> QED
    BY <2>2, <2>3, <2>4, <2>5
<1> QED
    BY <1>1, <1>2, <1>3, <1>4

-----------------------------------------------------------------------------
(* What a step does to the job *)

\* How Continue leaves the job.
LEMMA ContinueJob ==
    ASSUME JobType, NEW p \in Proc, NEW r, Continue(p, r)
    PROVE  IF r.pc = "done" THEN job'[p] = [Resting EXCEPT !.pc = "done", !.size = r.size] /\ Ends(p)
           ELSE job'[p] = r
BY DEF Continue, JobType, Resting, Ends

\* KindInv for one process.
KindAt(p) ==
    /\ job[p].pc \in {"getpage", "frame", "enter", "found", "touch"} =>
          job[p].kind \in {"rw", "free"}
    /\ job[p].pc = "update" => job[p].kind = "rw"
    /\ job[p].pc \in {"map_lock", "map_frame", "map_page"} => job[p].kind = "map"
    /\ job[p].pc \in {"reuse", "reuse_enter", "reuse_put", "reuse_update"} =>
          job[p].kind = "reuse"

LEMMA StepKind ==
    ASSUME BaseInv, NEW p \in Proc, step(p)
    PROVE  KindInv'
<1>1. /\ \A q \in Proc : q # p => job'[q] = job[q]
      /\ Busy(p) /\ (GoesOn(p) \/ Ends(p))
    BY StepJob
<1>2. KindInv /\ JobType
    BY DEF BaseInv
<1>3. job[p] \in Jobs /\ job[p].kind \in Kinds
    BY JobParts
<1>4. SUFFICES KindAt(p)'
    BY <1>1, <1>2 DEF KindInv, KindAt
<1>5. CASE Ends(p)
    BY <1>5 DEF Ends, KindAt
<1>6. ASSUME GoesOn(p) PROVE KindAt(p)'
  <2>0. job'[p].kind = job[p].kind /\ job'[p].pc # "done"
    BY <1>6 DEF GoesOn
  <2>1. CASE \/ victim(p) \/ slot(p) \/ frame(p) \/ frame_none(p) \/ enter(p) \/ found(p)
             \/ map_lock(p) \/ map_frame(p) \/ map_frame_none(p)
             \/ reuse(p) \/ reuse_enter(p) \/ reuse_put(p) \/ getpage(p)
    BY SMTT(30), <1>2, <1>3, <2>0, <2>1 DEF KindInv, KindAt, JobType, Jobs, victim, slot, frame, frame_none, enter,
       found, map_lock, map_frame, map_frame_none, reuse, reuse_enter, reuse_put, getpage, At, Goto,
       AllocNext
  <2>2. CASE evict(p)
    BY <1>2, <1>3, <2>0, <2>2 DEF KindInv, KindAt, JobType, Jobs, evict, At, AllocNext, Kinds
  <2>3. CASE slot_none_map(p)
    BY <1>2, <2>3 DEF KindInv, KindAt, slot_none_map
  <2>c. ASSUME NEW r, Continue(p, r) PROVE job'[p] = r
    BY <1>2, <2>0, <2>c, ContinueJob DEF Ends
  <2>4. CASE slot_none_getpage(p) \/ touch(p)
    <3>1. job'[p].pc = AfterAccess(p)
      <4>1. CASE slot_none_getpage(p)
        BY <1>3, <2>c, <4>1 DEF slot_none_getpage, Jobs
      <4>2. CASE touch(p)
        BY <1>3, <2>c, <4>2 DEF touch, Jobs
      <4> QED
        BY <2>4, <4>1, <4>2
    <3>2. job[p].kind \in {"rw", "free"}
      BY <1>2, <2>4 DEF KindInv, slot_none_getpage, touch, At
    <3> QED
      BY <2>0, <3>1, <3>2 DEF KindAt, AfterAccess
  <2>5. CASE slot_none_reuse(p) \/ update(p)
    <3>1. PICK r : Continue(p, r) /\ r.pc = "done"
      BY <1>3, <2>5 DEF slot_none_reuse, update, Jobs
    <3> QED
      BY <1>2, <2>0, <3>1, ContinueJob DEF Ends
  <2>6. CASE map_page(p)
    <3>1. job'[p].pc \in {"done", "map_page"}
      BY <1>3, <2>c, <2>6 DEF map_page, Jobs
    <3> QED
      BY <1>2, <2>0, <2>6, <3>1 DEF KindAt, KindInv, map_page, At
  <2>7. CASE reuse_update(p)
    <3>1. job'[p].pc \in {"done", "reuse"}
      BY <1>3, <2>c, <2>7 DEF reuse_update, Jobs
    <3> QED
      BY <1>2, <2>0, <2>7, <3>1 DEF KindAt, KindInv, reuse_update, At
  <2> QED
    BY <2>1, <2>2, <2>3, <2>4, <2>5, <2>6, <2>7 DEF step
<1> QED
    BY <1>1, <1>5, <1>6

\* The limits of the areas are moved at the start of an instruction only.
LEMMA StepReserved ==
    ASSUME NEW p \in Proc, step(p)
    PROVE  reserved' = reserved
BY DEF step, victim, slot, slot_none_getpage, slot_none_reuse, slot_none_map, evict,
       getpage, frame, frame_none, enter, found, touch, update, map_lock, map_frame,
       map_frame_none, map_page, reuse, reuse_enter, reuse_put, reuse_update

\* PagesInv for one process.
PagesAt(p) ==
    Busy(p) =>
        /\ Len(job[p].pages) \in 1 .. job[p].size
        /\ \A i \in 1 .. Len(job[p].pages) :
              /\ job[p].pages[i][1] = p
              /\ job[p].pages[i][2] < reserved[p] \/ job[p].pages[i][2] = NPages
              /\ \A j \in 1 .. Len(job[p].pages) : job[p].pages[i] = job[p].pages[j] => i = j

LEMMA StepPages ==
    ASSUME BaseInv, NEW p \in Proc, step(p)
    PROVE  PagesInv'
<1>1. /\ \A q \in Proc : q # p => job'[q] = job[q]
      /\ Busy(p) /\ (GoesOn(p) \/ Ends(p)) /\ JobType'
    BY StepJob
<1>2. PagesInv /\ reserved' = reserved
    BY StepReserved DEF BaseInv
<1>3. job[p] \in Jobs /\ job[p].pages \in Seq(Page) /\ job[p].pages # << >>
      /\ job[p].size \in 0 .. MaxPages
    BY <1>1, JobParts DEF Jobs
<1>4. SUFFICES PagesAt(p)'
  <2>1. ASSUME NEW q \in Proc, q # p PROVE PagesAt(q)'
    <3>1. job'[q] = job[q] /\ PagesAt(q)
      BY <1>1, <1>2, <2>1 DEF PagesInv, PagesAt
    <3> QED
      BY <1>2, <3>1 DEF PagesAt, Busy
  <2>2. (\A q \in Proc : PagesAt(q)') => PagesInv'
    BY DEF PagesInv, PagesAt
  <2> QED
    BY <2>1, <2>2
<1>5. PagesAt(p)
    BY <1>2 DEF PagesInv, PagesAt
<1>6. CASE Ends(p)
    BY <1>6 DEF Ends, PagesAt, Busy
<1>7. CASE GoesOn(p) /\ job'[p].pages = job[p].pages
    BY <1>1, <1>2, <1>5, <1>7 DEF PagesAt, GoesOn
<1>8. CASE GoesOn(p) /\ Len(job[p].pages) > 1 /\ job'[p].pages = Tail(job[p].pages)
  <2> DEFINE s == job[p].pages
             t == Tail(job[p].pages)
             n == Len(s)
  <2>1. /\ Len(t) = n - 1 /\ \A i \in 1 .. Len(t) : t[i] = s[i + 1]
        /\ n \in Nat /\ n > 1
    BY <1>3, <1>8, HeadTailProperties
  <2>2. /\ n <= job[p].size
        /\ \A i \in 1 .. n : /\ s[i][1] = p
                             /\ s[i][2] < reserved[p] \/ s[i][2] = NPages
                             /\ \A j \in 1 .. n : s[i] = s[j] => i = j
    BY <1>1, <1>5 DEF PagesAt
  <2>3. \A i \in 1 .. Len(t) : i + 1 \in 1 .. n
    BY <2>1
  <2>4. job'[p].pages = t /\ job'[p].size = job[p].size /\ job[p].size \in Nat
    BY <1>3, <1>8, Sizes DEF GoesOn
  <2> HIDE DEF s, t, n
  <2>5. Len(t) \in 1 .. job[p].size
    BY <2>1, <2>2, <2>4
  <2>6. \A i, j \in 1 .. Len(t) : t[i] = t[j] => i = j
    <3>1. TAKE i, j \in 1 .. Len(t)
    <3>2. HAVE t[i] = t[j]
    <3>3. i + 1 = j + 1
      BY <2>1, <2>2, <2>3, <3>2
    <3> QED
      BY <2>1, <3>3
  <2>7. \A i \in 1 .. Len(t) : t[i][1] = p /\ (t[i][2] < reserved[p] \/ t[i][2] = NPages)
    BY <2>1, <2>2, <2>3
  <2> QED
    BY <1>2, <2>4, <2>5, <2>6, <2>7 DEF PagesAt
<1> QED
    BY <1>1, <1>6, <1>7, <1>8 DEF GoesOn

\* ListInv for one process.
ListAt(p) ==
    /\ job[p].frm_lst # << >> =>
          job[p].kind = "map" /\ job[p].pc \in {"map_frame", "victim", "slot", "evict", "map_page"}
    /\ job[p].pc = "map_page" => Len(job[p].frm_lst) \in 1 .. Len(job[p].pages)
    /\ Busy(p) /\ job[p].kind = "map" /\ job[p].pc # "map_page" =>
          Len(job[p].frm_lst) < Len(job[p].pages)

\* Only a mapping has frames in its list.
LEMMA StepOther ==
    ASSUME BaseInv, NEW p \in Proc, step(p), job[p].kind # "map"
    PROVE  job[p].frm_lst = << >> /\ job'[p].frm_lst = << >>
<1>1. job[p].frm_lst = << >> /\ job[p] \in Jobs /\ JobType /\ KindInv
    BY JobParts DEF BaseInv, ListInv
<1>2. ASSUME NEW r, Continue(p, r), r.frm_lst = << >>
      PROVE  job'[p].frm_lst = << >>
    BY <1>1, <1>2, ContinueJob DEF Ends
<1>3. CASE \/ victim(p) \/ slot(p) \/ frame(p) \/ frame_none(p) \/ enter(p) \/ found(p)
           \/ reuse(p) \/ reuse_enter(p) \/ reuse_put(p) \/ getpage(p) \/ evict(p)
    BY <1>1, <1>3 DEF JobType, Jobs, victim, slot, frame, frame_none, enter,
       found, reuse, reuse_enter, reuse_put, getpage, evict, Goto
<1>4. CASE slot_none_getpage(p)
    BY <1>1, <1>2, <1>4 DEF slot_none_getpage, Jobs
<1>5. CASE touch(p)
    BY <1>1, <1>2, <1>5 DEF touch, Jobs
<1>6. CASE update(p)
    BY <1>1, <1>2, <1>6 DEF update, Jobs
<1>7. CASE slot_none_reuse(p)
    BY <1>1, <1>2, <1>7 DEF slot_none_reuse, Jobs
<1>8. CASE reuse_update(p)
    BY <1>1, <1>2, <1>8 DEF reuse_update, Jobs
<1>9. CASE slot_none_map(p) \/ map_lock(p) \/ map_frame(p) \/ map_frame_none(p) \/ map_page(p)
    BY <1>1, <1>9 DEF KindInv, At, slot_none_map, map_lock, map_frame, map_frame_none, map_page
<1> QED
    BY <1>1, <1>3, <1>4, <1>5, <1>6, <1>7, <1>8, <1>9 DEF step

\* A mapping either keeps its list, has one more frame, or one less.
LEMMA StepMap ==
    ASSUME BaseInv, NEW p \in Proc, step(p), job[p].kind = "map"
    PROVE  \/ /\ victim(p) \/ slot(p) \/ slot_none_map(p) \/ map_lock(p) \/ map_frame_none(p)
              /\ job'[p].frm_lst = job[p].frm_lst /\ job'[p].pages = job[p].pages
              /\ job'[p].pc \in {"slot", "evict", "map_frame", "victim"}
           \/ /\ evict(p) \/ map_frame(p)
              /\ \E f \in 0 .. FPN_MOD - 1 :
                    /\ evict(p) => f = job[p].vic.fpn
                    /\ map_frame(p) => f = Head(mram_free)
                    /\ job'[p].frm_lst = Append(job[p].frm_lst, f)
              /\ job'[p].pages = job[p].pages
              /\ job'[p].pc = AllocNext(p)
           \/ /\ map_page(p)
              /\ IF Len(job[p].frm_lst) = 1 THEN Ends(p)
                 ELSE /\ job'[p].frm_lst = SubSeq(job[p].frm_lst, 1, Len(job[p].frm_lst) - 1)
                      /\ job'[p].pages = job[p].pages /\ job'[p].pc = "map_page"
<1>1. job[p] \in Jobs /\ JobType /\ KindInv
    BY JobParts DEF BaseInv
<1>2. CASE victim(p) \/ slot(p) \/ map_lock(p) \/ map_frame_none(p)
    BY <1>1, <1>2 DEF JobType, Jobs, victim, slot, map_lock, map_frame_none, Goto
<1>3. CASE slot_none_map(p)
    BY <1>1, <1>3 DEF slot_none_map, At
<1>4. CASE evict(p)
  <2>1. /\ job'[p].frm_lst = Append(job[p].frm_lst, job[p].vic.fpn)
        /\ job'[p].pages = job[p].pages
        /\ job'[p].pc = AllocNext(p)
    BY <1>1, <1>4 DEF JobType, Jobs, evict
  <2>2. job[p].vic.fpn \in 0 .. FPN_MOD - 1
    BY JobParts
  <2>3. ~map_frame(p)
    BY <1>4 DEF evict, map_frame, At
  <2> QED
    BY <1>4, <2>1, <2>2, <2>3
<1>5. CASE map_frame(p)
  <2>1. /\ job'[p].frm_lst = Append(job[p].frm_lst, Head(mram_free))
        /\ job'[p].pages = job[p].pages
        /\ job'[p].pc = AllocNext(p)
    BY <1>1, <1>5 DEF JobType, Jobs, map_frame
  <2>2. Head(mram_free) \in 0 .. FPN_MOD - 1
    BY SMTT(30), <1>5, Sizes DEF BaseInv, StateType, map_frame
  <2>3. ~evict(p)
    BY <1>5 DEF evict, map_frame, At
  <2> QED
    BY <1>5, <2>1, <2>2, <2>3
<1>6. CASE map_page(p)
  <2> DEFINE n == Len(job[p].frm_lst)
             r == [job[p] EXCEPT !.frm_lst = SubSeq(@, 1, n - 1),
                                 !.pc = IF n = 1 THEN "done" ELSE "map_page"]
  <2>1. Continue(p, r)
    BY <1>6 DEF map_page
  <2>2. /\ r.pc = (IF n = 1 THEN "done" ELSE "map_page") /\ r.pages = job[p].pages
        /\ r.frm_lst = SubSeq(job[p].frm_lst, 1, n - 1)
    BY <1>1 DEF Jobs
  <2> HIDE DEF r
  <2> QED
    BY <1>1, <1>6, <2>1, <2>2, ContinueJob
<1>7. ~( \/ frame(p) \/ frame_none(p) \/ enter(p) \/ found(p) \/ touch(p) \/ update(p)
         \/ reuse(p) \/ reuse_enter(p) \/ reuse_put(p) \/ getpage(p) \/ reuse_update(p)
         \/ slot_none_getpage(p) \/ slot_none_reuse(p))
    BY <1>1 DEF KindInv, At, frame, frame_none, enter, found, touch, update, reuse, reuse_enter,
       reuse_put, getpage, reuse_update, slot_none_getpage, slot_none_reuse
<1> QED
    BY <1>2, <1>3, <1>4, <1>5, <1>6, <1>7 DEF step

LEMMA StepList ==
    ASSUME BaseInv, NEW p \in Proc, step(p)
    PROVE  ListInv'
<1>1. /\ \A q \in Proc : q # p => job'[q] = job[q]
      /\ Busy(p) /\ (GoesOn(p) \/ Ends(p)) /\ JobType'
    BY StepJob
<1>2. ListInv /\ KindInv
    BY DEF BaseInv
<1>3. /\ job[p].pages \in Seq(Page) /\ job[p].pages # << >> /\ job[p].frm_lst \in Seq(0 .. FPN_MOD - 1)
      /\ Len(job[p].pages) \in Nat /\ Len(job[p].frm_lst) \in Nat
    BY <1>1, JobParts
<1>4. SUFFICES ListAt(p)'
    BY <1>1, <1>2 DEF ListInv, ListAt, Busy
<1>5. ListAt(p)
    BY <1>2 DEF ListInv, ListAt
<1>6. CASE Ends(p)
    BY <1>6 DEF Ends, ListAt, Busy
<1>7. CASE GoesOn(p) /\ job[p].kind # "map"
  <2>1. job'[p].frm_lst = << >> /\ job'[p].kind # "map" /\ job'[p].kind = job[p].kind
    BY <1>7, StepOther DEF GoesOn
  <2>2. KindInv'
    BY StepKind
  <2>3. job'[p].pc # "map_page"
    BY <2>1, <2>2 DEF KindInv
  <2> QED
    BY <2>1, <2>3 DEF ListAt
<1>8. CASE GoesOn(p) /\ job[p].kind = "map"
  <2> DEFINE s == job[p].frm_lst
             n == Len(s)
             k == Len(job[p].pages)
  <2>0. job'[p].kind = "map" /\ n \in Nat /\ k \in Nat /\ job'[p].pc # "done"
    BY <1>3, <1>8 DEF GoesOn
  <2>1. CASE /\ victim(p) \/ slot(p) \/ slot_none_map(p) \/ map_lock(p) \/ map_frame_none(p)
             /\ job'[p].frm_lst = job[p].frm_lst /\ job'[p].pages = job[p].pages
             /\ job'[p].pc \in {"slot", "evict", "map_frame", "victim"}
    <3>1. job[p].pc # "map_page"
      BY <2>1 DEF victim, slot, slot_none_map, map_lock, map_frame_none, At
    <3>2. n < k
      BY <1>1, <1>5, <1>8, <3>1 DEF ListAt
    <3> QED
      BY <2>0, <2>1, <3>2 DEF ListAt
  <2>2. CASE /\ evict(p) \/ map_frame(p)
             /\ \E f \in 0 .. FPN_MOD - 1 : job'[p].frm_lst = Append(job[p].frm_lst, f)
             /\ job'[p].pages = job[p].pages
             /\ job'[p].pc = AllocNext(p)
    <3>1. job[p].pc # "map_page"
      BY <2>2 DEF evict, map_frame, At
    <3>2. n < k
      BY <1>1, <1>5, <1>8, <3>1 DEF ListAt
    <3>3. Len(job'[p].frm_lst) = n + 1
      BY <1>3, <2>2
    <3>4. n + 1 \in 1 .. k /\ (n + 1 # k => n + 1 < k)
      BY <2>0, <3>2
    <3>5. job'[p].pc = IF n + 1 = k THEN "map_page" ELSE "map_frame"
      BY <2>2 DEF AllocNext
    <3> HIDE DEF n, k
    <3>6. Len(job'[p].pages) = k
      BY <2>2 DEF k
    <3> QED
      BY <2>0, <3>3, <3>4, <3>5, <3>6 DEF ListAt
  <2>3. CASE /\ map_page(p) /\ n # 1
             /\ job'[p].frm_lst = SubSeq(s, 1, n - 1)
             /\ job'[p].pages = job[p].pages /\ job'[p].pc = "map_page"
    <3>1. n \in 1 .. k
      BY <1>5, <2>3 DEF map_page, At, ListAt
    <3>2. s # << >>
      BY <1>3, <3>1
    <3>3. Len(SubSeq(s, 1, n - 1)) = n - 1
      BY <1>3, <3>2, ButLast
    <3>a. n # 1
      BY <2>3
    <3>b. \A a, b \in Nat : a \in 1 .. b /\ a # 1 => a - 1 \in 1 .. b
      OBVIOUS
    <3>4. n - 1 \in 1 .. k
      BY <2>0, <3>a, <3>b, <3>1
    <3> HIDE DEF n, k
    <3>5. Len(job'[p].pages) = k
      BY <2>3 DEF k
    <3> QED
      BY <2>0, <2>3, <3>3, <3>4, <3>5 DEF ListAt
  <2>4. ~Ends(p)
    BY <1>8 DEF GoesOn, Ends
  <2> QED
    BY <1>8, <2>1, <2>2, <2>3, <2>4, StepMap
<1> QED
    BY <1>1, <1>6, <1>7, <1>8

-----------------------------------------------------------------------------
(* What a step does to the shared state *)

\* A page gets frame f.
Enters(pg, f) == pgd' = [pgd EXCEPT ![pg] = pte_set_fpn(@, f)]

\* The entries of the page table: a victim leaves, or a page gets a frame.
LEMMA StepEntry ==
    ASSUME BaseInv, NEW p \in Proc, step(p)
    PROVE  /\ pgd' \in [Page -> Pte]
           /\ \/ pgd' = pgd
              \/ evict(p) /\ pgd' = [pgd EXCEPT ![job[p].vic.page] = pte_set_swap(@, job[p].swpfpn)]
              \/ /\ frame(p) \/ enter(p) \/ reuse_enter(p) \/ map_page(p)
                 /\ \E pg \in Page, f \in 0 .. FPN_MOD - 1 : Enters(pg, f)
<1>1. pgd \in [Page -> Pte] /\ mram_free \in Seq(Frames)
    BY DEF BaseInv, StateType
<1>2. Busy(p)
    BY StepJob
<1>3. /\ Current(p) \in Page /\ job[p].vic.fpn \in 0 .. FPN_MOD - 1 /\ job[p].swpfpn \in Slots
      /\ job[p].pages \in Seq(Page) /\ job[p].frm_lst \in Seq(0 .. FPN_MOD - 1)
    BY <1>2, JobParts
<1>4. ASSUME NEW pg \in Page, NEW f \in 0 .. FPN_MOD - 1, Enters(pg, f)
      PROVE  pgd' \in [Page -> Pte]
    BY <1>1, <1>4, Entries DEF Enters
<1>5. CASE evict(p)
    BY <1>1, <1>3, <1>5, Entries DEF evict
<1>6. CASE frame(p)
  <2>1. Head(mram_free) \in 0 .. FPN_MOD - 1
    BY <1>1, <1>6, Sizes DEF frame
  <2>2. Enters(Current(p), Head(mram_free))
    BY <1>6 DEF frame, Enters
  <2> QED
    BY <1>3, <1>4, <1>6, <2>1, <2>2
<1>7. CASE enter(p) \/ reuse_enter(p)
  <2>1. Enters(Current(p), job[p].vic.fpn)
    BY <1>7 DEF enter, reuse_enter, Enters
  <2> QED
    BY <1>3, <1>4, <1>7, <2>1
<1>8. CASE map_page(p)
  <2> DEFINE n == Len(job[p].frm_lst)
  <2>1. n \in 1 .. Len(job[p].pages) /\ n \in 1 .. Len(job[p].frm_lst)
    BY <1>3, <1>8 DEF map_page, At, BaseInv, ListInv
  <2>2. job[p].pages[n] \in Page /\ job[p].frm_lst[n] \in 0 .. FPN_MOD - 1
    BY <1>3, <2>1, ElementOfSeq
  <2>3. Enters(job[p].pages[n], job[p].frm_lst[n])
    BY <1>8 DEF map_page, Enters
  <2> QED
    BY <1>4, <1>8, <2>2, <2>3
<1>9. CASE \/ victim(p) \/ slot(p) \/ slot_none_getpage(p) \/ slot_none_reuse(p) \/ slot_none_map(p)
           \/ getpage(p) \/ frame_none(p) \/ found(p) \/ touch(p) \/ update(p)
           \/ map_lock(p) \/ map_frame(p) \/ map_frame_none(p)
           \/ reuse(p) \/ reuse_put(p) \/ reuse_update(p)
    BY <1>1, <1>9 DEF victim, slot, slot_none_getpage, slot_none_reuse, slot_none_map,
       getpage, frame_none, found, touch, update, map_lock, map_frame, map_frame_none,
       reuse, reuse_put, reuse_update
<1> QED
    BY <1>5, <1>6, <1>7, <1>8, <1>9 DEF step

\* The free lists: the head is taken, or the slot that was read given back.
LEMMA StepFree ==
    ASSUME BaseInv, NEW p \in Proc, step(p)
    PROVE  /\ mram_free' \in Seq(Frames) /\ mswp_free' \in Seq(Slots)
           /\ \/ mram_free' = mram_free
              \/ /\ frame(p) \/ map_frame(p)
                 /\ mram_free # << >> /\ mram_free' = Tail(mram_free)
           /\ \/ mswp_free' = mswp_free
              \/ slot(p) /\ mswp_free # << >> /\ mswp_free' = Tail(mswp_free)
              \/ (enter(p) \/ reuse_put(p)) /\ mswp_free' = <<job[p].tgtfpn>> \o mswp_free
<1>1. mram_free \in Seq(Frames) /\ mswp_free \in Seq(Slots) /\ SwapInv
    BY DEF BaseInv, StateType
<1>2. mram_free # << >> => Tail(mram_free) \in Seq(Frames)
    BY <1>1
<1>3. mswp_free # << >> => Tail(mswp_free) \in Seq(Slots)
    BY <1>1
<1>4. CASE frame(p) \/ map_frame(p)
    BY <1>1, <1>2, <1>4 DEF frame, map_frame
<1>5. CASE slot(p)
    BY <1>1, <1>3, <1>5 DEF slot
<1>6. CASE enter(p) \/ reuse_put(p)
  <2>1. job[p].tgtfpn \in Slots
    BY <1>1, <1>6 DEF SwapInv, Reading, enter, reuse_put, At
  <2>2. <<job[p].tgtfpn>> \in Seq(Slots)
    BY <2>1
  <2>3. <<job[p].tgtfpn>> \o mswp_free \in Seq(Slots)
    BY <1>1, <2>2, ConcatProperties
  <2> QED
    BY <1>1, <1>6, <2>3 DEF enter, reuse_put, MEMPHY_put_freefp
<1>7. CASE \/ victim(p) \/ slot_none_getpage(p) \/ slot_none_reuse(p) \/ slot_none_map(p) \/ evict(p)
           \/ getpage(p) \/ frame_none(p) \/ found(p) \/ touch(p) \/ update(p)
           \/ map_lock(p) \/ map_frame_none(p) \/ map_page(p)
           \/ reuse(p) \/ reuse_enter(p) \/ reuse_update(p)
    BY <1>1, <1>7 DEF victim, slot_none_getpage, slot_none_reuse, slot_none_map, evict,
       getpage, frame_none, found, touch, update, map_lock, map_frame_none, map_page,
       reuse, reuse_enter, reuse_update
<1> QED
    BY <1>4, <1>5, <1>6, <1>7 DEF step

\* The LRU list: the head is taken, a page noted or a node moved.
LEMMA StepLru ==
    ASSUME BaseInv, NEW p \in Proc, step(p)
    PROVE  /\ lru' \in Seq(Node)
           /\ \/ lru' = lru
              \/ victim(p) /\ lru # << >> /\ lru' = Tail(lru)
              \/ /\ found(p)
                 /\ lru' = add_LRU_page(lru, Current(p), pgd[Current(p)].low)
              \/ /\ reuse_enter(p)
                 /\ lru' = add_LRU_page(lru, Current(p), job[p].vic.fpn)
              \/ /\ map_page(p)
                 /\ \E n \in 1 .. Len(job[p].pages) :
                       /\ n = Len(job[p].frm_lst)
                       /\ job[p].pages[n] \in Page /\ job[p].frm_lst[n] \in 0 .. FPN_MOD - 1
                       /\ lru' = add_LRU_page(lru, job[p].pages[n], job[p].frm_lst[n])
              \/ /\ update(p) \/ reuse_update(p)
                 /\ \E i \in 1 .. Len(lru) : lru' = MoveToTail(lru, i)
<1>1. lru \in Seq(Node)
    BY DEF BaseInv, StateType
<1>2. Busy(p)
    BY StepJob
<1>3. /\ Current(p) \in Page /\ job[p].vic.fpn \in 0 .. FPN_MOD - 1
      /\ job[p].pages \in Seq(Page) /\ job[p].frm_lst \in Seq(0 .. FPN_MOD - 1)
      /\ pgd[Current(p)].low \in 0 .. FPN_MOD - 1
    BY <1>2, JobParts
<1>4. CASE victim(p)
    BY <1>1, <1>4 DEF victim
<1>5. CASE found(p)
    BY <1>1, <1>3, <1>5, AddFacts DEF found, PAGING_PTE_FPN
<1>6. CASE reuse_enter(p)
    BY <1>1, <1>3, <1>6, AddFacts DEF reuse_enter
<1>7. CASE map_page(p)
  <2> DEFINE n == Len(job[p].frm_lst)
  <2>1. n \in 1 .. Len(job[p].pages) /\ n \in 1 .. Len(job[p].frm_lst)
    BY SMTT(30), <1>3, <1>7 DEF map_page, At, BaseInv, ListInv
  <2>2. job[p].pages[n] \in Page /\ job[p].frm_lst[n] \in 0 .. FPN_MOD - 1
    BY <1>3, <2>1, ElementOfSeq
  <2>3. lru' = add_LRU_page(lru, job[p].pages[n], job[p].frm_lst[n])
    BY <1>7 DEF map_page
  <2>4. lru' \in Seq(Node)
    BY <1>1, <2>2, <2>3, AddFacts
  <2> QED
    BY <1>7, <2>1, <2>2, <2>3, <2>4
<1>8. CASE update(p)
  <2>1. lru' = update_LRU_lst(lru, PAGING_PTE_FPN(pgd[Current(p)]))
    BY <1>8 DEF update
  <2> QED
    BY <1>1, <1>8, <2>1, UpdateFacts
<1>9. CASE reuse_update(p)
  <2>1. lru' = update_LRU_lst(lru, job[p].tgtfpn)
    BY <1>9 DEF reuse_update
  <2> QED
    BY <1>1, <1>9, <2>1, UpdateFacts
<1>10. CASE \/ slot(p) \/ slot_none_getpage(p) \/ slot_none_reuse(p) \/ slot_none_map(p) \/ evict(p)
            \/ getpage(p) \/ frame(p) \/ frame_none(p) \/ enter(p) \/ touch(p)
            \/ map_lock(p) \/ map_frame(p) \/ map_frame_none(p) \/ reuse(p) \/ reuse_put(p)
    BY <1>1, <1>10 DEF slot, slot_none_getpage, slot_none_reuse, slot_none_map, evict,
       getpage, frame, frame_none, enter, touch, map_lock, map_frame, map_frame_none, reuse, reuse_put
<1> QED
    BY <1>4, <1>5, <1>6, <1>7, <1>8, <1>9, <1>10 DEF step

\* The mutexes: each is taken and given back in two places.
LEMMA StepMutex ==
    ASSUME BaseInv, NEW p \in Proc, step(p)
    PROVE  /\ MEM_in_use' \in [{"mm", "mm-vm"} -> SUBSET Proc]
           /\ \/ MEM_in_use' = MEM_in_use
              \/ /\ getpage(p) /\ MEM_in_use["mm-vm"] = {}
                 /\ MEM_in_use' = [MEM_in_use EXCEPT !["mm-vm"] = {p}]
              \/ /\ found(p) \/ slot_none_getpage(p)
                 /\ MEM_in_use' = [MEM_in_use EXCEPT !["mm-vm"] = @ \ {p}]
              \/ /\ map_lock(p) /\ MEM_in_use["mm"] = {}
                 /\ MEM_in_use' = [MEM_in_use EXCEPT !["mm"] = {p}]
              \/ /\ map_page(p) /\ Len(job[p].frm_lst) = 1
                 /\ MEM_in_use' = [MEM_in_use EXCEPT !["mm"] = @ \ {p}]
<1>1. MEM_in_use \in [{"mm", "mm-vm"} -> SUBSET Proc]
    BY DEF BaseInv, StateType
<1>2. CASE getpage(p) \/ found(p) \/ slot_none_getpage(p) \/ map_lock(p)
    BY <1>1, <1>2 DEF getpage, found, slot_none_getpage, map_lock
<1>3. CASE map_page(p)
    BY <1>1, <1>3 DEF map_page
<1>4. CASE \/ victim(p) \/ slot(p) \/ slot_none_reuse(p) \/ slot_none_map(p) \/ evict(p)
           \/ frame(p) \/ frame_none(p) \/ enter(p) \/ touch(p) \/ update(p)
           \/ map_frame(p) \/ map_frame_none(p)
           \/ reuse(p) \/ reuse_enter(p) \/ reuse_put(p) \/ reuse_update(p)
    BY <1>1, <1>4 DEF victim, slot, slot_none_reuse, slot_none_map, evict,
       frame, frame_none, enter, touch, update, map_frame, map_frame_none,
       reuse, reuse_enter, reuse_put, reuse_update
<1> QED
    BY <1>2, <1>3, <1>4 DEF step

LEMMA StepState ==
    ASSUME BaseInv, NEW p \in Proc, step(p)
    PROVE  StateType'
<1>1. reserved' \in [Proc -> 0 .. NPages]
    BY StepReserved DEF BaseInv, StateType
<1>2. crashed' \in BOOLEAN
    BY DEF BaseInv, StateType, step, victim, slot, slot_none_getpage, slot_none_reuse, slot_none_map,
       evict, getpage, frame, frame_none, enter, found, touch, update, map_lock, map_frame,
       map_frame_none, map_page, reuse, reuse_enter, reuse_put, reuse_update
<1> QED
    BY <1>1, <1>2, StepEntry, StepFree, StepLru, StepMutex DEF StateType

-----------------------------------------------------------------------------
(* Where a step leads *)

\* The next place in the code.
Label(p) ==
    /\ victim(p) => job'[p].pc = "slot"
    /\ slot(p) => job'[p].pc = "evict"
    /\ slot_none_getpage(p) => job'[p].pc = AfterAccess(p)
    /\ slot_none_reuse(p) => job'[p].pc = "done"
    /\ slot_none_map(p) => job'[p].pc = "slot"
    /\ evict(p) => job'[p].pc = IF job[p].kind = "map" THEN AllocNext(p)
                                ELSE IF job[p].kind = "reuse" THEN "reuse_enter" ELSE "enter"
    /\ getpage(p) => job'[p].pc = IF Present(Current(p)) THEN "found" ELSE "frame"
    /\ frame(p) => job'[p].pc = "found"
    /\ frame_none(p) => job'[p].pc = "victim"
    /\ enter(p) => job'[p].pc = "found"
    /\ found(p) => job'[p].pc = "touch"
    /\ touch(p) => job'[p].pc = AfterAccess(p)
    /\ update(p) => job'[p].pc = "done"
    /\ map_lock(p) => job'[p].pc = "map_frame"
    /\ map_frame(p) => job'[p].pc = AllocNext(p)
    /\ map_frame_none(p) => job'[p].pc = "victim"
    /\ map_page(p) => job'[p].pc = IF Len(job[p].frm_lst) = 1 THEN "done" ELSE "map_page"
    /\ reuse(p) => job'[p].pc = IF Present(Current(p)) THEN "reuse_update" ELSE "victim"
    /\ reuse_enter(p) => job'[p].pc = "reuse_put"
    /\ reuse_put(p) => job'[p].pc = "reuse_update"
    /\ reuse_update(p) => job'[p].pc = IF Len(job[p].pages) = 1 THEN "done" ELSE "reuse"

LEMMA StepLabel ==
    ASSUME BaseInv, NEW p \in Proc
    PROVE  Label(p)
<1>1. job[p] \in Jobs /\ JobType /\ job \in [Proc -> Jobs]
    BY JobParts DEF BaseInv, JobType
<1>2. ASSUME NEW r, Continue(p, r) PROVE job'[p].pc = r.pc
    BY <1>1, <1>2, ContinueJob DEF Ends
<1>3. victim(p) => job'[p].pc = "slot"
    BY <1>1 DEF victim, Jobs
<1>4. slot(p) => job'[p].pc = "evict"
    BY <1>1 DEF slot, Jobs
<1>5. slot_none_getpage(p) => job'[p].pc = AfterAccess(p)
  <2> DEFINE r == [job[p] EXCEPT !.pc = AfterAccess(p), !.pages = Rest(p), !.vic = NoNode, !.tgtfpn = 0]
  <2>1. r.pc = AfterAccess(p)
    BY <1>1 DEF Jobs
  <2>2. slot_none_getpage(p) => Continue(p, r)
    BY DEF slot_none_getpage
  <2> HIDE DEF r
  <2> QED
    BY <1>2, <2>1, <2>2
<1>6. slot_none_reuse(p) => job'[p].pc = "done"
    BY <1>1, <1>2 DEF slot_none_reuse, Jobs
<1>7. slot_none_map(p) => job'[p].pc = "slot"
    BY <1>1 DEF slot_none_map, At
<1>8. evict(p) => job'[p].pc = IF job[p].kind = "map" THEN AllocNext(p)
                               ELSE IF job[p].kind = "reuse" THEN "reuse_enter" ELSE "enter"
    BY <1>1 DEF evict, Jobs
<1>9. getpage(p) => job'[p].pc = IF Present(Current(p)) THEN "found" ELSE "frame"
    BY <1>1 DEF getpage, Jobs, Present
<1>10. frame(p) => job'[p].pc = "found"
    BY <1>1 DEF frame, Jobs
<1>11. frame_none(p) => job'[p].pc = "victim"
    BY <1>1 DEF frame_none, Goto, Jobs
<1>12. enter(p) => job'[p].pc = "found"
    BY <1>1 DEF enter, Jobs
<1>13. found(p) => job'[p].pc = "touch"
    BY <1>1 DEF found, Jobs
<1>14. touch(p) => job'[p].pc = AfterAccess(p)
  <2> DEFINE r == [job[p] EXCEPT !.pc = AfterAccess(p), !.pages = Rest(p), !.fpn = 0]
  <2>1. r.pc = AfterAccess(p)
    BY <1>1 DEF Jobs
  <2>2. touch(p) => Continue(p, r)
    BY DEF touch
  <2> HIDE DEF r
  <2> QED
    BY <1>2, <2>1, <2>2
<1>15. update(p) => job'[p].pc = "done"
    BY <1>1, <1>2 DEF update, Jobs
<1>16. map_lock(p) => job'[p].pc = "map_frame"
    BY <1>1 DEF map_lock, Goto, Jobs
<1>17. map_frame(p) => job'[p].pc = AllocNext(p)
    BY <1>1 DEF map_frame, Jobs
<1>18. map_frame_none(p) => job'[p].pc = "victim"
    BY <1>1 DEF map_frame_none, Goto, Jobs
<1>19. map_page(p) => job'[p].pc = IF Len(job[p].frm_lst) = 1 THEN "done" ELSE "map_page"
  <2> DEFINE r == [job[p] EXCEPT !.frm_lst = SubSeq(@, 1, Len(job[p].frm_lst) - 1),
                                 !.pc = IF Len(job[p].frm_lst) = 1 THEN "done" ELSE "map_page"]
  <2>1. r.pc = IF Len(job[p].frm_lst) = 1 THEN "done" ELSE "map_page"
    BY <1>1 DEF Jobs
  <2>2. map_page(p) => Continue(p, r)
    BY DEF map_page
  <2> HIDE DEF r
  <2> QED
    BY <1>2, <2>1, <2>2
<1>20. reuse(p) => job'[p].pc = IF Present(Current(p)) THEN "reuse_update" ELSE "victim"
    BY <1>1 DEF reuse, Jobs, Present
<1>21. reuse_enter(p) => job'[p].pc = "reuse_put"
    BY <1>1 DEF reuse_enter, Jobs
<1>22. reuse_put(p) => job'[p].pc = "reuse_update"
    BY <1>1 DEF reuse_put, Goto, Jobs
<1>23. reuse_update(p) => job'[p].pc = IF Len(job[p].pages) = 1 THEN "done" ELSE "reuse"
  <2> DEFINE r == [job[p] EXCEPT !.pc = IF Len(job[p].pages) = 1 THEN "done" ELSE "reuse",
                                 !.pages = Rest(p), !.tgtfpn = 0]
  <2>1. r.pc = IF Len(job[p].pages) = 1 THEN "done" ELSE "reuse"
    BY <1>1 DEF Jobs
  <2>2. reuse_update(p) => Continue(p, r)
    BY DEF reuse_update
  <2> HIDE DEF r
  <2> QED
    BY <1>2, <2>1, <2>2
<1> QED
    BY <1>3, <1>4, <1>5, <1>6, <1>7, <1>8, <1>9, <1>10, <1>11, <1>12, <1>13, <1>14, <1>15, <1>16,
       <1>17, <1>18, <1>19, <1>20, <1>21, <1>22, <1>23 DEF Label

\* The locals that matter where it leads.
Locals(p) ==
    /\ victim(p) => /\ job'[p].vic = IF lru = << >> THEN NoNode ELSE Head(lru)
                    /\ job'[p].tgtfpn = job[p].tgtfpn
    /\ slot(p) => /\ job'[p].swpfpn = Head(mswp_free)
                  /\ job'[p].vic = job[p].vic /\ job'[p].tgtfpn = job[p].tgtfpn
    /\ evict(p) /\ job[p].kind # "map" => /\ job'[p].vic = job[p].vic
                                          /\ job'[p].tgtfpn = job[p].tgtfpn
    /\ getpage(p) /\ ~Present(Current(p)) => job'[p].tgtfpn = pgd[Current(p)].low
    /\ frame_none(p) \/ reuse_enter(p) => job'[p].tgtfpn = job[p].tgtfpn
    /\ reuse(p) => job'[p].tgtfpn = pgd[Current(p)].low
    /\ found(p) => job'[p].fpn = pgd[Current(p)].low
    /\ (\/ victim(p) \/ slot(p) \/ evict(p) \/ getpage(p) \/ frame(p) \/ frame_none(p) \/ enter(p)
        \/ found(p) \/ reuse(p) \/ reuse_enter(p) \/ reuse_put(p)) => job'[p].pages = job[p].pages
    /\ touch(p) \/ slot_none_getpage(p) =>
          /\ job[p].kind = "rw" => job'[p].pages = Rest(p)
          /\ job'[p].pc # "done" => job'[p].pages = Rest(p)

LEMMA StepLocals ==
    ASSUME BaseInv, NEW p \in Proc
    PROVE  Locals(p)
<1>1. job[p] \in Jobs /\ JobType /\ job \in [Proc -> Jobs]
    BY JobParts DEF BaseInv, JobType
<1>2. victim(p) => /\ job'[p].vic = IF lru = << >> THEN NoNode ELSE Head(lru)
                   /\ job'[p].tgtfpn = job[p].tgtfpn
    BY <1>1 DEF victim, Jobs
<1>3. slot(p) => /\ job'[p].swpfpn = Head(mswp_free)
                 /\ job'[p].vic = job[p].vic /\ job'[p].tgtfpn = job[p].tgtfpn
    BY <1>1 DEF slot, Jobs
<1>4. evict(p) /\ job[p].kind # "map" => /\ job'[p].vic = job[p].vic
                                         /\ job'[p].tgtfpn = job[p].tgtfpn
    BY <1>1 DEF evict, Jobs
<1>5. getpage(p) /\ ~Present(Current(p)) => job'[p].tgtfpn = pgd[Current(p)].low
    BY <1>1 DEF getpage, Jobs, Present, PAGING_PTE_FPN
<1>6. frame_none(p) \/ reuse_enter(p) => job'[p].tgtfpn = job[p].tgtfpn
    BY <1>1 DEF frame_none, reuse_enter, Goto, Jobs
<1>7. reuse(p) => job'[p].tgtfpn = pgd[Current(p)].low
    BY <1>1 DEF reuse, Jobs, PAGING_PTE_FPN
<1>8. found(p) => job'[p].fpn = pgd[Current(p)].low
    BY <1>1 DEF found, Jobs, PAGING_PTE_FPN
<1>9. (\/ victim(p) \/ slot(p) \/ evict(p) \/ getpage(p) \/ frame(p) \/ frame_none(p) \/ enter(p)
       \/ found(p) \/ reuse(p) \/ reuse_enter(p) \/ reuse_put(p)) => job'[p].pages = job[p].pages
    BY SMTT(30), <1>1 DEF victim, slot, evict, getpage, frame, frame_none, enter, found, reuse, reuse_enter,
       reuse_put, Goto, Jobs
<1>10. ASSUME touch(p) \/ slot_none_getpage(p)
       PROVE  /\ job[p].kind = "rw" => job'[p].pages = Rest(p)
              /\ job'[p].pc # "done" => job'[p].pages = Rest(p)
  <2>1. job'[p].pc # "done" => job'[p].pages = Rest(p)
    <3>1. ASSUME NEW r, Continue(p, r), job'[p].pc # "done" PROVE job'[p] = r
      BY <1>1, <3>1, ContinueJob DEF Ends
    <3>2. CASE touch(p)
      BY <1>1, <3>1, <3>2 DEF touch, Jobs
    <3>3. CASE slot_none_getpage(p)
      BY <1>1, <3>1, <3>3 DEF slot_none_getpage, Jobs
    <3> QED
      BY <1>10, <3>2, <3>3
  <2>2. job[p].kind = "rw" => job'[p].pc # "done"
    BY <1>10, StepLabel DEF Label, AfterAccess
  <2> QED
    BY <2>1, <2>2
<1> QED
    BY <1>2, <1>3, <1>4, <1>5, <1>6, <1>7, <1>8, <1>9, <1>10 DEF Locals

-----------------------------------------------------------------------------
(* BaseInv is kept *)

LEMMA StepSwap ==
    ASSUME BaseInv, NEW p \in Proc, step(p)
    PROVE  SwapInv'
<1>1. /\ \A q \in Proc : q # p => job'[q] = job[q]
      /\ Busy(p) /\ (GoesOn(p) \/ Ends(p))
    BY StepJob
<1>2. SwapInv /\ pgd \in [Page -> Pte] /\ job[p].swpfpn \in Slots /\ Current(p) \in Page /\ KindInv
    BY <1>1, JobParts DEF BaseInv, StateType
<1>3. \A pg \in Page : ~Present(pg)' => pgd'[pg].low \in Slots
  <2>1. CASE pgd' = pgd
    BY <1>2, <2>1 DEF SwapInv, Present
  <2>2. CASE evict(p) /\ pgd' = [pgd EXCEPT ![job[p].vic.page] = pte_set_swap(@, job[p].swpfpn)]
    BY <1>2, <2>2, Entries DEF SwapInv, Present
  <2>3. CASE \E pg \in Page, f \in 0 .. FPN_MOD - 1 : Enters(pg, f)
    BY <1>2, <2>3, Entries DEF SwapInv, Present, Enters
  <2> QED
    BY <2>1, <2>2, <2>3, StepEntry
<1>4. Reading(p)' => job'[p].tgtfpn \in Slots
  <2>0. SUFFICES ASSUME Reading(p)' PROVE job'[p].tgtfpn \in Slots
    OBVIOUS
  <2>1. GoesOn(p) /\ job'[p].kind = job[p].kind
    BY <1>1, <2>0 DEF Reading, Ends, GoesOn
  <2>2. CASE getpage(p) \/ reuse(p)
    <3>1. ~Present(Current(p)) /\ job'[p].tgtfpn = pgd[Current(p)].low
      BY <2>0, <2>2, StepLabel, StepLocals DEF Label, Locals, Reading
    <3> QED
      BY <1>2, <3>1 DEF SwapInv
  <2>3. CASE victim(p) \/ slot(p) \/ frame_none(p) \/ reuse_enter(p)
    <3>1. Reading(p)
      BY <1>2, <2>0, <2>1, <2>3, StepLabel DEF Label, Reading, victim, slot, frame_none, reuse_enter, At
    <3>2. job'[p].tgtfpn = job[p].tgtfpn
      BY <2>3, StepLocals DEF Locals
    <3> QED
      BY <1>2, <3>1, <3>2 DEF SwapInv
  <2>4. CASE evict(p)
    <3>a. job[p].pc = "evict"
      BY <2>4 DEF evict, At
    <3>b. job[p].kind = "map" => job'[p].pc \in {"map_frame", "map_page"}
      BY <2>4, StepLabel DEF Label, AllocNext
    <3>1. Reading(p) /\ job[p].kind # "map"
      BY <2>0, <2>1, <3>a, <3>b DEF Reading
    <3>2. job'[p].tgtfpn = job[p].tgtfpn
      BY <2>4, <3>1, StepLocals DEF Locals
    <3> QED
      BY <1>2, <3>1, <3>2 DEF SwapInv
  <2>5. CASE slot_none_map(p) \/ map_frame_none(p)
    BY <1>2, <2>0, <2>1, <2>5, StepLabel DEF Label, Reading, slot_none_map, map_frame_none, KindInv, At
  <2>6. CASE \/ slot_none_getpage(p) \/ slot_none_reuse(p) \/ frame(p) \/ enter(p) \/ found(p)
             \/ touch(p) \/ update(p) \/ map_lock(p) \/ map_frame(p) \/ map_page(p)
             \/ reuse_put(p) \/ reuse_update(p)
    BY <2>0, <2>6, StepLabel DEF Label, Reading, AfterAccess, AllocNext
  <2> QED
    BY <2>2, <2>3, <2>4, <2>5, <2>6 DEF step
<1>5. \A q \in Proc : Reading(q)' => job'[q].tgtfpn \in Slots
  <2>1. TAKE q \in Proc
  <2>2. CASE q = p
    BY <1>4, <2>2
  <2>3. CASE q # p
    BY <1>1, <1>2, <2>3 DEF SwapInv, Reading
  <2> QED
    BY <2>2, <2>3
<1> QED
    BY <1>3, <1>5 DEF SwapInv

\* Which mutexes a CPU is inside of after a step.
LEMMA StepInside ==
    ASSUME BaseInv, NEW p \in Proc, step(p)
    PROVE  /\ Inside(p, "mm-vm")' <=>
                 ~found(p) /\ ~slot_none_getpage(p) /\ (getpage(p) \/ Inside(p, "mm-vm"))
           /\ Inside(p, "mm")' <=>
                 /\ ~(map_page(p) /\ Len(job[p].frm_lst) = 1)
                 /\ map_lock(p) \/ Inside(p, "mm")
<1>1. Busy(p) /\ (GoesOn(p) \/ Ends(p))
    BY StepJob
<1>2. KindInv /\ job[p].kind \in Kinds
    BY JobParts DEF BaseInv
<1>3. CASE Ends(p)
  <2>1. \/ slot_none_getpage(p) \/ slot_none_reuse(p) \/ touch(p) \/ update(p)
        \/ (map_page(p) /\ Len(job[p].frm_lst) = 1) \/ reuse_update(p)
    BY <1>3, StepLabel DEF Label, Ends, step, AllocNext
  <2>2. ~Inside(p, "mm-vm")' /\ ~Inside(p, "mm")'
    BY <1>3 DEF Inside, Ends
  <2> QED
    BY <1>2, <2>1, <2>2 DEF Inside, KindInv, slot_none_getpage, slot_none_reuse, touch, update, map_page,
       reuse_update, At, found, getpage, map_lock
<1>4. CASE GoesOn(p)
  <2>1. job'[p].kind = job[p].kind /\ job'[p].pc # "done"
    BY <1>4 DEF GoesOn
  <2>2. CASE victim(p) \/ slot(p) \/ slot_none_map(p) \/ frame_none(p) \/ map_frame_none(p)
    <3>1. Inside(p, "mm-vm")' <=> Inside(p, "mm-vm")
      BY <1>2, <2>1, <2>2, StepLabel DEF Label, Inside, KindInv, victim, slot, slot_none_map, frame_none,
         map_frame_none, At, Kinds
    <3>2. Inside(p, "mm")' <=> Inside(p, "mm")
      BY <1>2, <2>1, <2>2, StepLabel DEF Label, Inside, KindInv, victim, slot, slot_none_map, frame_none,
         map_frame_none, At, Kinds
    <3>3. ~found(p) /\ ~slot_none_getpage(p) /\ ~getpage(p) /\ ~map_page(p) /\ ~map_lock(p)
      BY <2>2 DEF victim, slot, slot_none_map, frame_none, map_frame_none, At, found, getpage, map_page,
         map_lock, slot_none_getpage
    <3> QED
      BY <3>1, <3>2, <3>3
  <2>3. CASE slot_none_getpage(p)
    BY <1>2, <2>1, <2>3, StepLabel DEF Label, Inside, slot_none_getpage, At, AfterAccess, map_page, map_lock
  <2>4. CASE slot_none_reuse(p) \/ update(p)
    BY <2>1, <2>4, StepLabel DEF Label
  <2>5. CASE evict(p)
    <3>1. ~found(p) /\ ~slot_none_getpage(p) /\ ~getpage(p) /\ ~map_page(p) /\ ~map_lock(p)
      BY <2>5 DEF evict, At, found, getpage, map_page, map_lock, slot_none_getpage
    <3>a. job[p].pc = "evict"
      BY <2>5 DEF evict, At
    <3>b. /\ job[p].kind = "map" => job'[p].pc \in {"map_frame", "map_page"}
          /\ job[p].kind = "reuse" => job'[p].pc = "reuse_enter"
          /\ job[p].kind \in {"rw", "free"} => job'[p].pc = "enter"
      BY <2>5, StepLabel DEF Label, AllocNext
    <3>2. CASE job[p].kind = "map"
      BY <2>1, <3>a, <3>b, <3>1, <3>2 DEF Inside
    <3>3. CASE job[p].kind = "reuse"
      BY <2>1, <3>a, <3>b, <3>1, <3>3 DEF Inside
    <3>4. CASE job[p].kind \in {"rw", "free"}
      BY <2>1, <3>a, <3>b, <3>1, <3>4 DEF Inside
    <3> QED
      BY <1>2, <3>2, <3>3, <3>4 DEF Kinds
  <2>6. CASE getpage(p)
    <3>1. job[p].pc = "getpage" /\ job'[p].pc \in {"found", "frame"}
      BY <2>6, StepLabel DEF Label, getpage, At
    <3>2. ~found(p) /\ ~slot_none_getpage(p) /\ ~map_page(p) /\ ~map_lock(p)
      BY <3>1 DEF At, found, map_page, map_lock, slot_none_getpage
    <3> QED
      BY <2>1, <2>6, <3>1, <3>2 DEF Inside
  <2>7. CASE frame(p) \/ enter(p)
    BY <1>2, <2>1, <2>7, StepLabel DEF Label, Inside, frame, enter, At, found, getpage, map_page, map_lock,
       slot_none_getpage
  <2>8. CASE found(p) \/ touch(p)
    BY <1>2, <2>1, <2>8, StepLabel DEF Label, Inside, found, touch, At, AfterAccess, getpage, map_page,
       map_lock
  <2>9. CASE map_lock(p) \/ map_frame(p)
    BY <1>2, <2>1, <2>9, StepLabel DEF Label, Inside, map_lock, map_frame, At, AllocNext, found, getpage,
       map_page, slot_none_getpage
  <2>10. CASE map_page(p)
    BY <1>2, <2>1, <2>10, StepLabel DEF Label, Inside, map_page, At, found, getpage, map_lock,
       slot_none_getpage
  <2>11. CASE reuse(p) \/ reuse_enter(p) \/ reuse_put(p) \/ reuse_update(p)
    <3>1. job[p].kind = "reuse"
      BY <1>2, <2>11 DEF KindInv, reuse, reuse_enter, reuse_put, reuse_update, At
    <3> QED
      BY <2>1, <2>11, <3>1, StepLabel DEF Label, Inside, reuse, reuse_enter, reuse_put, reuse_update, At,
         found, getpage, map_page, map_lock, slot_none_getpage
  <2> QED
    BY <2>2, <2>3, <2>4, <2>5, <2>6, <2>7, <2>8, <2>9, <2>10, <2>11 DEF step
<1> QED
    BY <1>1, <1>3, <1>4

LEMMA StepHeld ==
    ASSUME BaseInv, NEW p \in Proc, step(p)
    PROVE  MutexInv'
<1>1. \A q \in Proc : q # p => job'[q] = job[q]
    BY StepJob
<1>2. \A q \in Proc : q # p => \A f \in {"mm", "mm-vm"} : Inside(q, f)' <=> Inside(q, f)
    BY <1>1 DEF Inside
<1>3. MutexInv /\ MEM_in_use \in [{"mm", "mm-vm"} -> SUBSET Proc]
    BY DEF BaseInv, StateType
<1> DEFINE In(f) == {q \in Proc : Inside(q, f)}
           Held(f) == MEM_in_use'[f] = In(f)' /\ \A q, r \in MEM_in_use'[f] : q = r
<1>4. \A f \in {"mm", "mm-vm"} : MEM_in_use[f] = In(f) /\ \A q, r \in MEM_in_use[f] : q = r
    BY <1>3 DEF MutexInv
<1>5. SUFFICES Held("mm") /\ Held("mm-vm")
    BY DEF MutexInv
<1>6. ASSUME NEW f \in {"mm", "mm-vm"}, Inside(p, f)' <=> Inside(p, f), MEM_in_use'[f] = MEM_in_use[f]
      PROVE  Held(f)
  <2>1. \A q \in Proc : Inside(q, f)' <=> Inside(q, f)
    BY <1>2, <1>6
  <2>2. In(f)' = In(f)
    BY <2>1
  <2> QED
    BY <1>4, <1>6, <2>2
<1>7. ASSUME NEW f \in {"mm", "mm-vm"}, Inside(p, f)', MEM_in_use'[f] = {p}, MEM_in_use[f] = {}
      PROVE  Held(f)
  <2>1. \A q \in Proc : Inside(q, f)' <=> q = p
    BY <1>2, <1>4, <1>7
  <2> QED
    BY <1>7, <2>1
<1>8. ASSUME NEW f \in {"mm", "mm-vm"}, ~Inside(p, f)', MEM_in_use'[f] = MEM_in_use[f] \ {p}
      PROVE  Held(f)
  <2>1. \A q \in Proc : Inside(q, f)' <=> q # p /\ Inside(q, f)
    BY <1>2, <1>8
  <2>2. In(f)' = In(f) \ {p}
    BY <2>1
  <2> QED
    BY <1>4, <1>8, <2>2
<1>9. Held("mm-vm")
  <2>1. CASE getpage(p)
    <3>1. MEM_in_use["mm-vm"] = {} /\ MEM_in_use'["mm-vm"] = {p}
      BY <1>3, <2>1 DEF getpage
    <3>2. ~found(p) /\ ~slot_none_getpage(p)
      BY <2>1 DEF getpage, found, slot_none_getpage, At
    <3>3. Inside(p, "mm-vm")'
      BY <2>1, <3>2, StepInside
    <3> HIDE DEF Held
    <3> QED
      BY <1>7, <3>1, <3>3
  <2>2. CASE found(p) \/ slot_none_getpage(p)
    <3>1. MEM_in_use'["mm-vm"] = MEM_in_use["mm-vm"] \ {p}
      BY <1>3, <2>2 DEF found, slot_none_getpage
    <3>2. ~Inside(p, "mm-vm")'
      BY <2>2, StepInside
    <3> HIDE DEF Held
    <3> QED
      BY <1>8, <3>1, <3>2
  <2>3. CASE ~getpage(p) /\ ~found(p) /\ ~slot_none_getpage(p)
    <3>1. MEM_in_use'["mm-vm"] = MEM_in_use["mm-vm"]
      BY <1>3, <2>3, StepMutex
    <3>2. Inside(p, "mm-vm")' <=> Inside(p, "mm-vm")
      BY <2>3, StepInside
    <3> HIDE DEF Held
    <3> QED
      BY <1>6, <3>1, <3>2
  <2> QED
    BY <2>1, <2>2, <2>3
<1>10. Held("mm")
  <2>1. CASE map_lock(p)
    <3>1. MEM_in_use["mm"] = {} /\ MEM_in_use'["mm"] = {p}
      BY <1>3, <2>1 DEF map_lock
    <3>2. ~map_page(p)
      BY <2>1 DEF map_lock, map_page, At
    <3>3. Inside(p, "mm")'
      BY <2>1, <3>2, StepInside
    <3> HIDE DEF Held
    <3> QED
      BY <1>7, <3>1, <3>3
  <2>2. CASE map_page(p) /\ Len(job[p].frm_lst) = 1
    <3>1. MEM_in_use'["mm"] = MEM_in_use["mm"] \ {p}
      BY <1>3, <2>2 DEF map_page
    <3>2. ~Inside(p, "mm")'
      BY <2>2, StepInside
    <3> HIDE DEF Held
    <3> QED
      BY <1>8, <3>1, <3>2
  <2>3. CASE ~map_lock(p) /\ ~(map_page(p) /\ Len(job[p].frm_lst) = 1)
    <3>1. MEM_in_use'["mm"] = MEM_in_use["mm"]
      BY <1>3, <2>3, StepMutex
    <3>2. Inside(p, "mm")' <=> Inside(p, "mm")
      BY <2>3, StepInside
    <3> HIDE DEF Held
    <3> QED
      BY <1>6, <3>1, <3>2
  <2> QED
    BY <2>1, <2>2, <2>3
<1> QED
    BY <1>9, <1>10

LEMMA StepBase ==
    ASSUME BaseInv, NEW p \in Proc, step(p)
    PROVE  BaseInv'
BY StepJob, StepState, StepKind, StepPages, StepList, StepSwap, StepHeld DEF BaseInv

\* An instruction that starts.
LEMMA StartBase ==
    ASSUME BaseInv, NEW p \in Proc, start(p)
    PROVE  BaseInv'
<1>1. /\ UNCHANGED <<pgd, mram_free, mswp_free, lru, MEM_in_use, ram, swp, crashed>>
      /\ JobType' /\ (\A q \in Proc : q # p => job'[q] = job[q])
      /\ job[p].pc = "idle"
      /\ job'[p].frm_lst = << >>
      /\ StartsAt(job'[p].kind, job'[p].pc)
      /\ reserved' \in [Proc -> 0 .. NPages] /\ \A q \in Proc : reserved[q] <= reserved'[q]
    BY StartJob
<1>2. KindInv /\ PagesInv /\ ListInv /\ SwapInv /\ MutexInv
    BY DEF BaseInv
<1>3. StateType'
    BY <1>1 DEF StateType, BaseInv
<1>4. KindInv'
    BY <1>1, <1>2 DEF KindInv, StartsAt
<1>5. PICK lo \in Nat, n \in 1 .. MaxPages :
          /\ About(p, job'[p].kind, lo, n)
          /\ job'[p].size = n /\ Len(job'[p].pages) = n
          /\ \A i \in 1 .. n : job'[p].pages[i] = <<p, lo + i - 1>>
    BY StartJob
<1>6. PagesInv'
  <2>1. ASSUME NEW q \in Proc, q # p PROVE PagesAt(q)'
    <3>1. job'[q] = job[q] /\ PagesAt(q) /\ reserved[q] <= reserved'[q]
      BY <1>1, <1>2, <2>1 DEF PagesInv, PagesAt
    <3>2. reserved[q] \in Nat /\ reserved'[q] \in Nat
      BY <1>1, Sizes DEF BaseInv, StateType
    <3>3. job[q].pages \in Seq(Page)
      BY JobParts
    <3>4. ASSUME Busy(q), NEW i \in 1 .. Len(job[q].pages), job[q].pages[i][2] < reserved[q]
          PROVE  job[q].pages[i][2] < reserved'[q]
      <4>1. job[q].pages[i] \in Page
        BY <3>3, <3>4, ElementOfSeq
      <4>2. job[q].pages[i][2] \in Nat
        BY <4>1, Sizes DEF Page
      <4> QED
        BY <3>1, <3>2, <3>4, <4>2
    <3> QED
      BY <3>1, <3>4 DEF PagesAt, Busy
  <2>2. PagesAt(p)'
    <3>1. n \in 1 .. n /\ n \in Nat /\ NPages \in Nat /\ reserved'[p] \in Nat
      BY <1>1, Sizes
    <3>2. \A i \in 1 .. n : job'[p].pages[i][1] = p /\ job'[p].pages[i][2] = lo + i - 1
      BY <1>5
    <3>3. \A i, j \in 1 .. n : job'[p].pages[i] = job'[p].pages[j] => i = j
      <4>1. TAKE i, j \in 1 .. n
      <4>2. HAVE job'[p].pages[i] = job'[p].pages[j]
      <4>3. lo + i - 1 = lo + j - 1
        BY <3>2, <4>2
      <4> QED
        BY <3>1, <4>3
    <3>4. \A i \in 1 .. n : lo + i - 1 < reserved'[p] \/ lo + i - 1 = NPages
      <4>1. CASE lo + n <= reserved'[p]
        BY <3>1, <4>1
      <4>2. CASE lo = NPages /\ n = 1
        BY <3>1, <4>2
      <4> QED
        BY <1>5, <4>1, <4>2 DEF About
    <3> QED
      BY <1>5, <3>1, <3>2, <3>3, <3>4 DEF PagesAt
  <2>3. (\A q \in Proc : PagesAt(q)') => PagesInv'
    BY DEF PagesInv, PagesAt
  <2> QED
    BY <2>1, <2>2, <2>3
<1>7. ListInv'
  <2>1. ASSUME NEW q \in Proc, q # p PROVE ListAt(q)'
    BY <1>1, <1>2, <2>1 DEF ListInv, ListAt, Busy
  <2>2. ListAt(p)'
    <3>1. job'[p].pc # "map_page"
      BY <1>1 DEF StartsAt
    <3>2. Len(job'[p].frm_lst) = 0 /\ n \in Nat /\ 0 < n
      BY <1>1
    <3>3. Len(job'[p].frm_lst) < Len(job'[p].pages)
      BY <1>5, <3>2
    <3> QED
      BY <1>1, <3>1, <3>3 DEF ListAt
  <2>3. (\A q \in Proc : ListAt(q)') => ListInv'
    BY DEF ListInv, ListAt
  <2> QED
    BY <2>1, <2>2, <2>3
<1>8. SwapInv'
    BY <1>1, <1>2 DEF SwapInv, StartsAt, Reading, Present
<1>9. MutexInv'
  <2>1. \A q \in Proc : \A f \in {"mm", "mm-vm"} : Inside(q, f)' <=> Inside(q, f)
    <3>1. ASSUME NEW q \in Proc, q # p, NEW f \in {"mm", "mm-vm"} PROVE Inside(q, f)' <=> Inside(q, f)
      BY <1>1, <3>1 DEF Inside
    <3>2. ASSUME NEW f \in {"mm", "mm-vm"} PROVE ~Inside(p, f)' /\ ~Inside(p, f)
      BY <1>1 DEF Inside, StartsAt
    <3> QED
      BY <3>1, <3>2
  <2>2. \A f \in {"mm", "mm-vm"} : {q \in Proc : Inside(q, f)}' = {q \in Proc : Inside(q, f)}
    BY <2>1
  <2> QED
    BY <1>1, <1>2, <2>2 DEF MutexInv
<1> QED
    BY <1>1, <1>3, <1>4, <1>6, <1>7, <1>8, <1>9 DEF BaseInv

\* The end of a slot.
LEMMA TickBase ==
    ASSUME BaseInv, tick
    PROVE  BaseInv'
<1>1. /\ \A p \in Proc : ~Busy(p) /\ job'[p] = Resting
      /\ UNCHANGED <<reserved, pgd, mram_free, mswp_free, lru, MEM_in_use, ram, swp, crashed>>
    BY DEF tick
<1>2. Resting.pc = "idle" /\ Resting.frm_lst = << >> /\ Resting \in Jobs
    BY RestingJob
<1>3. JobType' /\ StateType'
  <2>1. job' = [p \in Proc |-> Resting]
    BY DEF tick
  <2>2. JobType'
    BY <1>2, <2>1 DEF JobType
  <2> QED
    BY <1>1, <2>2 DEF StateType, BaseInv
<1>4. \A p \in Proc : job'[p].pc = "idle" /\ job'[p].frm_lst = << >> /\ ~Busy(p)'
    BY <1>1, <1>2 DEF Busy
<1>5. KindInv' /\ PagesInv' /\ ListInv'
    BY <1>4 DEF KindInv, PagesInv, ListInv
<1>6. SwapInv'
    BY <1>1, <1>4 DEF BaseInv, SwapInv, Reading, Present
<1>7. MutexInv'
  <2>1. \A p \in Proc : \A f \in {"mm", "mm-vm"} : ~Inside(p, f)' /\ ~Inside(p, f)
    BY <1>1, <1>4 DEF Inside, Busy
  <2>2. \A f \in {"mm", "mm-vm"} : {q \in Proc : Inside(q, f)}' = {q \in Proc : Inside(q, f)}
    BY <2>1
  <2> QED
    BY <1>1, <2>2 DEF MutexInv, BaseInv
<1> QED
    BY <1>3, <1>5, <1>6, <1>7 DEF BaseInv

LEMMA StutterBase ==
    ASSUME BaseInv, UNCHANGED vars
    PROVE  BaseInv'
BY DEF vars, BaseInv, JobType, StateType, KindInv, PagesInv, ListInv, SwapInv, MutexInv, Busy, Reading,
   Present, Inside

LEMMA InitBase == Init => BaseInv
<1> SUFFICES ASSUME Init PROVE BaseInv
    OBVIOUS
<1>1. Resting.pc = "idle" /\ Resting.frm_lst = << >> /\ Resting \in Jobs
    BY RestingJob
<1>2. \A p \in Proc : job[p] = Resting /\ job[p].pc = "idle" /\ job[p].frm_lst = << >> /\ ~Busy(p)
    BY <1>1 DEF Init, Busy
<1>3. JobType
    BY <1>1 DEF Init, JobType
<1>4. \A n \in Nat \ {0} : MEMPHY_format(n) \in Seq(0 .. n - 1)
    BY DEF MEMPHY_format
<1>5. StateType
  <2>1. mram_free \in Seq(Frames) /\ mswp_free \in Seq(Slots)
    BY <1>4, Sizes DEF Init, Frames, Slots
  <2>2. pgd \in [Page -> Pte]
    BY Sizes DEF Init, Pte
  <2>3. reserved \in [Proc -> 0 .. NPages]
    BY Sizes DEF Init
  <2>a. << >> \in Seq(Node)
    OBVIOUS
  <2>4. lru \in Seq(Node) /\ crashed \in BOOLEAN
    BY <2>a DEF Init
  <2>5. MEM_in_use \in [{"mm", "mm-vm"} -> SUBSET Proc]
    BY DEF Init
  <2> QED
    BY <2>1, <2>2, <2>3, <2>4, <2>5 DEF StateType
<1>6. KindInv /\ PagesInv /\ ListInv
    BY <1>2 DEF KindInv, PagesInv, ListInv
<1>7. SwapInv
    BY <1>2, Sizes DEF SwapInv, Reading, Present, Init
<1>8. MutexInv
    BY <1>2 DEF MutexInv, Inside, Init
<1> QED
    BY <1>3, <1>5, <1>6, <1>7, <1>8 DEF BaseInv

LEMMA NextBase == BaseInv /\ [Next]_vars => BaseInv'
<1>1. ASSUME BaseInv, NEW p \in Proc, start(p) \/ step(p) PROVE BaseInv'
    BY <1>1, StepBase, StartBase
<1>2. ASSUME BaseInv, tick PROVE BaseInv'
    BY <1>2, TickBase
<1>3. ASSUME BaseInv, Crashed \/ UNCHANGED vars PROVE BaseInv'
    BY <1>3, StutterBase DEF Crashed
<1> QED
    BY <1>1, <1>2, <1>3 DEF Next

\* Types, labels, pages and mutexes are as they should be in every reachable
\* state, whatever instructions overlap.
THEOREM BaseInvariance == Spec => []BaseInv
BY InitBase, NextBase, PTL DEF Spec

\* MutexExact of Paging.tla: MEM_in_use of mm.c is held by the one CPU inside
\* vm_map_ram, that of mm-vm.c by the one inside pg_getpage, and no path leaves
\* with a mutex held, for every workload.
THEOREM MutexAlwaysExact == Spec => []MutexExact
<1>1. BaseInv => MutexExact
  <2>1. ASSUME BaseInv, NEW f \in {"mm", "mm-vm"} PROVE Cardinality(MEM_in_use[f]) <= 1
    <3>1. \A q, r \in MEM_in_use[f] : q = r
      BY <2>1 DEF BaseInv, MutexInv
    <3>2. CASE MEM_in_use[f] = {}
      BY <3>2, FS_EmptySet
    <3>3. CASE MEM_in_use[f] # {}
      <4>1. PICK q : q \in MEM_in_use[f]
        BY <3>3
      <4>2. MEM_in_use[f] = {q}
        BY <3>1, <4>1
      <4>3. Cardinality({q}) = 1
        BY FS_Singleton
      <4> QED
        BY <4>2, <4>3
    <3> QED
      BY <3>2, <3>3
  <2> QED
    BY <2>1 DEF BaseInv, MutexInv, MutexExact
<1> QED
    BY <1>1, BaseInvariance, PTL

-----------------------------------------------------------------------------
(* One CPU at a time uses frames and slots, when kinds do not overlap *)

LEMMA StepClass ==
    ASSUME BaseInv, ClassInv, NEW p \in Proc, step(p)
    PROVE  ClassInv'
<1>1. /\ \A q \in Proc : q # p => job'[q] = job[q]
      /\ Busy(p) /\ (GoesOn(p) \/ Ends(p))
    BY StepJob
<1>2. \A q \in Proc : Busy(q)' => Busy(q) /\ job'[q].kind = job[q].kind
    BY <1>1 DEF Busy, GoesOn, Ends
<1> QED
    BY <1>2 DEF ClassInv

LEMMA StartClass ==
    ASSUME ~Mixed, BaseInv, ClassInv, NEW p \in Proc, start(p)
    PROVE  ClassInv'
<1>1. /\ \A q \in Proc : q # p => job'[q] = job[q]
      /\ MayOverlap(p, job'[p].kind)
    BY StartJob
<1>2. \A q \in Proc : q # p => (Busy(q)' <=> Busy(q)) /\ job'[q].kind = job[q].kind
    BY <1>1 DEF Busy
<1>3. \A q \in Proc \ {p} : Busy(q) =>
          job'[p].kind # "reuse" /\ Class(job[q].kind) = Class(job'[p].kind)
    BY <1>1 DEF MayOverlap
<1>4. \A q \in Proc \ {p} : Busy(q) => job[q].kind # "reuse"
    BY <1>3 DEF Class
<1> SUFFICES ASSUME NEW a \in Proc, NEW b \in Proc, a # b, Busy(a)', Busy(b)'
             PROVE  Class(job'[a].kind) = Class(job'[b].kind) /\ job'[a].kind # "reuse"
    BY DEF ClassInv
<1>5. CASE a = p
    BY <1>2, <1>3, <1>5
<1>6. CASE b = p
    BY <1>2, <1>3, <1>4, <1>6
<1>7. CASE a # p /\ b # p
    BY <1>2, <1>7 DEF ClassInv
<1> QED
    BY <1>5, <1>6, <1>7

\* Two CPUs are never both in a critical part.
LEMMA Alone ==
    ASSUME BaseInv, ClassInv, NEW p \in Proc, NEW q \in Proc, Critical(p), Critical(q)
    PROVE  p = q
<1> SUFFICES ASSUME p # q PROVE FALSE
    OBVIOUS
<1>1. KindInv /\ MutexInv
    BY DEF BaseInv
<1>2. /\ Class(job[p].kind) = Class(job[q].kind)
      /\ job[p].kind # "reuse" /\ job[q].kind # "reuse"
    BY DEF ClassInv, Critical
<1>3. /\ job[p].pc \in Labels /\ job[p].kind \in Kinds
      /\ job[q].pc \in Labels /\ job[q].kind \in Kinds
    BY JobParts
<1>4. ASSUME NEW r \in Proc, Critical(r), job[r].pc \in Labels, job[r].kind # "reuse"
      PROVE  job[r].pc \in {"frame", "victim", "slot", "evict", "enter", "found", "map_frame", "map_page"}
    BY <1>1, <1>4 DEF Labels, Critical, Busy, KindInv
<1>5. ASSUME NEW r \in Proc, Critical(r), job[r].pc \in Labels, job[r].kind # "reuse", job[r].kind \in Kinds
      PROVE  Inside(r, IF job[r].kind = "map" THEN "mm" ELSE "mm-vm")
  <2>1. job[r].pc \in {"frame", "victim", "slot", "evict", "enter", "found", "map_frame", "map_page"}
    BY <1>4, <1>5
  <2>2. CASE job[r].kind = "map"
    <3>1. job[r].pc \notin {"frame", "enter", "found"}
      BY <1>1, <2>2 DEF KindInv
    <3> QED
      BY <2>1, <2>2, <3>1 DEF Inside
  <2>3. CASE job[r].kind # "map"
    <3>1. job[r].pc \notin {"map_frame", "map_page"}
      BY <1>1, <2>3 DEF KindInv
    <3>2. job[r].kind \in {"rw", "free"}
      BY <1>5, <2>3 DEF Kinds
    <3> QED
      BY <2>1, <2>3, <3>1, <3>2 DEF Inside
  <2> QED
    BY <2>2, <2>3
<1>6. job[p].kind = "map" <=> job[q].kind = "map"
    BY <1>2, <1>3 DEF Class, Kinds
<1>7. \E f \in {"mm", "mm-vm"} : Inside(p, f) /\ Inside(q, f)
    BY <1>2, <1>3, <1>5, <1>6
<1> QED
    BY <1>1, <1>7 DEF MutexInv

\* A CPU outside has no frame, no slot and no victim.
LEMMA QuietFacts ==
    ASSUME BaseInv, NEW q \in Proc, ~Critical(q)
    PROVE  /\ job[q].frm_lst = << >> /\ ~Reading(q) /\ ~Evicting(q) /\ ~HoldsFrame(q)
           /\ job[q].pc \notin {"found", "victim", "slot", "evict", "enter", "reuse_enter", "reuse_put",
                                "map_frame", "map_page", "frame", "reuse", "reuse_update"}
<1>1. job[q].pc \notin {"found", "victim", "slot", "evict", "enter", "reuse_enter", "reuse_put",
                        "map_frame", "map_page", "frame", "reuse", "reuse_update"}
    BY DEF Critical, Busy
<1>2. job[q].frm_lst = << >>
    BY <1>1 DEF BaseInv, ListInv
<1> QED
    BY <1>1, <1>2 DEF Reading, Evicting, HoldsFrame

\* The others while p is in a critical part.
LEMMA OthersQuiet ==
    ASSUME BaseInv, ClassInv, NEW p \in Proc, Critical(p), NEW q \in Proc, q # p
    PROVE  ~Critical(q)
BY Alone

-----------------------------------------------------------------------------
(* Frames: the steps that change page table entries and free lists *)

\* Frame f is on the free list.
Free(f) == \E i \in 1 .. Len(mram_free) : mram_free[i] = f

\* A list without its head.
LEMMA TailFacts ==
    ASSUME NEW S, NEW s \in Seq(S), s # << >>
    PROVE  /\ Tail(s) \in Seq(S) /\ Len(Tail(s)) = Len(s) - 1 /\ Len(s) \in Nat \ {0}
           /\ Head(s) = s[1] /\ Head(s) \in S
           /\ \A i \in 1 .. Len(Tail(s)) : Tail(s)[i] = s[i + 1] /\ i + 1 \in 1 .. Len(s)
           /\ \A j \in 1 .. Len(s) : j = 1 \/ \E i \in 1 .. Len(Tail(s)) : i + 1 = j /\ Tail(s)[i] = s[j]
<1>1. /\ Tail(s) \in Seq(S) /\ Len(Tail(s)) = Len(s) - 1 /\ Len(s) \in Nat \ {0}
      /\ Head(s) = s[1] /\ Head(s) \in S
      /\ \A i \in 1 .. Len(Tail(s)) : Tail(s)[i] = s[i + 1]
    BY HeadTailProperties
<1>2. \A i \in 1 .. Len(Tail(s)) : i + 1 \in 1 .. Len(s)
    BY <1>1
<1>3. ASSUME NEW j \in 1 .. Len(s), j # 1
      PROVE  \E i \in 1 .. Len(Tail(s)) : i + 1 = j /\ Tail(s)[i] = s[j]
  <2>1. j - 1 \in 1 .. Len(Tail(s)) /\ j - 1 + 1 = j
    BY <1>1, <1>3
  <2> QED
    BY <1>1, <2>1
<1> QED
    BY <1>1, <1>2, <1>3

\* The free list of RAM only loses its head, which is not on it twice.
LEMMA FreeStep ==
    ASSUME BaseInv, PresentInv, NEW p \in Proc, step(p)
    PROVE  /\ \A f : Free(f)' => Free(f)
           /\ \A i, j \in 1 .. Len(mram_free') : mram_free'[i] = mram_free'[j] => i = j
           /\ \/ mram_free' = mram_free
              \/ /\ frame(p) \/ map_frame(p)
                 /\ mram_free # << >> /\ mram_free' = Tail(mram_free)
                 /\ \E f \in Frames :
                       /\ f = Head(mram_free) /\ Free(f) /\ ~Free(f)'
                       /\ \A g : Free(g) => Free(g)' \/ g = f
<1>1. mram_free \in Seq(Frames)
    BY DEF BaseInv, StateType
<1>2. \A i, j \in 1 .. Len(mram_free) : mram_free[i] = mram_free[j] => i = j
    BY DEF PresentInv
<1>3. CASE mram_free' = mram_free
    BY <1>2, <1>3 DEF Free
<1>4. CASE (frame(p) \/ map_frame(p)) /\ mram_free # << >> /\ mram_free' = Tail(mram_free)
  <2> DEFINE s == mram_free
             t == Tail(mram_free)
  <2>1. /\ t \in Seq(Frames) /\ Len(t) = Len(s) - 1 /\ Len(s) \in Nat \ {0}
        /\ Head(s) = s[1] /\ Head(s) \in Frames
        /\ \A i \in 1 .. Len(t) : t[i] = s[i + 1] /\ i + 1 \in 1 .. Len(s)
        /\ \A j \in 1 .. Len(s) : j = 1 \/ \E i \in 1 .. Len(t) : i + 1 = j /\ t[i] = s[j]
    BY <1>1, <1>4, TailFacts
  <2>a. 1 \in 1 .. Len(s) /\ Len(t) \in Nat
    BY <2>1
  <2> HIDE DEF t
  <2>2. mram_free' = t
    BY <1>4 DEF t
  <2>3. \A f : Free(f)' => Free(f)
    BY <2>1, <2>2 DEF Free
  <2>4. \A i, j \in 1 .. Len(t) : t[i] = t[j] => i = j
    <3>1. TAKE i, j \in 1 .. Len(t)
    <3>2. HAVE t[i] = t[j]
    <3>3. i + 1 = j + 1
      BY <1>2, <2>1, <3>2
    <3> QED
      BY <2>a, <3>3
  <2>5. PICK f \in Frames : f = s[1]
    BY <2>1
  <2>6. Free(f)
    BY <2>a, <2>5 DEF Free
  <2>7. ~Free(f)'
    <3> SUFFICES ASSUME NEW i \in 1 .. Len(t), t[i] = s[1] PROVE FALSE
      BY <2>2, <2>5 DEF Free
    <3>1. i + 1 = 1
      BY <1>2, <2>1, <2>a
    <3> QED
      BY <2>a, <3>1
  <2>8. \A g : Free(g) => Free(g)' \/ g = f
    BY <2>1, <2>2, <2>5 DEF Free
  <2>9. f = Head(mram_free)
    BY <2>1, <2>5
  <2>10. \A i, j \in 1 .. Len(mram_free') : mram_free'[i] = mram_free'[j] => i = j
    BY <2>2, <2>4
  <2> QED
    BY <1>4, <2>3, <2>6, <2>7, <2>8, <2>9, <2>10
<1> QED
    BY <1>3, <1>4, StepFree

\* Page pg of p gets frame f, which nobody else has.
Entering(p, pg, f) ==
    /\ pg \in Page /\ f \in Frames /\ pg[1] = p /\ (pg[2] < reserved[p] \/ pg[2] = NPages)
    /\ Enters(pg, f) /\ ~Present(pg)
    /\ \A i \in 1 .. Len(mram_free') : mram_free'[i] # f
    /\ \A po \in Page : Present(po) => pgd[po].low # f

LEMMA EnterStep ==
    ASSUME BaseInv, MemInv, NEW p \in Proc
    PROVE  /\ frame(p) => Entering(p, Current(p), Head(mram_free)) /\ Free(Head(mram_free))
           /\ enter(p) \/ reuse_enter(p) =>
                 Entering(p, Current(p), job[p].vic.fpn) /\ mram_free' = mram_free
           /\ map_page(p) =>
                 /\ Len(job[p].frm_lst) \in 1 .. Len(job[p].pages)
                 /\ Entering(p, job[p].pages[Len(job[p].frm_lst)], job[p].frm_lst[Len(job[p].frm_lst)])
                 /\ Fresh(job[p].pages[Len(job[p].frm_lst)])
                 /\ mram_free' = mram_free
<1>0. PresentInv /\ MapInv /\ NeedInv /\ VictimInv
    BY DEF MemInv
<1>a. ASSUME Busy(p)
      PROVE  /\ Current(p) \in Page /\ Current(p)[1] = p
             /\ Current(p)[2] < reserved[p] \/ Current(p)[2] = NPages
  <2>1. /\ Len(job[p].pages) \in Nat \ {0} /\ Current(p) \in Page /\ Current(p)[1] = p
        /\ Current(p) = job[p].pages[1]
    BY <1>a, JobParts
  <2>2. 1 \in 1 .. Len(job[p].pages)
    BY <2>1
  <2>3. job[p].pages[1][2] < reserved[p] \/ job[p].pages[1][2] = NPages
    BY <1>a, <2>2 DEF BaseInv, PagesInv
  <2> QED
    BY <2>1, <2>3
<1>1. ASSUME frame(p)
      PROVE  Entering(p, Current(p), Head(mram_free)) /\ Free(Head(mram_free))
  <2>1. step(p) /\ Busy(p) /\ job[p].pc = "frame" /\ mram_free # << >> /\ mram_free' = Tail(mram_free)
    BY <1>1 DEF step, frame, At, Busy
  <2>2. ~Present(Current(p))
    BY <1>0, <2>1 DEF NeedInv, Reading
  <2>3. Tail(mram_free) # mram_free
    <3>1. mram_free \in Seq(Frames)
      BY DEF BaseInv, StateType
    <3>2. Len(Tail(mram_free)) = Len(mram_free) - 1 /\ Len(mram_free) \in Nat
      BY <2>1, <3>1, TailFacts
    <3> QED
      BY <3>2
  <2>4. /\ Head(mram_free) \in Frames /\ Free(Head(mram_free))
        /\ \A i \in 1 .. Len(mram_free') : mram_free'[i] # Head(mram_free)
    <3>1. PICK f \in Frames : f = Head(mram_free) /\ Free(f) /\ ~Free(f)'
      BY <1>0, <2>1, <2>3, FreeStep
    <3> QED
      BY <3>1 DEF Free
  <2>5. \A po \in Page : Present(po) => pgd[po].low # Head(mram_free)
    BY <1>0, <2>4 DEF PresentInv, Free
  <2>6. /\ Current(p) \in Page /\ Current(p)[1] = p
        /\ Current(p)[2] < reserved[p] \/ Current(p)[2] = NPages
    BY <1>a, <2>1
  <2>7. Enters(Current(p), Head(mram_free))
    BY <1>1 DEF frame, Enters
  <2> QED
    BY <2>2, <2>4, <2>5, <2>6, <2>7 DEF Entering
<1>2. ASSUME enter(p) \/ reuse_enter(p)
      PROVE  Entering(p, Current(p), job[p].vic.fpn) /\ mram_free' = mram_free
  <2>1. Busy(p) /\ job[p].pc \in {"enter", "reuse_enter"} /\ mram_free' = mram_free
    BY <1>2 DEF enter, reuse_enter, At, Busy
  <2>2. ~Present(Current(p))
    BY <1>0, <2>1 DEF NeedInv, Reading
  <2>3. Unused(job[p].vic.fpn)
    BY <1>0, <2>1 DEF VictimInv, HoldsFrame
  <2>4. /\ Current(p) \in Page /\ Current(p)[1] = p
        /\ Current(p)[2] < reserved[p] \/ Current(p)[2] = NPages
    BY <1>a, <2>1
  <2>5. Enters(Current(p), job[p].vic.fpn)
    BY <1>2 DEF enter, reuse_enter, Enters
  <2> QED
    BY <2>1, <2>2, <2>3, <2>4, <2>5 DEF Entering, Unused, Free
<1>3. ASSUME map_page(p)
      PROVE  /\ Len(job[p].frm_lst) \in 1 .. Len(job[p].pages)
             /\ Entering(p, job[p].pages[Len(job[p].frm_lst)], job[p].frm_lst[Len(job[p].frm_lst)])
             /\ Fresh(job[p].pages[Len(job[p].frm_lst)])
             /\ mram_free' = mram_free
  <2> DEFINE n == Len(job[p].frm_lst)
  <2>1. Busy(p) /\ job[p].pc = "map_page" /\ mram_free' = mram_free /\ job[p].kind = "map"
    BY <1>3 DEF map_page, At, Busy, BaseInv, KindInv
  <2>2. n \in 1 .. Len(job[p].pages)
    BY <2>1 DEF BaseInv, ListInv
  <2>3. /\ job[p].pages \in Seq(Page) /\ job[p].frm_lst \in Seq(0 .. FPN_MOD - 1)
        /\ Len(job[p].pages) \in Nat
    BY <2>1, JobParts
  <2>4. n \in 1 .. Len(job[p].frm_lst) /\ n <= Len(job[p].frm_lst)
    BY <2>2, <2>3
  <2>5. Enters(job[p].pages[n], job[p].frm_lst[n])
    BY <1>3 DEF map_page, Enters
  <2>6. job[p].pages[n] \in Page
    BY <2>2, <2>3, ElementOfSeq
  <2> HIDE DEF n
  <2>7. /\ job[p].pages[n][1] = p
        /\ job[p].pages[n][2] < reserved[p] \/ job[p].pages[n][2] = NPages
    BY <2>1, <2>2 DEF BaseInv, PagesInv
  <2>8. Unused(job[p].frm_lst[n]) /\ Fresh(job[p].pages[n])
    <3>1. Unused(job[p].frm_lst[n])
      BY <1>0, <2>4 DEF MapInv
    <3>2. Fresh(job[p].pages[n])
      BY <1>0, <2>1, <2>2, <2>4 DEF MapInv
    <3> QED
      BY <3>1, <3>2
  <2>9. Entering(p, job[p].pages[n], job[p].frm_lst[n])
    BY <2>1, <2>5, <2>6, <2>7, <2>8 DEF Entering, Unused, Fresh, Free
  <2> QED
    BY <2>1, <2>2, <2>8, <2>9 DEF n
<1> QED
    BY <1>1, <1>2, <1>3

\* What the entries are after page pg got frame f.
LEMMA Entered ==
    ASSUME BaseInv, NEW pg \in Page, NEW f \in Frames, Enters(pg, f)
    PROVE  /\ pgd'[pg].present /\ ~pgd'[pg].swapped /\ pgd'[pg].low = f
           /\ \A po \in Page : po # pg => pgd'[po] = pgd[po]
<1>1. f \in 0 .. FPN_MOD - 1 /\ pgd \in [Page -> Pte]
    BY Sizes DEF BaseInv, StateType
<1>2. pgd'[pg] = pte_set_fpn(pgd[pg], f) /\ \A po \in Page : po # pg => pgd'[po] = pgd[po]
    BY <1>1 DEF Enters
<1> QED
    BY <1>1, <1>2, Entries

\* Page v leaves frame f, which is nobody's then.
Leaving(p, v, f) ==
    /\ v \in Page /\ f \in Frames
    /\ job[p].vic.page = v /\ job[p].vic.fpn = f
    /\ Present(v) /\ pgd[v].low = f /\ ~pgd[v].swapped
    /\ ~pgd'[v].present /\ pgd'[v].swapped
    /\ \A po \in Page : po # v => pgd'[po] = pgd[po]
    /\ mram_free' = mram_free /\ lru' = lru /\ mswp_free' = mswp_free
    /\ Unused(f)'

LEMMA EvictStep ==
    ASSUME BaseInv, MemInv, NEW p \in Proc, evict(p)
    PROVE  \E v \in Page, f \in Frames : Leaving(p, v, f)
<1>1. VictimInv /\ PresentInv
    BY DEF MemInv
<1>2. job[p].pc = "evict" /\ mram_free' = mram_free /\ lru' = lru /\ mswp_free' = mswp_free
    BY DEF evict, At
<1>3. Evicting(p) /\ job[p].vic # NoNode
    BY <1>1, <1>2 DEF VictimInv, Evicting
<1>4. PICK v \in Page : v = job[p].vic.page /\ Present(v) /\ pgd[v].low = job[p].vic.fpn
    BY <1>1, <1>3, JobParts DEF VictimInv
<1>5. job[p].swpfpn \in Slots /\ pgd \in [Page -> Pte]
    BY JobParts DEF BaseInv, StateType
<1>6. pgd'[v] = pte_set_swap(pgd[v], job[p].swpfpn) /\ \A po \in Page : po # v => pgd'[po] = pgd[po]
    BY <1>4, <1>5 DEF evict
<1>7. ~pgd'[v].present /\ pgd'[v].swapped
    BY <1>5, <1>6, Entries
<1>8. /\ pgd[v].low \in Frames /\ ~pgd[v].swapped
      /\ \A i \in 1 .. Len(mram_free) : mram_free[i] # pgd[v].low
      /\ \A po \in Page : Present(po) /\ pgd[po].low = pgd[v].low => po = v
    BY <1>1, <1>4 DEF PresentInv
<1>9. PICK f \in Frames : f = job[p].vic.fpn
    BY <1>4, <1>8
<1>10. Unused(f)'
  <2>1. \A i \in 1 .. Len(mram_free') : mram_free'[i] # f
    BY <1>2, <1>4, <1>8, <1>9
  <2>2. \A po \in Page : pgd'[po].present => pgd'[po].low # f
    BY <1>4, <1>6, <1>7, <1>8, <1>9 DEF Present
  <2> QED
    BY <1>9, <2>1, <2>2 DEF Unused, Present
<1> QED
    BY <1>2, <1>4, <1>6, <1>7, <1>8, <1>9, <1>10 DEF Leaving

\* Any other step leaves the entries alone.
LEMMA OtherEntry ==
    ASSUME BaseInv, NEW p \in Proc, step(p),
           ~evict(p), ~frame(p), ~enter(p), ~reuse_enter(p), ~map_page(p)
    PROVE  pgd' = pgd
BY StepEntry

\* A frame is taken from the free list or from a victim.
LEMMA StepPresent ==
    ASSUME BaseInv, MemInv, NEW p \in Proc, step(p)
    PROVE  PresentInv'
<1>1. PresentInv
    BY DEF MemInv
<1>2. /\ \A i \in 1 .. Len(mram_free') : \E j \in 1 .. Len(mram_free) : mram_free[j] = mram_free'[i]
      /\ \A i, j \in 1 .. Len(mram_free') : mram_free'[i] = mram_free'[j] => i = j
  <2>1. /\ \A f : Free(f)' => Free(f)
        /\ \A i, j \in 1 .. Len(mram_free') : mram_free'[i] = mram_free'[j] => i = j
    BY <1>1, FreeStep
  <2> QED
    BY <2>1 DEF Free
<1>3. ASSUME NEW pg \in Page, pgd'[pg] = pgd[pg], Present(pg)
      PROVE  /\ pgd'[pg].low \in Frames /\ ~pgd'[pg].swapped
             /\ \A i \in 1 .. Len(mram_free') : mram_free'[i] # pgd'[pg].low
    BY <1>1, <1>2, <1>3 DEF PresentInv
<1>4. ASSUME \A pg \in Page : pgd'[pg].present =>
                /\ pgd'[pg].low \in Frames /\ ~pgd'[pg].swapped
                /\ \A i \in 1 .. Len(mram_free') : mram_free'[i] # pgd'[pg].low
                /\ \A po \in Page : pgd'[po].present /\ pgd'[po].low = pgd'[pg].low => po = pg
      PROVE  PresentInv'
    BY <1>2, <1>4 DEF PresentInv, Present
<1>5. ASSUME NEW pg, NEW f, Entering(p, pg, f) PROVE PresentInv'
  <2>1. pg \in Page /\ f \in Frames /\ Enters(pg, f)
    BY <1>5 DEF Entering
  <2>2. /\ pgd'[pg].present /\ ~pgd'[pg].swapped /\ pgd'[pg].low = f
        /\ \A po \in Page : po # pg => pgd'[po] = pgd[po]
    BY <2>1, Entered
  <2>3. /\ \A i \in 1 .. Len(mram_free') : mram_free'[i] # f
        /\ \A po \in Page : Present(po) => pgd[po].low # f
    BY <1>5 DEF Entering
  <2>4. \A x \in Page : pgd'[x].present =>
                /\ pgd'[x].low \in Frames /\ ~pgd'[x].swapped
                /\ \A i \in 1 .. Len(mram_free') : mram_free'[i] # pgd'[x].low
    BY <1>3, <2>1, <2>2, <2>3 DEF Present
  <2>5. \A x, y \in Page : pgd'[x].present /\ pgd'[y].present /\ pgd'[y].low = pgd'[x].low => y = x
    BY <1>1, <2>2, <2>3 DEF PresentInv, Present
  <2> QED
    BY <1>4, <2>4, <2>5
<1>6. CASE frame(p)
    BY <1>5, <1>6, EnterStep
<1>7. CASE enter(p) \/ reuse_enter(p)
    BY <1>5, <1>7, EnterStep
<1>8. CASE map_page(p)
    BY <1>5, <1>8, EnterStep
<1>9. CASE evict(p)
  <2>1. PICK v \in Page, f \in Frames : Leaving(p, v, f)
    BY <1>9, EvictStep
  <2>2. ~pgd'[v].present /\ \A po \in Page : po # v => pgd'[po] = pgd[po]
    BY <2>1 DEF Leaving
  <2>3. \A x \in Page : pgd'[x].present =>
                /\ pgd'[x].low \in Frames /\ ~pgd'[x].swapped
                /\ \A i \in 1 .. Len(mram_free') : mram_free'[i] # pgd'[x].low
    BY <1>3, <2>2 DEF Present
  <2>4. \A x, y \in Page : pgd'[x].present /\ pgd'[y].present /\ pgd'[y].low = pgd'[x].low => y = x
    BY <1>1, <2>2 DEF PresentInv, Present
  <2> QED
    BY <1>4, <2>3, <2>4
<1>10. CASE ~evict(p) /\ ~frame(p) /\ ~enter(p) /\ ~reuse_enter(p) /\ ~map_page(p)
  <2>1. pgd' = pgd
    BY <1>10, OtherEntry
  <2>2. \A x \in Page : pgd'[x].present =>
                /\ pgd'[x].low \in Frames /\ ~pgd'[x].swapped
                /\ \A i \in 1 .. Len(mram_free') : mram_free'[i] # pgd'[x].low
    BY <1>3, <2>1 DEF Present
  <2>3. \A x, y \in Page : pgd'[x].present /\ pgd'[y].present /\ pgd'[y].low = pgd'[x].low => y = x
    BY <1>1, <2>1 DEF PresentInv, Present
  <2> QED
    BY <1>4, <2>2, <2>3
<1> QED
    BY <1>6, <1>7, <1>8, <1>9, <1>10

\* A page that was never mapped stays so, unless it is the one that enters.
LEMMA FreshKept ==
    ASSUME BaseInv, MemInv, NEW p \in Proc, step(p), NEW pg \in Page, Fresh(pg),
           frame(p) \/ enter(p) \/ reuse_enter(p) => pg # Current(p),
           map_page(p) => pg # job[p].pages[Len(job[p].frm_lst)]
    PROVE  Fresh(pg)'
<1>1. SUFFICES pgd'[pg] = pgd[pg]
    BY DEF Fresh, Present
<1>2. ASSUME NEW po, NEW f, Entering(p, po, f), po # pg PROVE pgd'[pg] = pgd[pg]
  <2>1. po \in Page /\ f \in Frames /\ Enters(po, f)
    BY <1>2 DEF Entering
  <2> QED
    BY <1>2, <2>1, Entered
<1>3. CASE frame(p)
    BY <1>2, <1>3, EnterStep
<1>4. CASE enter(p) \/ reuse_enter(p)
    BY <1>2, <1>4, EnterStep
<1>5. CASE map_page(p)
    BY <1>2, <1>5, EnterStep
<1>6. CASE evict(p)
  <2>1. PICK v \in Page, f \in Frames : Leaving(p, v, f)
    BY <1>6, EvictStep
  <2> QED
    BY <2>1 DEF Leaving, Fresh
<1>7. CASE ~evict(p) /\ ~frame(p) /\ ~enter(p) /\ ~reuse_enter(p) /\ ~map_page(p)
    BY <1>7, OtherEntry
<1> QED
    BY <1>3, <1>4, <1>5, <1>6, <1>7

LEMMA StepFresh ==
    ASSUME BaseInv, MemInv, NEW p \in Proc, step(p)
    PROVE  FreshInv'
<1>1. reserved' = reserved /\ reserved \in [Proc -> 0 .. NPages] /\ NPages \in Nat
    BY StepReserved, Sizes DEF BaseInv, StateType
<1>2. SUFFICES ASSUME NEW q \in Proc, NEW n \in 0 .. NPages - 1, n >= reserved[q]
               PROVE  Fresh(<<q, n>>)'
    BY <1>1 DEF FreshInv
<1>3. <<q, n>> \in Page
    BY <1>1 DEF Page
<1>4. Fresh(<<q, n>>)
    BY <1>2 DEF MemInv, FreshInv
<1>5. ASSUME NEW po, NEW f, Entering(p, po, f) PROVE <<q, n>> # po
  <2> SUFFICES ASSUME po = <<q, n>> PROVE FALSE
    OBVIOUS
  <2>1. p = q /\ (n < reserved[q] \/ n = NPages)
    BY <1>5 DEF Entering
  <2> QED
    BY <1>1, <1>2, <2>1
<1>6. frame(p) \/ enter(p) \/ reuse_enter(p) => <<q, n>> # Current(p)
    BY <1>5, EnterStep
<1>7. map_page(p) => <<q, n>> # job[p].pages[Len(job[p].frm_lst)]
    BY <1>5, EnterStep
<1> QED
    BY <1>3, <1>4, <1>6, <1>7, FreshKept

\* A frame that is nobody's stays so, unless a page enters it.
LEMMA UnusedKept ==
    ASSUME BaseInv, MemInv, NEW p \in Proc, step(p), NEW x, Unused(x),
           enter(p) \/ reuse_enter(p) => x # job[p].vic.fpn,
           map_page(p) => x # job[p].frm_lst[Len(job[p].frm_lst)]
    PROVE  Unused(x)'
<1>1. PresentInv
    BY DEF MemInv
<1>2. x \in Frames /\ ~Free(x) /\ \A pg \in Page : Present(pg) => pgd[pg].low # x
    BY DEF Unused, Free
<1>3. ~Free(x)'
    BY <1>1, <1>2, FreeStep
<1>4. SUFFICES \A pg \in Page : pgd'[pg].present => pgd'[pg].low # x
    BY <1>2, <1>3 DEF Unused, Free, Present
<1>5. ASSUME NEW po, NEW f, Entering(p, po, f), f # x
      PROVE  \A pg \in Page : pgd'[pg].present => pgd'[pg].low # x
  <2>1. po \in Page /\ f \in Frames /\ Enters(po, f)
    BY <1>5 DEF Entering
  <2> QED
    BY <1>2, <1>5, <2>1, Entered DEF Present
<1>6. CASE frame(p)
    BY <1>2, <1>5, <1>6, EnterStep
<1>7. CASE enter(p) \/ reuse_enter(p)
    BY <1>5, <1>7, EnterStep
<1>8. CASE map_page(p)
    BY <1>5, <1>8, EnterStep
<1>9. CASE evict(p)
  <2>1. PICK v \in Page, f \in Frames : Leaving(p, v, f)
    BY <1>9, EvictStep
  <2> QED
    BY <1>2, <2>1 DEF Leaving, Present
<1>10. CASE ~evict(p) /\ ~frame(p) /\ ~enter(p) /\ ~reuse_enter(p) /\ ~map_page(p)
    BY <1>2, <1>10, OtherEntry DEF Present
<1> QED
    BY <1>6, <1>7, <1>8, <1>9, <1>10

\* Steps outside the critical parts leave entries and free lists alone.
LEMMA OutsideStep ==
    ASSUME BaseInv, NEW p \in Proc, step(p), ~Critical(p)
    PROVE  /\ getpage(p) \/ touch(p) \/ update(p) \/ map_lock(p)
           /\ pgd' = pgd /\ mram_free' = mram_free /\ mswp_free' = mswp_free /\ reserved' = reserved
<1>1. job[p].pc \notin {"found", "victim", "slot", "evict", "enter", "reuse_enter", "reuse_put",
                        "map_frame", "map_page", "frame", "reuse", "reuse_update"}
    BY QuietFacts
<1>2. getpage(p) \/ touch(p) \/ update(p) \/ map_lock(p)
    BY <1>1 DEF step, victim, slot, slot_none_getpage, slot_none_reuse, slot_none_map, evict,
       frame, frame_none, enter, found, map_frame, map_frame_none, map_page, reuse, reuse_enter,
       reuse_put, reuse_update, At
<1> QED
    BY <1>2 DEF getpage, touch, update, map_lock

\* MapInv for one process.
MapAt(p) ==
    /\ \A i \in 1 .. Len(job[p].frm_lst) :
          /\ Unused(job[p].frm_lst[i])
          /\ \A j \in 1 .. Len(job[p].frm_lst) : job[p].frm_lst[i] = job[p].frm_lst[j] => i = j
    /\ Busy(p) /\ job[p].kind = "map" =>
          \A i \in 1 .. Len(job[p].pages) :
             job[p].pc # "map_page" \/ i <= Len(job[p].frm_lst) => Fresh(job[p].pages[i])

\* The part of it for the pages, of a CPU that is not in the step.
LEMMA OtherFresh ==
    ASSUME BaseInv, MemInv, NEW p \in Proc, step(p), NEW q \in Proc, q # p,
           Busy(q), NEW i \in 1 .. Len(job[q].pages), Fresh(job[q].pages[i])
    PROVE  \A pg : pg = job[q].pages[i] => Fresh(pg)'
<1> TAKE pg
<1> HAVE pg = job[q].pages[i]
<1>1. job[q].pages \in Seq(Page)
    BY JobParts
<1>2. pg \in Page /\ pg[1] = q
    BY <1>1, ElementOfSeq DEF BaseInv, PagesInv
<1>3. ASSUME NEW po, NEW f, Entering(p, po, f) PROVE pg # po
    BY <1>2, <1>3 DEF Entering
<1>4. frame(p) \/ enter(p) \/ reuse_enter(p) => pg # Current(p)
    BY <1>3, EnterStep
<1>5. map_page(p) => pg # job[p].pages[Len(job[p].frm_lst)]
    BY <1>3, EnterStep
<1> QED
    BY <1>2, <1>4, <1>5, FreshKept

LEMMA OtherMap ==
    ASSUME BaseInv, ClassInv, MemInv, NEW p \in Proc, step(p), NEW q \in Proc, q # p
    PROVE  MapAt(q)'
<1>1. job'[q] = job[q]
    BY StepJob
<1>2. MapAt(q)
    BY DEF MemInv, MapInv, MapAt
<1>3. CASE Critical(p)
  <2>1. ~Critical(q)
    BY <1>3, OthersQuiet
  <2>2. job[q].frm_lst = << >> /\ job[q].pc # "map_page"
    BY <2>1, QuietFacts
  <2>3. \A i \in 1 .. Len(job'[q].frm_lst) : FALSE
    BY <1>1, <2>2
  <2>4. ASSUME Busy(q), job[q].kind = "map", NEW i \in 1 .. Len(job[q].pages)
        PROVE  \A pg : pg = job[q].pages[i] => Fresh(pg)'
    <3>1. Fresh(job[q].pages[i])
      BY <1>2, <2>2, <2>4 DEF MapAt
    <3> QED
      BY <2>4, <3>1, OtherFresh
  <2> QED
    BY <1>1, <2>3, <2>4 DEF MapAt, Busy
<1>4. CASE ~Critical(p)
  <2>1. pgd' = pgd /\ mram_free' = mram_free
    BY <1>4, OutsideStep
  <2> QED
    BY <1>1, <1>2, <2>1 DEF MapAt, Busy, Unused, Fresh, Present
<1> QED
    BY <1>3, <1>4

LEMMA OwnMap ==
    ASSUME BaseInv, MemInv, NEW p \in Proc, step(p)
    PROVE  MapAt(p)'
<1>1. Busy(p) /\ (GoesOn(p) \/ Ends(p))
    BY StepJob
<1>2. MapAt(p) /\ PresentInv
    BY DEF MemInv, MapInv, MapAt
<1>3. /\ job[p].pages \in Seq(Page) /\ job[p].frm_lst \in Seq(0 .. FPN_MOD - 1)
      /\ Len(job[p].pages) \in Nat /\ Len(job[p].frm_lst) \in Nat
    BY <1>1, JobParts
<1>4. CASE Ends(p)
    BY <1>4 DEF Ends, MapAt, Busy
<1>5. CASE GoesOn(p) /\ job[p].kind # "map"
  <2>1. job'[p].frm_lst = << >> /\ job'[p].kind # "map"
    BY <1>5, StepOther DEF GoesOn
  <2> QED
    BY <2>1 DEF MapAt
<1>6. CASE GoesOn(p) /\ job[p].kind = "map"
  <2> DEFINE s == job[p].frm_lst
             n == Len(s)
  <2>1. CASE /\ victim(p) \/ slot(p) \/ slot_none_map(p) \/ map_lock(p) \/ map_frame_none(p)
             /\ job'[p].frm_lst = job[p].frm_lst /\ job'[p].pages = job[p].pages
             /\ job'[p].pc \in {"slot", "evict", "map_frame", "victim"}
    <3>1. pgd' = pgd /\ mram_free' = mram_free /\ job[p].pc # "map_page"
      BY <2>1 DEF victim, slot, slot_none_map, map_lock, map_frame_none, At
    <3>2. Busy(p)' /\ job'[p].kind = "map"
      BY <1>6 DEF GoesOn, Busy
    <3> QED
      BY <1>1, <1>2, <1>6, <2>1, <3>1, <3>2 DEF MapAt, Unused, Fresh, Present
  <2>2. CASE /\ evict(p) \/ map_frame(p)
             /\ \E f \in 0 .. FPN_MOD - 1 :
                   /\ evict(p) => f = job[p].vic.fpn
                   /\ map_frame(p) => f = Head(mram_free)
                   /\ job'[p].frm_lst = Append(s, f)
             /\ job'[p].pages = job[p].pages
             /\ job'[p].pc = AllocNext(p)
    <3>1. PICK f \in 0 .. FPN_MOD - 1 :
                   /\ evict(p) => f = job[p].vic.fpn
                   /\ map_frame(p) => f = Head(mram_free)
                   /\ job'[p].frm_lst = Append(s, f)
      BY <2>2
    <3>2. ~enter(p) /\ ~reuse_enter(p) /\ ~map_page(p) /\ ~frame(p) /\ job[p].pc # "map_page"
      BY <2>2 DEF evict, map_frame, enter, reuse_enter, map_page, frame, At
    <3>3. \A i \in 1 .. n : Unused(s[i]) /\ \A j \in 1 .. n : s[i] = s[j] => i = j
      BY <1>2 DEF MapAt
    <3>4. \A x : Unused(x) => Unused(x)'
      BY <3>2, UnusedKept
    <3>5. Unused(f)' /\ ~Unused(f)
      <4>1. CASE evict(p)
        <5>1. PICK v \in Page, g \in Frames : Leaving(p, v, g)
          BY <4>1, EvictStep
        <5>2. g = f
          BY <3>1, <4>1, <5>1 DEF Leaving
        <5> QED
          BY <5>1, <5>2 DEF Leaving, Unused
      <4>2. CASE map_frame(p)
        <5>1. mram_free' = Tail(mram_free) /\ mram_free # << >> /\ mram_free \in Seq(Frames)
          BY <4>2 DEF map_frame, BaseInv, StateType
        <5>2. Len(Tail(mram_free)) = Len(mram_free) - 1 /\ Len(mram_free) \in Nat
          BY <5>1, TailFacts
        <5>a. Tail(mram_free) # mram_free
          BY <5>2
        <5>3. mram_free' # mram_free
          BY <5>1, <5>a
        <5>4. f = Head(mram_free)
          BY <3>1, <4>2
        <5>5. Free(f) /\ ~Free(f)' /\ f \in Frames
          BY <1>2, <5>3, <5>4, FreeStep
        <5>6. \A pg \in Page : pgd[pg].present => pgd[pg].low # f
          BY <1>2, <5>5 DEF PresentInv, Free, Present
        <5>7. pgd' = pgd
          BY <4>2 DEF map_frame
        <5> QED
          BY <5>5, <5>6, <5>7 DEF Unused, Free, Present
      <4> QED
        BY <2>2, <4>1, <4>2
    <3>6. /\ Len(job'[p].frm_lst) = n + 1 /\ n \in Nat
          /\ \A i \in 1 .. n + 1 : job'[p].frm_lst[i] = IF i <= n THEN s[i] ELSE f
      BY <1>3, <3>1
    <3>7. \A i \in 1 .. n + 1 : i \in 1 .. n \/ i = n + 1
      BY <3>6
    <3> HIDE DEF s, n
    <3>8. \A i \in 1 .. n + 1 : \A x : x = job'[p].frm_lst[i] => Unused(x)'
      BY <3>3, <3>4, <3>5, <3>6, <3>7
    <3>9. \A i, j \in 1 .. n + 1 : job'[p].frm_lst[i] = job'[p].frm_lst[j] => i = j
      <4>1. \A i \in 1 .. n : i <= n /\ job'[p].frm_lst[i] = s[i] /\ s[i] # f
        BY <3>3, <3>5, <3>6
      <4>2. job'[p].frm_lst[n + 1] = f
        BY <3>6
      <4> QED
        BY <3>3, <3>7, <4>1, <4>2
    <3>10. ASSUME NEW i \in 1 .. Len(job[p].pages)
           PROVE  \A pg : pg = job[p].pages[i] => Fresh(pg)'
      <4>1. Fresh(job[p].pages[i]) /\ job[p].pages[i] \in Page
        BY <1>1, <1>2, <1>3, <1>6, <3>2, ElementOfSeq DEF MapAt
      <4> QED
        BY <3>2, <4>1, FreshKept
    <3> QED
      BY <2>2, <3>6, <3>8, <3>9, <3>10 DEF MapAt
  <2>3. CASE /\ map_page(p) /\ n # 1
             /\ job'[p].frm_lst = SubSeq(s, 1, n - 1)
             /\ job'[p].pages = job[p].pages /\ job'[p].pc = "map_page"
    <3>1. n \in 1 .. Len(job[p].pages) /\ job[p].pc = "map_page"
      BY <2>3 DEF map_page, At, BaseInv, ListInv
    <3>2. s # << >> /\ n \in Nat /\ n \in 1 .. n
      BY <1>3, <3>1
    <3>3. Len(SubSeq(s, 1, n - 1)) = n - 1 /\ \A i \in 1 .. n - 1 : SubSeq(s, 1, n - 1)[i] = s[i]
      BY <1>3, <3>2, ButLast
    <3>4. \A i \in 1 .. n - 1 : i \in 1 .. n /\ i # n /\ i <= n
      BY <3>2
    <3>5. \A i \in 1 .. n : Unused(s[i]) /\ \A j \in 1 .. n : s[i] = s[j] => i = j
      BY <1>2 DEF MapAt
    <3>6. ~enter(p) /\ ~reuse_enter(p) /\ ~frame(p)
      BY <3>1 DEF enter, reuse_enter, frame, At
    <3>7. ASSUME NEW i \in 1 .. n - 1 PROVE \A x : x = s[i] => Unused(x)'
      <4>1. s[i] # s[n] /\ Unused(s[i])
        BY <3>2, <3>4, <3>5
      <4> QED
        BY <3>6, <4>1, UnusedKept
    <3>8. ASSUME NEW i \in 1 .. Len(job[p].pages), i <= n - 1
          PROVE  \A pg : pg = job[p].pages[i] => Fresh(pg)'
      <4>1. i <= n /\ i # n
        BY <1>3, <3>2, <3>8
      <4>2. Fresh(job[p].pages[i]) /\ job[p].pages[i] \in Page
        BY <1>1, <1>2, <1>3, <1>6, <4>1, ElementOfSeq DEF MapAt
      <4>3. job[p].pages[i] # job[p].pages[n]
        BY <1>1, <3>1, <4>1 DEF BaseInv, PagesInv
      <4> QED
        BY <3>6, <4>2, <4>3, FreshKept
    <3> HIDE DEF s, n
    <3>9. /\ Len(job'[p].frm_lst) = n - 1 /\ job'[p].pages = job[p].pages
          /\ \A i \in 1 .. n - 1 : job'[p].frm_lst[i] = s[i]
      BY <2>3, <3>3
    <3>10. \A i \in 1 .. n - 1 : \A x : x = job'[p].frm_lst[i] => Unused(x)'
      BY <3>7, <3>9
    <3>11. \A i, j \in 1 .. n - 1 : job'[p].frm_lst[i] = job'[p].frm_lst[j] => i = j
      BY <3>4, <3>5, <3>9
    <3>12. job'[p].pc = "map_page"
      BY <2>3
    <3> QED
      BY <3>8, <3>9, <3>10, <3>11, <3>12 DEF MapAt
  <2>4. ~Ends(p)
    BY <1>6 DEF GoesOn, Ends
  <2> QED
    BY <1>6, <2>1, <2>2, <2>3, <2>4, StepMap
<1> QED
    BY <1>1, <1>4, <1>5, <1>6

LEMMA StepMapInv ==
    ASSUME BaseInv, ClassInv, MemInv, NEW p \in Proc, step(p)
    PROVE  MapInv'
<1>1. \A q \in Proc : MapAt(q)'
    BY OtherMap, OwnMap
<1> QED
    BY <1>1 DEF MapInv, MapAt

-----------------------------------------------------------------------------
(* The LRU list and the page table *)

OnList(l, pg) == \E i \in 1 .. Len(l) : l[i].page = pg

\* List l goes with page table g.
LruOf(l, g) ==
    /\ \A i \in 1 .. Len(l) : g[l[i].page].present /\ g[l[i].page].low = l[i].fpn
    /\ \A i, j \in 1 .. Len(l) : l[i].page = l[j].page => i = j

\* The entries of the pages on the list are the same in another table.
LEMMA SameLru ==
    ASSUME NEW l \in Seq(Node), NEW g, NEW h, LruOf(l, g),
           \A pg \in Page : OnList(l, pg) => h[pg] = g[pg]
    PROVE  LruOf(l, h)
<1>a. \A i \in 1 .. Len(l) : l[i] \in Node
    BY ElementOfSeq
<1>b. \A nd \in Node : nd.page \in Page
    BY DEF Node
<1>1. \A i \in 1 .. Len(l) : l[i].page \in Page /\ OnList(l, l[i].page)
    BY <1>a, <1>b DEF OnList
<1>2. \A i \in 1 .. Len(l) : h[l[i].page] = g[l[i].page]
    BY <1>1
<1> QED
    BY <1>2 DEF LruOf

LEMMA MoveLru ==
    ASSUME NEW l \in Seq(Node), NEW i \in 1 .. Len(l), NEW g, LruOf(l, g)
    PROVE  /\ LruOf(MoveToTail(l, i), g)
           /\ \A pg : OnList(MoveToTail(l, i), pg) <=> OnList(l, pg)
<1> DEFINE m == MoveToTail(l, i)
           n == Len(l)
<1>1. m \in Seq(Node) /\ Len(m) = n /\ \A k \in 1 .. n : m[k] = l[Before(i, n, k)]
    BY MoveFacts
<1>2. n \in Nat
    OBVIOUS
<1>3. /\ \A k \in 1 .. n : Before(i, n, k) \in 1 .. n
      /\ \A k, j \in 1 .. n : Before(i, n, k) = Before(i, n, j) => k = j
      /\ \A j \in 1 .. n : \E k \in 1 .. n : Before(i, n, k) = j
    BY <1>2, BeforeFacts
<1> HIDE DEF m
<1>a. /\ \A j \in 1 .. n : g[l[j].page].present /\ g[l[j].page].low = l[j].fpn
      /\ \A j, k \in 1 .. n : l[j].page = l[k].page => j = k
    BY DEF LruOf
<1>4. LruOf(m, g)
  <2> HIDE DEF n
  <2>1. ASSUME NEW k \in 1 .. n PROVE g[m[k].page].present /\ g[m[k].page].low = m[k].fpn
    <3>1. PICK j \in 1 .. n : m[k] = l[j]
      BY ZenonT(30), <1>1, <1>3
    <3> QED
      BY <1>a, <3>1
  <2>2. \A k, j \in 1 .. n : m[k].page = m[j].page => k = j
    <3>1. TAKE k, j \in 1 .. n
    <3>2. HAVE m[k].page = m[j].page
    <3>a. l[Before(i, n, k)].page = l[Before(i, n, j)].page
      BY <1>1, <3>2
    <3>b. Before(i, n, k) \in 1 .. n /\ Before(i, n, j) \in 1 .. n
      BY <1>3
    <3>3. Before(i, n, k) = Before(i, n, j)
      BY <1>a, <3>a, <3>b
    <3> QED
      BY <1>3, <3>3
  <2> QED
    BY <1>1, <2>1, <2>2 DEF LruOf
<1>5. \A pg : OnList(m, pg) <=> OnList(l, pg)
  <2>1. TAKE pg
  <2>2. ASSUME OnList(m, pg) PROVE OnList(l, pg)
    BY <1>1, <1>3, <2>2 DEF OnList
  <2>3. ASSUME OnList(l, pg) PROVE OnList(m, pg)
    <3>1. PICK j \in 1 .. n : l[j].page = pg
      BY <2>3 DEF OnList
    <3>2. PICK k \in 1 .. n : Before(i, n, k) = j
      BY <1>3, <3>1
    <3>3. m[k].page = pg
      BY <1>1, <3>1, <3>2
    <3> QED
      BY <1>1, <3>3 DEF OnList
  <2> QED
    BY <2>2, <2>3
<1> QED
    BY <1>4, <1>5 DEF m

LEMMA TailLru ==
    ASSUME NEW l \in Seq(Node), l # << >>, NEW g, LruOf(l, g)
    PROVE  /\ LruOf(Tail(l), g) /\ Head(l) \in Node /\ Head(l).page \in Page
           /\ g[Head(l).page].present /\ g[Head(l).page].low = Head(l).fpn
           /\ ~OnList(Tail(l), Head(l).page)
           /\ \A pg : OnList(l, pg) <=> OnList(Tail(l), pg) \/ pg = Head(l).page
<1> DEFINE t == Tail(l)
<1>1. /\ t \in Seq(Node) /\ Len(t) = Len(l) - 1 /\ Len(l) \in Nat \ {0}
      /\ Head(l) = l[1] /\ Head(l) \in Node
      /\ \A i \in 1 .. Len(t) : t[i] = l[i + 1] /\ i + 1 \in 1 .. Len(l)
      /\ \A j \in 1 .. Len(l) : j = 1 \/ \E i \in 1 .. Len(t) : i + 1 = j /\ t[i] = l[j]
    BY TailFacts
<1>2. 1 \in 1 .. Len(l) /\ \A i, j \in 1 .. Len(t) : i + 1 = j + 1 => i = j
    BY <1>1
<1>3. \A i \in 1 .. Len(t) : i + 1 # 1
    BY <1>1
<1> HIDE DEF t
<1>4. LruOf(t, g)
    BY <1>1, <1>2 DEF LruOf
<1>5. ~OnList(t, l[1].page)
    BY <1>1, <1>2, <1>3 DEF OnList, LruOf
<1>6. \A pg : OnList(l, pg) <=> OnList(t, pg) \/ pg = l[1].page
    BY <1>1, <1>2 DEF OnList
<1>7. Head(l).page \in Page
    BY <1>1 DEF Node
<1>8. g[l[1].page].present /\ g[l[1].page].low = l[1].fpn
    BY <1>2 DEF LruOf
<1> QED
    BY <1>1, <1>4, <1>5, <1>6, <1>7, <1>8 DEF t

\* Present pages have frames of their own.
OwnFrames(g) ==
    \A x, y \in Page : g[x].present /\ g[y].present /\ g[x].low = g[y].low => x = y

LEMMA AddLru ==
    ASSUME NEW l \in Seq(Node), NEW g, LruOf(l, g), OwnFrames(g),
           NEW pg \in Page, NEW fpn \in 0 .. FPN_MOD - 1, g[pg].present, g[pg].low = fpn
    PROVE  /\ LruOf(add_LRU_page(l, pg, fpn), g)
           /\ \A x : OnList(add_LRU_page(l, pg, fpn), x) <=> OnList(l, x) \/ x = pg
<1> DEFINE a == add_LRU_page(l, pg, fpn)
           nd == [page |-> pg, fpn |-> fpn]
<1>1. CASE /\ a = Append(l, nd) /\ nd \in Node
           /\ \A i \in 1 .. Len(l) : l[i].fpn # fpn
  <2>1. /\ Len(a) = Len(l) + 1 /\ Len(l) \in Nat
        /\ \A i \in 1 .. Len(l) : a[i] = l[i] /\ i \in 1 .. Len(l) + 1
        /\ a[Len(l) + 1] = nd
    BY <1>1
  <2>2. \A i \in 1 .. Len(l) + 1 : i \in 1 .. Len(l) \/ i = Len(l) + 1
    BY <2>1
  <2>3. Len(l) + 1 \in 1 .. Len(l) + 1
    BY <2>1
  <2>4. nd.page = pg /\ nd.fpn = fpn
    OBVIOUS
  <2>5. \A i \in 1 .. Len(l) : l[i].page # pg
    BY <1>1 DEF LruOf
  <2> HIDE DEF a, nd
  <2>6. LruOf(a, g)
    <3>1. \A i \in 1 .. Len(l) + 1 : g[a[i].page].present /\ g[a[i].page].low = a[i].fpn
      BY <2>1, <2>2, <2>4 DEF LruOf
    <3>2. \A i, j \in 1 .. Len(l) + 1 : a[i].page = a[j].page => i = j
      BY <2>1, <2>2, <2>4, <2>5 DEF LruOf
    <3> QED
      BY <2>1, <3>1, <3>2 DEF LruOf
  <2>7. \A x : OnList(a, x) <=> OnList(l, x) \/ x = pg
    BY <2>1, <2>2, <2>3, <2>4 DEF OnList
  <2> QED
    BY <2>6, <2>7 DEF a
<1>2. ASSUME NEW i \in 1 .. Len(l), l[i].fpn = fpn, a = MoveToTail(l, i)
      PROVE  LruOf(a, g) /\ \A x : OnList(a, x) <=> OnList(l, x) \/ x = pg
  <2>1. LruOf(a, g) /\ \A x : OnList(a, x) <=> OnList(l, x)
    BY <1>2, MoveLru
  <2>a. l[i] \in Node
    BY ElementOfSeq
  <2>2. l[i].page \in Page
    BY <2>a DEF Node
  <2>3. l[i].page = pg
    BY <1>2, <2>2 DEF LruOf, OwnFrames
  <2>4. OnList(l, pg)
    BY <2>3 DEF OnList
  <2> HIDE DEF a
  <2> QED
    BY <2>1, <2>4
<1> QED
    BY SMTT(30), <1>1, <1>2, AddFacts

\* Frames of present pages in the table after a step.
LEMMA OwnFramesNext ==
    ASSUME PresentInv'
    PROVE  OwnFrames(pgd')
BY DEF PresentInv, OwnFrames, Present

\* What a step leaves on the list, and that the list goes with the new table.
LEMMA StepLruInv ==
    ASSUME BaseInv, MemInv, NEW p \in Proc, step(p)
    PROVE  /\ LruInv'
           /\ \A x : OnList(lru', x) <=>
                 \/ OnList(lru, x) /\ ~(victim(p) /\ x = Head(lru).page)
                 \/ (found(p) \/ reuse_enter(p)) /\ x = Current(p)
                 \/ map_page(p) /\ x = job[p].pages[Len(job[p].frm_lst)]
<1>1. lru \in Seq(Node) /\ LruOf(lru, pgd) /\ PresentInv
    BY DEF BaseInv, StateType, MemInv, LruInv, LruOf, Present
<1>2. OwnFrames(pgd') /\ OwnFrames(pgd)
  <2>1. PresentInv'
    BY StepPresent
  <2> QED
    BY <1>1, <2>1, OwnFramesNext DEF PresentInv, OwnFrames, Present
<1>3. \A x \in Page : OnList(lru, x) => pgd[x].present
    BY <1>1 DEF OnList, LruOf
<1>4. LruOf(lru, pgd')
  <2>1. ASSUME NEW pg, NEW f, Entering(p, pg, f)
        PROVE  \A x \in Page : OnList(lru, x) => pgd'[x] = pgd[x]
    <3>1. pg \in Page /\ f \in Frames /\ Enters(pg, f) /\ ~Present(pg)
      BY <2>1 DEF Entering
    <3> QED
      BY <1>3, <3>1, Entered DEF Present
  <2>2. \A x \in Page : OnList(lru, x) => pgd'[x] = pgd[x]
    <3>1. CASE frame(p)
      BY <2>1, <3>1, EnterStep
    <3>2. CASE enter(p) \/ reuse_enter(p)
      BY <2>1, <3>2, EnterStep
    <3>3. CASE map_page(p)
      BY <2>1, <3>3, EnterStep
    <3>4. CASE evict(p)
      <4>1. PICK v \in Page, f \in Frames : Leaving(p, v, f)
        BY <3>4, EvictStep
      <4>2. Evicting(p) /\ VictimInv
        BY <3>4 DEF evict, At, Evicting, MemInv, VictimInv
      <4>3. ~OnList(lru, v)
        BY <4>1, <4>2 DEF Leaving, VictimInv, OnList
      <4> QED
        BY <4>1, <4>3 DEF Leaving
    <3>5. CASE ~evict(p) /\ ~frame(p) /\ ~enter(p) /\ ~reuse_enter(p) /\ ~map_page(p)
      BY <3>5, OtherEntry
    <3> QED
      BY <3>1, <3>2, <3>3, <3>4, <3>5
  <2> QED
    BY <1>1, <2>2, SameLru
<1> DEFINE On(x) == \/ OnList(lru, x) /\ ~(victim(p) /\ x = Head(lru).page)
                    \/ (found(p) \/ reuse_enter(p)) /\ x = Current(p)
                    \/ map_page(p) /\ x = job[p].pages[Len(job[p].frm_lst)]
           Goal == LruOf(lru', pgd') /\ \A x : OnList(lru', x) <=> On(x)
<1>5. SUFFICES Goal
    BY DEF LruInv, LruOf, Present
<1>6. Busy(p)
    BY StepJob
<1>7. ASSUME NEW pg \in Page, NEW f \in 0 .. FPN_MOD - 1, pgd'[pg].present, pgd'[pg].low = f,
             lru' = add_LRU_page(lru, pg, f)
      PROVE  LruOf(lru', pgd') /\ \A x : OnList(lru', x) <=> OnList(lru, x) \/ x = pg
    BY <1>1, <1>2, <1>4, <1>7, AddLru
<1>8. CASE victim(p)
  <2>1. ~found(p) /\ ~reuse_enter(p) /\ ~map_page(p)
    BY <1>8 DEF victim, found, reuse_enter, map_page, At
  <2>2. CASE lru = << >>
    <3>1. lru' = lru /\ \A x : ~OnList(lru, x)
      BY <1>8, <2>2 DEF victim, OnList
    <3> QED
      BY <1>4, <2>1, <3>1
  <2>3. CASE lru # << >>
    <3>1. lru' = Tail(lru)
      BY <1>8, <2>3 DEF victim
    <3>2. /\ LruOf(Tail(lru), pgd') /\ ~OnList(Tail(lru), Head(lru).page)
          /\ \A x : OnList(lru, x) <=> OnList(Tail(lru), x) \/ x = Head(lru).page
      BY <1>1, <1>4, <2>3, TailLru
    <3> QED
      BY <1>8, <2>1, <3>1, <3>2
  <2> QED
    BY <2>2, <2>3
<1>9. CASE found(p)
  <2>1. ~victim(p) /\ ~reuse_enter(p) /\ ~map_page(p) /\ job[p].pc = "found"
    BY <1>9 DEF victim, found, reuse_enter, map_page, At
  <2>2. pgd' = pgd /\ lru' = add_LRU_page(lru, Current(p), pgd[Current(p)].low)
    BY <1>9 DEF found, PAGING_PTE_FPN
  <2>3. Current(p) \in Page /\ pgd[Current(p)].low \in 0 .. FPN_MOD - 1
    BY <1>6, JobParts
  <2>4. pgd[Current(p)].present
    BY <2>1 DEF MemInv, NeedInv, Present
  <2>5. LruOf(lru', pgd') /\ \A x : OnList(lru', x) <=> OnList(lru, x) \/ x = Current(p)
    BY <1>7, <2>2, <2>3, <2>4
  <2> QED
    BY <1>9, <2>1, <2>5
<1>10. CASE reuse_enter(p)
  <2>1. ~victim(p) /\ ~found(p) /\ ~map_page(p)
    BY <1>10 DEF victim, found, reuse_enter, map_page, At
  <2>2. lru' = add_LRU_page(lru, Current(p), job[p].vic.fpn)
    BY <1>10 DEF reuse_enter
  <2>3. /\ Current(p) \in Page /\ job[p].vic.fpn \in Frames
        /\ Enters(Current(p), job[p].vic.fpn)
    BY <1>10, EnterStep DEF Entering
  <2>4. pgd'[Current(p)].present /\ pgd'[Current(p)].low = job[p].vic.fpn
    BY <2>3, Entered
  <2>5. LruOf(lru', pgd') /\ \A x : OnList(lru', x) <=> OnList(lru, x) \/ x = Current(p)
    BY <1>7, <2>2, <2>3, <2>4, Sizes
  <2> QED
    BY <1>10, <2>1, <2>5
<1>11. CASE map_page(p)
  <2> DEFINE pg == job[p].pages[Len(job[p].frm_lst)]
             f == job[p].frm_lst[Len(job[p].frm_lst)]
  <2>1. ~victim(p) /\ ~found(p) /\ ~reuse_enter(p)
    BY <1>11 DEF victim, found, reuse_enter, map_page, At
  <2>2. lru' = add_LRU_page(lru, pg, f)
    BY <1>11 DEF map_page
  <2>3. pg \in Page /\ f \in Frames /\ Enters(pg, f)
    BY <1>11, EnterStep DEF Entering
  <2> HIDE DEF pg, f
  <2>4. pgd'[pg].present /\ pgd'[pg].low = f
    BY <2>3, Entered
  <2>5. LruOf(lru', pgd') /\ \A x : OnList(lru', x) <=> OnList(lru, x) \/ x = pg
    BY <1>7, <2>2, <2>3, <2>4, Sizes
  <2> QED
    BY <1>11, <2>1, <2>5 DEF pg
<1>12. CASE ~victim(p) /\ ~found(p) /\ ~reuse_enter(p) /\ ~map_page(p)
  <2>1. lru' = lru \/ \E i \in 1 .. Len(lru) : lru' = MoveToTail(lru, i)
    BY <1>12, StepLru
  <2>2. LruOf(lru', pgd') /\ \A x : OnList(lru', x) <=> OnList(lru, x)
    BY <1>1, <1>4, <2>1, MoveLru
  <2> QED
    BY <1>12, <2>2
<1> QED
    BY <1>8, <1>9, <1>10, <1>11, <1>12

\* NeedInv for one process.
NeedAt(p) ==
    /\ Reading(p) /\ job[p].pc # "reuse_put" => ~Present(Current(p))
    /\ job[p].pc = "found" => Present(Current(p))

LEMMA StepNeed ==
    ASSUME BaseInv, ClassInv, MemInv, NEW p \in Proc, step(p)
    PROVE  NeedInv'
<1>1. /\ \A q \in Proc : q # p => job'[q] = job[q]
      /\ Busy(p) /\ (GoesOn(p) \/ Ends(p))
    BY StepJob
<1>2. \A q \in Proc : NeedAt(q)
    BY DEF MemInv, NeedInv, NeedAt
<1>3. ASSUME NEW q \in Proc, q # p PROVE NeedAt(q)'
  <2>1. job'[q] = job[q]
    BY <1>1, <1>3
  <2>2. CASE Critical(p)
    <3>1. ~Reading(q) /\ job[q].pc # "found"
      BY <1>3, <2>2, OthersQuiet, QuietFacts
    <3> QED
      BY <2>1, <3>1 DEF NeedAt, Reading
  <2>3. CASE ~Critical(p)
    <3>1. pgd' = pgd
      BY <2>3, OutsideStep
    <3> QED
      BY <1>2, <2>1, <3>1 DEF NeedAt, Reading, Present, Current
  <2> QED
    BY <2>2, <2>3
<1>4. NeedAt(p)'
  <2>0. Label(p) /\ Locals(p) /\ KindInv
    BY StepLabel, StepLocals DEF BaseInv
  <2>a. ASSUME job'[p].pages = job[p].pages PROVE Current(p)' = Current(p)
    BY <2>a DEF Current
  <2>1. CASE getpage(p)
    <3>1. pgd' = pgd /\ job'[p].pages = job[p].pages
          /\ job'[p].pc = IF Present(Current(p)) THEN "found" ELSE "frame"
      BY <2>0, <2>1 DEF Label, Locals, getpage
    <3> QED
      BY <2>a, <3>1 DEF NeedAt, Reading, Present
  <2>2. CASE frame(p)
    <3>1. job'[p].pages = job[p].pages /\ job'[p].pc = "found"
      BY <2>0, <2>2 DEF Label, Locals
    <3>2. Current(p) \in Page /\ Head(mram_free) \in Frames /\ Enters(Current(p), Head(mram_free))
      BY <2>2, EnterStep DEF Entering
    <3>3. pgd'[Current(p)].present
      BY <3>2, Entered
    <3> QED
      BY <2>a, <3>1, <3>3 DEF NeedAt, Reading, Present
  <2>3. CASE enter(p)
    <3>1. job'[p].pages = job[p].pages /\ job'[p].pc = "found"
      BY <2>0, <2>3 DEF Label, Locals
    <3>2. Current(p) \in Page /\ job[p].vic.fpn \in Frames /\ Enters(Current(p), job[p].vic.fpn)
      BY <2>3, EnterStep DEF Entering
    <3>3. pgd'[Current(p)].present
      BY <3>2, Entered
    <3> QED
      BY <2>a, <3>1, <3>3 DEF NeedAt, Reading, Present
  <2>4. CASE (victim(p) \/ slot(p) \/ frame_none(p)) /\ job[p].kind # "map"
    <3>1. job'[p].pages = job[p].pages /\ job'[p].pc \in {"slot", "evict", "victim"} /\ pgd' = pgd
      BY <2>0, <2>4 DEF Label, Locals, victim, slot, frame_none
    <3>2. Reading(p) /\ job[p].pc # "reuse_put"
      BY <2>4 DEF Reading, victim, slot, frame_none, At
    <3>3. ~Present(Current(p))
      BY <1>2, <3>2 DEF NeedAt
    <3> QED
      BY <2>a, <3>1, <3>3 DEF NeedAt, Present
  <2>5. CASE (victim(p) \/ slot(p) \/ map_frame_none(p) \/ slot_none_map(p)) /\ job[p].kind = "map"
    <3>1. job'[p].pc \in {"slot", "evict", "victim"}
      BY <2>0, <2>5 DEF Label
    <3>2. job'[p].kind = "map"
      BY <1>1, <2>5, <3>1 DEF GoesOn, Ends
    <3> QED
      BY <3>1, <3>2 DEF NeedAt, Reading
  <2>6. CASE evict(p) /\ job[p].kind # "map"
    <3>1. job'[p].pages = job[p].pages /\ job'[p].pc # "found"
      BY <2>0, <2>6 DEF Label, Locals
    <3>2. Reading(p) /\ job[p].pc # "reuse_put"
      BY <2>6 DEF Reading, evict, At
    <3>3. ~Present(Current(p)) /\ Current(p) \in Page
      BY <1>1, <1>2, <3>2, JobParts DEF NeedAt
    <3>4. PICK v \in Page, f \in Frames : Leaving(p, v, f)
      BY <2>6, EvictStep
    <3>5. ~pgd'[Current(p)].present
      BY <3>3, <3>4 DEF Leaving, Present
    <3> QED
      BY <2>a, <3>1, <3>5 DEF NeedAt, Present
  <2>7. CASE evict(p) /\ job[p].kind = "map"
    BY <2>0, <2>7 DEF Label, NeedAt, Reading, AllocNext
  <2>8. CASE reuse(p)
    <3>1. /\ job'[p].pages = job[p].pages /\ pgd' = pgd
          /\ job'[p].pc = IF Present(Current(p)) THEN "reuse_update" ELSE "victim"
      BY <2>0, <2>8 DEF Label, Locals, reuse
    <3> QED
      BY <2>a, <3>1 DEF NeedAt, Reading, Present
  <2>9. CASE \/ slot_none_getpage(p) \/ slot_none_reuse(p) \/ found(p) \/ touch(p) \/ update(p)
             \/ map_lock(p) \/ map_frame(p) \/ map_page(p)
             \/ reuse_enter(p) \/ reuse_put(p) \/ reuse_update(p)
    BY <2>0, <2>9 DEF Label, NeedAt, Reading, AfterAccess, AllocNext
  <2>10. /\ slot_none_map(p) \/ map_frame_none(p) => job[p].kind = "map"
         /\ frame_none(p) => job[p].kind # "map"
    BY <2>0 DEF slot_none_map, map_frame_none, frame_none, KindInv, At
  <2> QED
    BY <2>1, <2>2, <2>3, <2>4, <2>5, <2>6, <2>7, <2>8, <2>9, <2>10 DEF step
<1> QED
    BY <1>3, <1>4 DEF NeedInv, NeedAt

\* VictimInv for one process.
VictimAt(p) ==
    /\ job[p].pc \in {"evict", "enter", "reuse_enter"} => job[p].vic # NoNode
    /\ Evicting(p) =>
          /\ job[p].vic.page \in Page
          /\ Present(job[p].vic.page) /\ pgd[job[p].vic.page].low = job[p].vic.fpn
          /\ ~OnList(lru, job[p].vic.page)
    /\ HoldsFrame(p) => Unused(job[p].vic.fpn)
    /\ job[p].pc \in {"victim", "slot", "evict"} /\ job[p].kind # "reuse" => mram_free = << >>

LEMMA StepVictim ==
    ASSUME BaseInv, ClassInv, MemInv, NEW p \in Proc, step(p), ~crashed'
    PROVE  VictimInv'
<1>1. /\ \A q \in Proc : q # p => job'[q] = job[q]
      /\ Busy(p) /\ (GoesOn(p) \/ Ends(p))
    BY StepJob
<1>2. \A q \in Proc : VictimAt(q)
    BY DEF MemInv, VictimInv, VictimAt, OnList
<1>3. ASSUME NEW q \in Proc, q # p PROVE VictimAt(q)'
  <2>1. job'[q] = job[q]
    BY <1>1, <1>3
  <2>2. CASE Critical(p)
    <3>1. job[q].pc \notin {"victim", "slot", "evict", "enter", "reuse_enter"}
      BY <1>3, <2>2, OthersQuiet, QuietFacts
    <3> QED
      BY <2>1, <3>1 DEF VictimAt, Evicting, HoldsFrame
  <2>3. CASE ~Critical(p)
    <3>1. /\ pgd' = pgd /\ mram_free' = mram_free
          /\ getpage(p) \/ touch(p) \/ update(p) \/ map_lock(p)
      BY <2>3, OutsideStep
    <3>2. ~victim(p) /\ ~found(p) /\ ~reuse_enter(p) /\ ~map_page(p)
      BY <3>1 DEF getpage, touch, update, map_lock, victim, found, reuse_enter, map_page, At
    <3>3. \A x : OnList(lru', x) <=> OnList(lru, x)
      BY <3>2, StepLruInv
    <3> QED
      BY <1>2, <2>1, <3>1, <3>3 DEF VictimAt, Evicting, HoldsFrame, Unused, Present
  <2> QED
    BY <2>2, <2>3
<1>4. VictimAt(p)'
  <2>0. Label(p) /\ Locals(p) /\ KindInv /\ VictimAt(p)
    BY <1>2, StepLabel, StepLocals DEF BaseInv
  <2>1. CASE victim(p)
    <3>1. /\ job'[p].pc = "slot" /\ job'[p].vic = IF lru = << >> THEN NoNode ELSE Head(lru)
          /\ pgd' = pgd /\ mram_free' = mram_free /\ job[p].pc = "victim"
          /\ lru' = IF lru = << >> THEN lru ELSE Tail(lru)
      BY <2>0, <2>1 DEF Label, Locals, victim, At
    <3>2. job'[p].kind = job[p].kind
      BY <1>1, <3>1 DEF GoesOn, Ends
    <3>3. job'[p].kind # "reuse" => mram_free' = << >>
      BY <2>0, <3>1, <3>2 DEF VictimAt
    <3>4. CASE lru = << >>
      BY <3>1, <3>3, <3>4 DEF VictimAt, Evicting, HoldsFrame
    <3>5. CASE lru # << >>
      <4>1. lru \in Seq(Node) /\ LruOf(lru, pgd)
        BY DEF BaseInv, StateType, MemInv, LruInv, LruOf, Present
      <4>2. /\ Head(lru).page \in Page
            /\ pgd[Head(lru).page].present /\ pgd[Head(lru).page].low = Head(lru).fpn
            /\ ~OnList(Tail(lru), Head(lru).page)
        BY <3>5, <4>1, TailLru
      <4>3. job'[p].vic = Head(lru) /\ lru' = Tail(lru)
        BY <3>1, <3>5
      <4> QED
        BY <3>1, <3>3, <4>2, <4>3 DEF VictimAt, HoldsFrame, Present
    <3> QED
      BY <3>4, <3>5
  <2>2. CASE slot(p)
    <3>1. /\ job'[p].pc = "evict" /\ job'[p].vic = job[p].vic /\ job[p].vic # NoNode
          /\ pgd' = pgd /\ mram_free' = mram_free /\ lru' = lru /\ job[p].pc = "slot"
      BY <2>0, <2>2 DEF Label, Locals, slot, At
    <3>2. job'[p].kind = job[p].kind
      BY <1>1, <3>1 DEF GoesOn, Ends
    <3>3. Evicting(p)
      BY <3>1 DEF Evicting
    <3> QED
      BY <2>0, <3>1, <3>2, <3>3 DEF VictimAt, HoldsFrame, Present
  <2>3. CASE evict(p) /\ job[p].kind # "map"
    <3>1. job'[p].pc \in {"enter", "reuse_enter"} /\ job'[p].vic = job[p].vic
      BY <2>0, <2>3 DEF Label, Locals
    <3>2. PICK v \in Page, f \in Frames : Leaving(p, v, f)
      BY <2>3, EvictStep
    <3>3. f = job[p].vic.fpn /\ Unused(f)'
      BY <3>2 DEF Leaving
    <3>4. f = job'[p].vic.fpn
      BY <3>1, <3>3
    <3>5. Unused(job[p].vic.fpn)'
      BY <3>3, <3>4
    <3>6. job[p].vic # NoNode
      BY <2>0, <2>3 DEF VictimAt, evict, At
    <3> QED
      BY <3>1, <3>5, <3>6 DEF VictimAt, Evicting
  <2>4. CASE evict(p) /\ job[p].kind = "map"
    BY <2>0, <2>4 DEF Label, VictimAt, Evicting, HoldsFrame, AllocNext
  <2>5. CASE frame_none(p) \/ map_frame_none(p)
    <3>1. job'[p].pc = "victim" /\ mram_free' = << >>
      BY <2>0, <2>5 DEF Label, frame_none, map_frame_none
    <3> QED
      BY <3>1 DEF VictimAt, Evicting, HoldsFrame
  <2>6. CASE reuse(p)
    <3>1. job'[p].pc \in {"reuse_update", "victim"} /\ job[p].kind = "reuse"
      BY <2>0, <2>6 DEF Label, reuse, At, KindInv
    <3>2. job'[p].kind = "reuse"
      BY <1>1, <3>1 DEF GoesOn, Ends
    <3> QED
      BY <3>1, <3>2 DEF VictimAt, Evicting, HoldsFrame
  <2>7. ~slot_none_map(p)
    BY DEF slot_none_map
  <2>8. CASE \/ slot_none_getpage(p) \/ slot_none_reuse(p) \/ getpage(p) \/ frame(p) \/ enter(p)
             \/ found(p) \/ touch(p) \/ update(p) \/ map_lock(p) \/ map_frame(p) \/ map_page(p)
             \/ reuse_enter(p) \/ reuse_put(p) \/ reuse_update(p)
    BY <2>0, <2>8 DEF Label, VictimAt, Evicting, HoldsFrame, AfterAccess, AllocNext
  <2> QED
    BY <2>1, <2>2, <2>3, <2>4, <2>5, <2>6, <2>7, <2>8 DEF step
<1>5. \A q \in Proc : VictimAt(q)'
    BY <1>3, <1>4
<1> QED
    BY <1>5 DEF VictimInv, VictimAt, OnList

\* Frame f is in the hands of the CPU that runs p.
InHand(p, f) ==
    \/ HoldsFrame(p) /\ job[p].vic.fpn = f
    \/ \E i \in 1 .. Len(job[p].frm_lst) : job[p].frm_lst[i] = f

LEMMA StepOwned ==
    ASSUME BaseInv, ClassInv, MemInv, NEW p \in Proc, step(p)
    PROVE  OwnedInv'
<1>1. /\ \A q \in Proc : q # p => job'[q] = job[q]
      /\ Busy(p) /\ (GoesOn(p) \/ Ends(p))
    BY StepJob
<1>2. PresentInv /\ OwnedInv
    BY DEF MemInv
<1>3. SUFFICES ASSUME NEW f \in Frames
               PROVE  \/ Free(f)' \/ (\E pg \in Page : pgd'[pg].present /\ pgd'[pg].low = f)
                      \/ \E q \in Proc : InHand(q, f)'
    BY DEF OwnedInv, Free, InHand, Present
<1> DEFINE Goal == \/ Free(f)' \/ (\E pg \in Page : pgd'[pg].present /\ pgd'[pg].low = f)
                   \/ \E q \in Proc : InHand(q, f)'
<1>4. \/ Free(f) \/ (\E pg \in Page : Present(pg) /\ pgd[pg].low = f)
      \/ \E q \in Proc : InHand(q, f)
    BY <1>2 DEF OwnedInv, Free, InHand
<1>5. ASSUME NEW q \in Proc, q # p, InHand(q, f) PROVE Goal
  <2>1. InHand(q, f)'
    BY <1>1, <1>5 DEF InHand, HoldsFrame
  <2> QED
    BY <2>1
<1>6. ASSUME NEW pg, Entering(p, pg, f) PROVE Goal
  <2>1. pg \in Page /\ f \in Frames /\ Enters(pg, f)
    BY <1>6 DEF Entering
  <2>2. pgd'[pg].present /\ pgd'[pg].low = f
    BY <2>1, Entered
  <2> QED
    BY <2>1, <2>2
<1>7. ASSUME Free(f) PROVE Goal
  <2>1. CASE Free(f)'
    BY <2>1
  <2>2. CASE ~Free(f)'
    <3>1. mram_free' # mram_free
      BY <1>7, <2>2 DEF Free
    <3>2. (frame(p) \/ map_frame(p)) /\ f = Head(mram_free)
      BY <1>2, <1>7, <2>2, <3>1, FreeStep
    <3>3. CASE frame(p)
      BY <1>6, <3>2, <3>3, EnterStep
    <3>4. CASE map_frame(p)
      <4>1. job[p].frm_lst \in Seq(0 .. FPN_MOD - 1) /\ job \in [Proc -> Jobs] /\ job[p] \in Jobs
        BY JobParts DEF BaseInv, JobType
      <4>2. job'[p].frm_lst = Append(job[p].frm_lst, f)
        BY <3>2, <3>4, <4>1 DEF map_frame, Jobs
      <4>3. Len(job'[p].frm_lst) \in 1 .. Len(job'[p].frm_lst) /\ job'[p].frm_lst[Len(job'[p].frm_lst)] = f
        BY <4>1, <4>2
      <4>4. InHand(p, f)'
        BY <4>3 DEF InHand
      <4> QED
        BY <4>4
    <3> QED
      BY <3>2, <3>3, <3>4
  <2> QED
    BY <2>1, <2>2
<1>8. ASSUME NEW pg \in Page, Present(pg), pgd[pg].low = f PROVE Goal
  <2>1. ASSUME NEW po, NEW g, Entering(p, po, g) PROVE Goal
    <3>1. po \in Page /\ g \in Frames /\ Enters(po, g) /\ ~Present(po)
      BY <2>1 DEF Entering
    <3>2. pgd'[pg] = pgd[pg]
      BY <1>8, <3>1, Entered
    <3> QED
      BY <1>8, <3>2 DEF Present
  <2>2. CASE frame(p)
    BY <2>1, <2>2, EnterStep
  <2>3. CASE enter(p) \/ reuse_enter(p)
    BY <2>1, <2>3, EnterStep
  <2>4. CASE map_page(p)
    BY <2>1, <2>4, EnterStep
  <2>5. CASE evict(p)
    <3>1. PICK v \in Page, g \in Frames : Leaving(p, v, g)
      BY <2>5, EvictStep
    <3>2. CASE v # pg
      BY <1>8, <3>1, <3>2 DEF Leaving, Present
    <3>3. CASE v = pg
      <4>1. f = job[p].vic.fpn
        BY <1>8, <3>1, <3>3 DEF Leaving
      <4>2. CASE job[p].kind # "map"
        <5>1. job'[p].pc \in {"enter", "reuse_enter"} /\ job'[p].vic = job[p].vic
          BY <2>5, <4>2, StepLabel, StepLocals DEF Label, Locals
        <5>2. InHand(p, f)'
          BY <4>1, <5>1 DEF InHand, HoldsFrame
        <5> QED
          BY <5>2
      <4>3. CASE job[p].kind = "map"
        <5>1. job[p].frm_lst \in Seq(0 .. FPN_MOD - 1) /\ job \in [Proc -> Jobs] /\ job[p] \in Jobs
          BY JobParts DEF BaseInv, JobType
        <5>2. job'[p].frm_lst = Append(job[p].frm_lst, f)
          BY <2>5, <4>1, <4>3, <5>1 DEF evict, Jobs
        <5>3. Len(job'[p].frm_lst) \in 1 .. Len(job'[p].frm_lst) /\ job'[p].frm_lst[Len(job'[p].frm_lst)] = f
          BY <5>1, <5>2
        <5>4. InHand(p, f)'
          BY <5>3 DEF InHand
        <5> QED
          BY <5>4
      <4> QED
        BY <4>2, <4>3
    <3> QED
      BY <3>2, <3>3
  <2>6. CASE ~evict(p) /\ ~frame(p) /\ ~enter(p) /\ ~reuse_enter(p) /\ ~map_page(p)
    BY <1>8, <2>6, OtherEntry DEF Present
  <2> QED
    BY <2>2, <2>3, <2>4, <2>5, <2>6
<1>9. ASSUME InHand(p, f) PROVE Goal
  <2>1. CASE HoldsFrame(p) /\ job[p].vic.fpn = f
    <3>1. enter(p) \/ reuse_enter(p)
      BY <2>1 DEF HoldsFrame, step, victim, slot, slot_none_getpage, slot_none_reuse, slot_none_map, evict,
         getpage, frame, frame_none, found, touch, update, map_lock, map_frame,
         map_frame_none, map_page, reuse, reuse_put, reuse_update, At
    <3> QED
      BY <1>6, <2>1, <3>1, EnterStep
  <2>2. ASSUME NEW i \in 1 .. Len(job[p].frm_lst), job[p].frm_lst[i] = f PROVE Goal
    <3> DEFINE s == job[p].frm_lst
               n == Len(s)
    <3>0. s \in Seq(0 .. FPN_MOD - 1) /\ n \in Nat /\ s # << >>
      BY <2>2, JobParts
    <3>1. job[p].kind = "map"
      BY <3>0 DEF BaseInv, ListInv
    <3>2. CASE job'[p].frm_lst = s
      <4>1. InHand(p, f)'
        BY <2>2, <3>2 DEF InHand
      <4> QED
        BY <4>1
    <3>3. CASE \E g \in 0 .. FPN_MOD - 1 : job'[p].frm_lst = Append(s, g)
      <4>1. PICK g \in 0 .. FPN_MOD - 1 : job'[p].frm_lst = Append(s, g)
        BY <3>3
      <4>2. i \in 1 .. Len(Append(s, g)) /\ Append(s, g)[i] = s[i]
        BY <2>2, <3>0
      <4>3. InHand(p, f)'
        BY <2>2, <4>1, <4>2 DEF InHand
      <4> QED
        BY <4>3
    <3>4. CASE map_page(p) /\ i = n
      <4>1. Entering(p, job[p].pages[n], s[n])
        BY <3>4, EnterStep
      <4> QED
        BY <1>6, <2>2, <3>4, <4>1
    <3>5. CASE /\ map_page(p) /\ i # n
               /\ n # 1 => job'[p].frm_lst = SubSeq(s, 1, n - 1)
      <4>1. Len(SubSeq(s, 1, n - 1)) = n - 1 /\ \A k \in 1 .. n - 1 : SubSeq(s, 1, n - 1)[k] = s[k]
        BY <3>0, ButLast
      <4>a. i \in 1 .. n /\ i # n
        BY <2>2, <3>5
      <4>b. \A a, b \in Nat : a \in 1 .. b /\ a # b => a \in 1 .. b - 1 /\ b # 1
        OBVIOUS
      <4>2. i \in 1 .. n - 1 /\ n # 1
        <5>1. n \in Nat
          BY <3>0
        <5> HIDE DEF s, n
        <5>2. i \in Nat
          BY <4>a, <5>1
        <5> QED
          BY <4>a, <4>b, <5>1, <5>2
      <4>3. InHand(p, f)'
        BY <2>2, <3>5, <4>1, <4>2 DEF InHand
      <4> QED
        BY <4>3
    <3> QED
      BY <3>1, <3>2, <3>3, <3>4, <3>5, StepMap
  <2> QED
    BY <1>9, <2>1, <2>2 DEF InHand
<1> QED
    BY <1>4, <1>5, <1>7, <1>8, <1>9

-----------------------------------------------------------------------------
(* Nothing gets lost *)

LEMMA StepCover ==
    ASSUME BaseInv, ClassInv, MemInv, NEW p \in Proc, step(p), ~crashed'
    PROVE  CoverInv'
<1>1. /\ \A q \in Proc : q # p => job'[q] = job[q]
      /\ Busy(p) /\ (GoesOn(p) \/ Ends(p))
    BY StepJob
<1>2. SUFFICES ASSUME mswp_free' # << >> \/ SlotOut', NEW pg \in Page, pgd'[pg].present
               PROVE  Known(pg)'
    BY DEF CoverInv, Present
<1>0. Label(p) /\ Locals(p)
    BY StepLabel, StepLocals
<1>3. ~slot_none_getpage(p) /\ ~slot_none_reuse(p)
  <2> SUFFICES ASSUME slot_none_getpage(p) \/ slot_none_reuse(p) PROVE FALSE
    OBVIOUS
  <2>1. mswp_free' = << >> /\ Critical(p)
    BY DEF slot_none_getpage, slot_none_reuse, At, Critical, Busy
  <2>2. job'[p].pc \notin {"evict", "enter", "reuse_enter", "reuse_put"}
    BY <1>0 DEF Label, AfterAccess
  <2>3. \A q \in Proc : q # p => job'[q].pc \notin {"evict", "enter", "reuse_enter", "reuse_put"}
    BY <1>1, <2>1, OthersQuiet, QuietFacts
  <2> QED
    BY <1>2, <2>1, <2>2, <2>3 DEF SlotOut
<1>4. ~slot_none_map(p)
    BY DEF slot_none_map
<1>5. mswp_free # << >> \/ SlotOut
  <2>1. CASE slot(p)
    BY <2>1 DEF slot
  <2>2. CASE enter(p) \/ evict(p) \/ reuse_enter(p) \/ reuse_put(p)
    BY <2>2 DEF enter, evict, reuse_enter, reuse_put, At, SlotOut
  <2>3. CASE ~slot(p) /\ ~enter(p) /\ ~evict(p) /\ ~reuse_enter(p) /\ ~reuse_put(p)
    <3>1. mswp_free' = mswp_free
      BY <2>3, StepFree
    <3>2. job'[p].pc \notin {"evict", "enter", "reuse_enter", "reuse_put"}
      BY <1>0, <1>3, <1>4, <2>3 DEF Label, AfterAccess, AllocNext, step
    <3>3. SlotOut' => SlotOut
      BY <1>1, <3>2 DEF SlotOut
    <3> QED
      BY <1>2, <3>1, <3>3
  <2> QED
    BY <2>1, <2>2, <2>3
<1>6. \A x \in Page : Present(x) => Known(x)
    BY <1>5 DEF MemInv, CoverInv
<1>7. Known(pg) <=> \/ OnList(lru, pg)
                    \/ \E q \in Proc : Evicting(q) /\ job[q].vic.page = pg
                    \/ \E q \in Proc : job[q].pc = "found" /\ Current(q) = pg
    BY DEF Known, OnList
<1>8. ASSUME OnList(lru', pg) PROVE Known(pg)'
    BY <1>8 DEF Known, OnList
<1>9. ASSUME NEW q \in Proc, job'[q].pc \in {"slot", "evict"}, job'[q].vic # NoNode, job'[q].vic.page = pg
      PROVE  Known(pg)'
    BY <1>9 DEF Known, Evicting
<1>10. ASSUME NEW q \in Proc, job'[q].pc = "found", Head(job'[q].pages) = pg
       PROVE  Known(pg)'
    BY <1>10 DEF Known, Current
<1>11. ASSUME OnList(lru, pg) PROVE Known(pg)'
  <2>1. CASE ~(victim(p) /\ pg = Head(lru).page)
    <3>1. OnList(lru', pg)
      BY <1>11, <2>1, StepLruInv
    <3> QED
      BY <1>8, <3>1
  <2>2. CASE victim(p) /\ pg = Head(lru).page
    <3>1. lru # << >> /\ lru \in Seq(Node) /\ LruOf(lru, pgd)
      <4>1. lru # << >>
        BY <1>11 DEF OnList
      <4>2. lru \in Seq(Node) /\ LruInv
        BY DEF BaseInv, StateType, MemInv
      <4> QED
        BY <4>1, <4>2 DEF LruInv, LruOf, Present
    <3>2. job'[p].pc = "slot" /\ job'[p].vic = Head(lru)
      BY <1>0, <2>2, <3>1 DEF Label, Locals
    <3>3. Head(lru).page \in Page
      BY <3>1, TailLru
    <3>4. Head(lru) # NoNode
      <4>1. NoPage \notin Page
        BY DEF NoPage, Page
      <4> QED
        BY <3>3, <4>1 DEF NoNode
    <3> QED
      BY <1>9, <2>2, <3>2, <3>4
  <2> QED
    BY <2>1, <2>2
<1>12. ASSUME NEW q \in Proc, Evicting(q), job[q].vic.page = pg, Present(pg) PROVE Known(pg)'
  <2>1. CASE q # p
    <3>1. job'[q] = job[q]
      BY <1>1, <2>1
    <3> QED
      BY <1>9, <1>12, <3>1 DEF Evicting
  <2>2. CASE q = p
    <3>1. slot(p) \/ evict(p)
      BY <1>3, <1>4, <1>12, <2>2 DEF Evicting, step, victim,
         getpage, frame, frame_none, enter, found, touch, update, map_lock, map_frame,
         map_frame_none, map_page, reuse, reuse_enter, reuse_put, reuse_update, At
    <3>2. CASE slot(p)
      <4>1. job'[p].pc = "evict" /\ job'[p].vic = job[p].vic
        BY <1>0, <3>2 DEF Label, Locals
      <4> QED
        BY <1>9, <1>12, <2>2, <4>1 DEF Evicting
    <3>3. CASE evict(p)
      <4>1. PICK v \in Page, f \in Frames : Leaving(p, v, f)
        BY <3>3, EvictStep
      <4> QED
        BY <1>2, <1>12, <2>2, <4>1 DEF Leaving
    <3> QED
      BY <3>1, <3>2, <3>3
  <2> QED
    BY <2>1, <2>2
<1>13. ASSUME NEW q \in Proc, job[q].pc = "found", Current(q) = pg PROVE Known(pg)'
  <2>1. CASE q # p
    <3>1. job'[q] = job[q]
      BY <1>1, <2>1
    <3> QED
      BY <1>10, <1>13, <3>1 DEF Current
  <2>2. CASE q = p
    <3>1. found(p)
      BY <1>13, <2>2 DEF step, victim, slot, slot_none_getpage, slot_none_reuse, slot_none_map, evict,
         getpage, frame, frame_none, enter, touch, update, map_lock, map_frame,
         map_frame_none, map_page, reuse, reuse_enter, reuse_put, reuse_update, At
    <3>2. OnList(lru', pg)
      BY <1>13, <2>2, <3>1, StepLruInv
    <3> QED
      BY <1>8, <3>2
  <2> QED
    BY <2>1, <2>2
<1>14. CASE Present(pg)
    BY <1>6, <1>7, <1>11, <1>12, <1>13, <1>14
<1>15. CASE ~Present(pg)
  <2>1. pgd'[pg] # pgd[pg]
    BY <1>2, <1>15 DEF Present
  <2>2. ASSUME NEW po, NEW f, Entering(p, po, f) PROVE po = pg
    <3>1. po \in Page /\ f \in Frames /\ Enters(po, f)
      BY <2>2 DEF Entering
    <3> QED
      BY <2>1, <3>1, Entered
  <2>3. CASE frame(p) \/ enter(p)
    <3>1. Current(p) = pg
      BY <2>2, <2>3, EnterStep
    <3>2. job'[p].pc = "found" /\ job'[p].pages = job[p].pages
      BY <1>0, <2>3 DEF Label, Locals
    <3> QED
      BY <1>10, <3>1, <3>2 DEF Current
  <2>4. CASE reuse_enter(p)
    <3>1. Current(p) = pg
      BY <2>2, <2>4, EnterStep
    <3>2. OnList(lru', pg)
      BY <2>4, <3>1, StepLruInv
    <3> QED
      BY <1>8, <3>2
  <2>5. CASE map_page(p)
    <3>1. job[p].pages[Len(job[p].frm_lst)] = pg
      BY <2>2, <2>5, EnterStep
    <3>2. OnList(lru', pg)
      BY <2>5, <3>1, StepLruInv
    <3> QED
      BY <1>8, <3>2
  <2>6. CASE evict(p)
    <3>1. PICK v \in Page, f \in Frames : Leaving(p, v, f)
      BY <2>6, EvictStep
    <3> QED
      BY <1>2, <2>1, <3>1 DEF Leaving
  <2>7. CASE ~evict(p) /\ ~frame(p) /\ ~enter(p) /\ ~reuse_enter(p) /\ ~map_page(p)
    BY <2>1, <2>7, OtherEntry
  <2> QED
    BY <2>3, <2>4, <2>5, <2>6, <2>7
<1> QED
    BY <1>14, <1>15

\* The pages in swap are finitely many.
LEMMA SwappedFinite == IsFiniteSet(Swapped) /\ IsFiniteSet(Swapped')
<1>1. IsFiniteSet(0 .. NPages)
    BY FS_Interval, Sizes
<1>2. IsFiniteSet(Page)
    BY <1>1, FS_Product, FiniteAssumption DEF Page
<1>3. Swapped \subseteq Page /\ Swapped' \subseteq Page
    BY DEF Swapped
<1> QED
    BY <1>2, <1>3, FS_Subset

Out(p, labels) == IF job[p].pc \in labels THEN 1 ELSE 0

\* While p is in a critical part no one else has a slot.
LEMMA OnlyOut ==
    ASSUME BaseInv, ClassInv, NEW p \in Proc, step(p), Critical(p),
           NEW labels \in SUBSET {"evict", "reuse_enter", "reuse_put"}
    PROVE  /\ OneOut(labels) = Out(p, labels)
           /\ OneOut(labels)' = IF job'[p].pc \in labels THEN 1 ELSE 0
<1>1. \A q \in Proc : q # p => job'[q] = job[q] /\ job[q].pc \notin labels
    BY StepJob, OthersQuiet, QuietFacts
<1>2. (\E q \in Proc : job[q].pc \in labels) <=> job[p].pc \in labels
    BY <1>1
<1>3. (\E q \in Proc : job'[q].pc \in labels) <=> job'[p].pc \in labels
    BY <1>1
<1> QED
    BY <1>2, <1>3 DEF OneOut, Out

\* How many pages are in swap after a step.
LEMMA SwappedStep ==
    ASSUME BaseInv, MemInv, NEW p \in Proc, step(p)
    PROVE  /\ Cardinality(Swapped) \in Nat /\ Cardinality(Swapped') \in Nat
           /\ evict(p) => Cardinality(Swapped') = Cardinality(Swapped) + 1
           /\ frame(p) \/ enter(p) \/ reuse_enter(p) => Cardinality(Swapped') + 1 >= Cardinality(Swapped)
           /\ ~evict(p) /\ ~frame(p) /\ ~enter(p) /\ ~reuse_enter(p) => Swapped' = Swapped
<1>1. /\ IsFiniteSet(Swapped) /\ IsFiniteSet(Swapped')
      /\ Cardinality(Swapped) \in Nat /\ Cardinality(Swapped') \in Nat
    BY SwappedFinite, FS_CardinalityType
<1>2. ASSUME evict(p) PROVE Cardinality(Swapped') = Cardinality(Swapped) + 1
  <2>1. PICK v \in Page, f \in Frames : Leaving(p, v, f)
    BY <1>2, EvictStep
  <2>2. v \notin Swapped /\ Swapped' = Swapped \cup {v}
    BY <2>1 DEF Leaving, Swapped
  <2>3. Cardinality(Swapped \cup {v}) = Cardinality(Swapped) + 1
    BY <1>1, <2>2, FS_AddElement
  <2> QED
    BY <2>2, <2>3
<1>3. ASSUME NEW pg, NEW f, Entering(p, pg, f)
      PROVE  pg \in Page /\ Swapped' = Swapped \ {pg}
  <2>1. pg \in Page /\ f \in Frames /\ Enters(pg, f)
    BY <1>3 DEF Entering
  <2>2. /\ ~pgd'[pg].swapped
        /\ \A po \in Page : po # pg => pgd'[po] = pgd[po]
    BY <2>1, Entered
  <2> QED
    BY <2>1, <2>2 DEF Swapped
<1>4. ASSUME frame(p) \/ enter(p) \/ reuse_enter(p)
      PROVE  Cardinality(Swapped') + 1 >= Cardinality(Swapped)
  <2>1. PICK pg, f : Entering(p, pg, f)
    BY <1>4, EnterStep
  <2>2. Swapped' = Swapped \ {pg}
    BY <1>3, <2>1
  <2>3. Cardinality(Swapped \ {pg}) = IF pg \in Swapped THEN Cardinality(Swapped) - 1 ELSE Cardinality(Swapped)
    BY <1>1, FS_RemoveElement
  <2> QED
    BY <1>1, <2>2, <2>3
<1>5. ASSUME map_page(p) PROVE Swapped' = Swapped
  <2>1. PICK pg, f : Entering(p, pg, f) /\ Fresh(pg)
    BY <1>5, EnterStep
  <2>2. Swapped' = Swapped \ {pg} /\ pg \notin Swapped
    BY <1>3, <2>1 DEF Fresh, Swapped
  <2> QED
    BY <2>2
<1>6. ASSUME ~evict(p), ~frame(p), ~enter(p), ~reuse_enter(p) PROVE Swapped' = Swapped
  <2>1. CASE map_page(p)
    BY <1>5, <2>1
  <2>2. CASE ~map_page(p)
    BY <1>6, <2>2, OtherEntry DEF Swapped
  <2> QED
    BY <2>1, <2>2
<1> QED
    BY <1>1, <1>2, <1>4, <1>6

\* SlotInv with its numbers: l free slots, c pages in swap, a and b slots out.
LEMMA SlotSums ==
    ASSUME NEW l \in Nat, NEW c \in Nat, NEW a \in {0, 1}, NEW b \in {0, 1},
           NEW m \in Nat, NEW d \in Nat, NEW x \in {0, 1}, NEW y \in {0, 1},
           NEW free \in BOOLEAN, NEW more \in BOOLEAN, NEW n \in Nat,
           l + c + a >= n, free => l + b >= n, more => free,
           \/ m = l /\ d = c /\ x = a /\ y = b
           \/ m + 1 = l /\ d = c /\ a = 0 /\ b = 0 /\ x = 1 /\ y = 1
           \/ m = l /\ d = c + 1 /\ a = 1 /\ x = 0 /\ (~more \/ (b = 1 /\ y = 1))
           \/ m = l /\ free /\ a = 0 /\ b = 0 /\ x = 0 /\ y = 0
           \/ m = l + 1 /\ d + 1 >= c /\ a = 0 /\ b = 0 /\ x = 0 /\ y = 0
           \/ m = l /\ d + 1 >= c /\ a = 0 /\ b = 1 /\ x = 1 /\ y = 1
           \/ m = l + 1 /\ d = c /\ a = 1 /\ b = 1 /\ x = 0 /\ y = 0
    PROVE  m + d + x >= n /\ (more => m + y >= n)
OBVIOUS

LEMMA StepSlot ==
    ASSUME BaseInv, ClassInv, MemInv, NEW p \in Proc, step(p)
    PROVE  SlotInv'
<1> DEFINE one == {"evict", "reuse_put"}
           two == {"evict", "reuse_enter", "reuse_put"}
           l == Len(mswp_free)
           m == Len(mswp_free')
           c == Cardinality(Swapped)
           d == Cardinality(Swapped')
           a == OneOut(one)
           b == OneOut(two)
           u == OneOut(one)'
           v == OneOut(two)'
           free == mram_free # << >>
           more == mram_free' # << >>
           Sums == \/ m = l /\ d = c /\ u = a /\ v = b
                   \/ m + 1 = l /\ d = c /\ a = 0 /\ b = 0 /\ u = 1 /\ v = 1
                   \/ m = l /\ d = c + 1 /\ a = 1 /\ u = 0 /\ (~more \/ (b = 1 /\ v = 1))
                   \/ m = l /\ free /\ a = 0 /\ b = 0 /\ u = 0 /\ v = 0
                   \/ m = l + 1 /\ d + 1 >= c /\ a = 0 /\ b = 0 /\ u = 0 /\ v = 0
                   \/ m = l /\ d + 1 >= c /\ a = 0 /\ b = 1 /\ u = 1 /\ v = 1
                   \/ m = l + 1 /\ d = c /\ a = 1 /\ b = 1 /\ u = 0 /\ v = 0
<1>0. Label(p) /\ KindInv
    BY StepLabel DEF BaseInv
<1>1. /\ c \in Nat /\ d \in Nat
      /\ evict(p) => d = c + 1
      /\ frame(p) \/ enter(p) \/ reuse_enter(p) => d + 1 >= c
      /\ ~evict(p) /\ ~frame(p) /\ ~enter(p) /\ ~reuse_enter(p) => d = c
    BY SwappedStep
<1>2. mswp_free \in Seq(Slots) /\ mswp_free' \in Seq(Slots)
    BY StepState DEF BaseInv, StateType
<1>3. l \in Nat /\ m \in Nat
    BY <1>2
<1>4. a \in {0, 1} /\ b \in {0, 1} /\ u \in {0, 1} /\ v \in {0, 1}
    BY DEF OneOut
<1>5. l + c + a >= NSwap /\ (free => l + b >= NSwap)
    BY DEF MemInv, SlotInv
<1>6. more => free
  <2>1. CASE mram_free' = mram_free
    BY <2>1
  <2>2. CASE mram_free' # mram_free
    BY <2>2, FreeStep DEF MemInv
  <2> QED
    BY <2>1, <2>2
<1>7. ASSUME Critical(p)
      PROVE  /\ a = IF job[p].pc \in one THEN 1 ELSE 0
             /\ b = IF job[p].pc \in two THEN 1 ELSE 0
             /\ u = IF job'[p].pc \in one THEN 1 ELSE 0
             /\ v = IF job'[p].pc \in two THEN 1 ELSE 0
  <2>1. one \in SUBSET {"evict", "reuse_enter", "reuse_put"} /\ two \in SUBSET {"evict", "reuse_enter", "reuse_put"}
    OBVIOUS
  <2> QED
    BY <1>7, <2>1, OnlyOut DEF Out
<1>8. Sums
  <2> DEFINE o1 == IF job[p].pc \in one THEN 1 ELSE 0
             o2 == IF job[p].pc \in two THEN 1 ELSE 0
             n1 == IF job'[p].pc \in one THEN 1 ELSE 0
             n2 == IF job'[p].pc \in two THEN 1 ELSE 0
  <2>1. CASE ~Critical(p)
    <3>1. /\ getpage(p) \/ touch(p) \/ update(p) \/ map_lock(p)
          /\ mswp_free' = mswp_free /\ Swapped' = Swapped
      <4>1. getpage(p) \/ touch(p) \/ update(p) \/ map_lock(p)
        BY <2>1, OutsideStep
      <4>2. mswp_free' = mswp_free /\ pgd' = pgd
        BY <4>1 DEF getpage, touch, update, map_lock
      <4> QED
        BY <4>1, <4>2 DEF Swapped
    <3>2. job'[p].pc \notin two /\ job[p].pc \notin two
      BY <1>0, <3>1 DEF Label, AfterAccess, getpage, touch, update, map_lock, At
    <3>3. \A q \in Proc : q # p => job'[q] = job[q]
      BY StepJob
    <3>4. u = a /\ v = b
      BY <3>2, <3>3 DEF OneOut
    <3> QED
      BY <3>1, <3>4
  <2>2. CASE Critical(p)
    <3>0. a = o1 /\ b = o2 /\ u = n1 /\ v = n2
      BY <1>7, <2>2
    <3>1. CASE slot(p)
      <4>1. o1 = 0 /\ o2 = 0 /\ n1 = 1 /\ n2 = 1
        BY <1>0, <3>1 DEF Label, slot, At
      <4>2. mswp_free # << >> /\ mswp_free' = Tail(mswp_free)
        BY <3>1 DEF slot
      <4>3. m + 1 = l
        <5>1. m = l - 1
          BY <1>2, <4>2, TailFacts
        <5> QED
          BY <1>3, <5>1
      <4>4. d = c
        BY <1>1, <3>1 DEF slot, evict, frame, enter, reuse_enter, At
      <4> QED
        BY <3>0, <4>1, <4>3, <4>4
    <3>2. CASE evict(p)
      <4>1. o1 = 1 /\ o2 = 1 /\ mswp_free' = mswp_free /\ mram_free' = mram_free /\ job[p].pc = "evict"
        BY <3>2 DEF evict, At
      <4>2. n1 = 0
        BY <1>0, <3>2 DEF Label, AllocNext
      <4>3. ~more \/ n2 = 1
        <5>1. CASE job[p].kind = "reuse"
          BY <1>0, <3>2, <5>1 DEF Label
        <5>2. CASE job[p].kind # "reuse"
          BY <4>1, <5>2 DEF MemInv, VictimInv
        <5> QED
          BY <5>1, <5>2
      <4> QED
        BY <1>1, <3>0, <3>2, <4>1, <4>2, <4>3
    <3>3. CASE frame(p)
      <4>1. o1 = 0 /\ o2 = 0 /\ mswp_free' = mswp_free /\ mram_free # << >>
        BY <3>3 DEF frame, At
      <4>2. n1 = 0 /\ n2 = 0
        BY <1>0, <3>3 DEF Label
      <4> QED
        BY <3>0, <4>1, <4>2
    <3>a. ASSUME enter(p) \/ reuse_put(p) PROVE m = l + 1
      <4>1. mswp_free' = <<job[p].tgtfpn>> \o mswp_free
        BY <3>a DEF enter, reuse_put, MEMPHY_put_freefp
      <4>2. <<job[p].tgtfpn>> \in Seq({job[p].tgtfpn}) /\ Len(<<job[p].tgtfpn>>) = 1
        OBVIOUS
      <4>3. Len(<<job[p].tgtfpn>> \o mswp_free) = Len(<<job[p].tgtfpn>>) + Len(mswp_free)
        BY <1>2, <4>2
      <4> QED
        BY <1>3, <4>1, <4>2, <4>3
    <3>4. CASE enter(p)
      <4>1. o1 = 0 /\ o2 = 0
        BY <3>4 DEF enter, At
      <4>2. n1 = 0 /\ n2 = 0
        BY <1>0, <3>4 DEF Label
      <4> QED
        BY <1>1, <3>0, <3>a, <3>4, <4>1, <4>2
    <3>5. CASE reuse_enter(p)
      <4>1. o1 = 0 /\ o2 = 1 /\ mswp_free' = mswp_free
        BY <3>5 DEF reuse_enter, At
      <4>2. n1 = 1 /\ n2 = 1
        BY <1>0, <3>5 DEF Label
      <4> QED
        BY <1>1, <3>0, <3>5, <4>1, <4>2
    <3>6. CASE reuse_put(p)
      <4>1. o1 = 1 /\ o2 = 1
        BY <3>6 DEF reuse_put, At
      <4>2. n1 = 0 /\ n2 = 0
        BY <1>0, <3>6 DEF Label
      <4>3. d = c
        BY <1>1, <3>6 DEF reuse_put, evict, frame, enter, reuse_enter, At
      <4> QED
        BY <3>0, <3>a, <3>6, <4>1, <4>2, <4>3
    <3>7. CASE ~slot(p) /\ ~evict(p) /\ ~frame(p) /\ ~enter(p) /\ ~reuse_enter(p) /\ ~reuse_put(p)
      <4>1. mswp_free' = mswp_free
        BY <3>7, StepFree
      <4>2. job'[p].pc \notin two
        BY <1>0, <3>7 DEF Label, AfterAccess, AllocNext, step
      <4>3. job[p].pc \notin two
        BY <3>7 DEF step, victim, slot_none_getpage, slot_none_reuse, slot_none_map,
           getpage, frame_none, found, touch, update, map_lock, map_frame,
           map_frame_none, map_page, reuse, reuse_update, At
      <4>4. o1 = 0 /\ o2 = 0 /\ n1 = 0 /\ n2 = 0
        BY <4>2, <4>3
      <4> QED
        BY <1>1, <3>0, <3>7, <4>1, <4>4
    <3> QED
      BY <3>1, <3>2, <3>3, <3>4, <3>5, <3>6, <3>7
  <2> QED
    BY <2>1, <2>2
<1>9. free \in BOOLEAN /\ more \in BOOLEAN /\ NSwap \in Nat
    BY Sizes
<1>10. m + d + u >= NSwap /\ (more => m + v >= NSwap)
  <2> HIDE DEF l, m, c, d, a, b, u, v, free, more
  <2> QED
    BY <1>1, <1>3, <1>4, <1>5, <1>6, <1>8, <1>9, SlotSums
<1> QED
    BY <1>10 DEF SlotInv

-----------------------------------------------------------------------------
(* The inductive invariant *)

LEMMA StepMem ==
    ASSUME BaseInv, ClassInv, MemInv, NEW p \in Proc, step(p), ~crashed'
    PROVE  MemInv'
<1>1. PresentInv' /\ FreshInv' /\ MapInv' /\ LruInv'
    BY StepPresent, StepFresh, StepMapInv, StepLruInv
<1>2. NeedInv' /\ VictimInv' /\ OwnedInv' /\ CoverInv' /\ SlotInv'
    BY StepNeed, StepVictim, StepOwned, StepCover, StepSlot
<1> QED
    BY <1>1, <1>2 DEF MemInv

\* A CPU that has not yet used a frame, or no longer does.
Light(p) == job[p].pc \in {"idle", "done", "getpage", "reuse", "map_lock"} /\ job[p].frm_lst = << >>

\* Instructions start and slots end without a change of memory.
LEMMA LightMem ==
    ASSUME BaseInv, MemInv, FreshInv',
           UNCHANGED <<pgd, mram_free, mswp_free, lru>>,
           \A q \in Proc : job'[q] = job[q] \/ (Light(q) /\ Light(q)'),
           \A q \in Proc : job'[q] # job[q] /\ Busy(q)' /\ job'[q].kind = "map" =>
               \A i \in 1 .. Len(job'[q].pages) : ~pgd[job'[q].pages[i]].present /\ ~pgd[job'[q].pages[i]].swapped
    PROVE  MemInv'
<1>0. pgd' = pgd /\ mram_free' = mram_free /\ mswp_free' = mswp_free /\ lru' = lru
    OBVIOUS
<1>1. PresentInv'
    BY <1>0 DEF MemInv, PresentInv, Present
<1>2. \A f : Unused(f)' <=> Unused(f)
    BY <1>0 DEF Unused, Present
<1>3. ASSUME NEW q \in Proc, job'[q] # job[q]
      PROVE  Light(q) /\ job'[q].pc \in {"idle", "done", "getpage", "reuse", "map_lock"} /\ job'[q].frm_lst = << >>
    BY <1>3 DEF Light
<1>4. MapInv'
  <2>1. \A q \in Proc : MapAt(q)
    BY DEF MemInv, MapInv, MapAt
  <2>2. ASSUME NEW q \in Proc, job'[q] = job[q] PROVE MapAt(q)'
    BY <1>0, <1>2, <2>1, <2>2 DEF MapAt, Fresh, Present, Busy, Unused
  <2>3. ASSUME NEW q \in Proc, job'[q] # job[q] PROVE MapAt(q)'
    BY <1>0, <1>3, <2>3 DEF MapAt, Fresh, Present
  <2>4. \A q \in Proc : MapAt(q)'
    BY <2>2, <2>3
  <2> QED
    BY <2>4 DEF MapInv, MapAt
<1>5. NeedInv'
    BY <1>0, <1>3 DEF MemInv, NeedInv, Reading, Present, Current
<1>6. VictimInv'
  <2>1. \A q \in Proc : VictimAt(q)
    BY DEF MemInv, VictimInv, VictimAt, OnList
  <2>2. ASSUME NEW q \in Proc, job'[q] = job[q] PROVE VictimAt(q)'
    BY <1>0, <2>1, <2>2 DEF VictimAt, Evicting, HoldsFrame, Unused, Present
  <2>3. ASSUME NEW q \in Proc, job'[q] # job[q] PROVE VictimAt(q)'
    BY <1>3, <2>3 DEF VictimAt, Evicting, HoldsFrame
  <2>4. \A q \in Proc : VictimAt(q)'
    BY <2>2, <2>3
  <2> QED
    BY <2>4 DEF VictimInv, VictimAt, OnList
<1>7. LruInv'
    BY <1>0 DEF MemInv, LruInv, Present
<1>8. OwnedInv'
  <2>1. ASSUME NEW q \in Proc, NEW f, InHand(q, f) PROVE InHand(q, f)'
    <3>1. ~Light(q)
      BY <2>1 DEF InHand, Light, HoldsFrame
    <3>2. job'[q] = job[q]
      BY <1>3, <3>1
    <3> QED
      BY <2>1, <3>2 DEF InHand, HoldsFrame
  <2>2. \A f \in Frames : \/ Free(f) \/ (\E pg \in Page : Present(pg) /\ pgd[pg].low = f)
                          \/ \E q \in Proc : InHand(q, f)
    BY DEF MemInv, OwnedInv, Free, InHand
  <2>3. \A f \in Frames : \/ Free(f)' \/ (\E pg \in Page : pgd'[pg].present /\ pgd'[pg].low = f)
                          \/ \E q \in Proc : InHand(q, f)'
    BY <1>0, <2>1, <2>2 DEF Free, Present
  <2> QED
    BY <2>3 DEF OwnedInv, Free, InHand, Present
<1>9. \A q \in Proc : \/ job'[q] = job[q]
                      \/ /\ job[q].pc \in {"idle", "done", "getpage", "reuse", "map_lock"}
                         /\ job'[q].pc \in {"idle", "done", "getpage", "reuse", "map_lock"}
    BY <1>3 DEF Light
<1>10. CoverInv'
  <2>1. SlotOut' => SlotOut
    BY <1>9 DEF SlotOut
  <2>2. ASSUME NEW pg \in Page, Known(pg) PROVE Known(pg)'
    BY <1>0, <1>9, <2>2 DEF Known, Evicting, Current
  <2> QED
    BY <1>0, <2>1, <2>2 DEF MemInv, CoverInv, Present
<1>11. SlotInv'
  <2>1. ASSUME NEW labels \in SUBSET {"evict", "reuse_enter", "reuse_put"} PROVE OneOut(labels)' = OneOut(labels)
    <3>1. (\E q \in Proc : job'[q].pc \in labels) <=> (\E q \in Proc : job[q].pc \in labels)
      BY <1>9
    <3> QED
      BY <3>1 DEF OneOut
  <2>2. /\ OneOut({"evict", "reuse_put"})' = OneOut({"evict", "reuse_put"})
        /\ OneOut({"evict", "reuse_enter", "reuse_put"})' = OneOut({"evict", "reuse_enter", "reuse_put"})
    BY <2>1
  <2>3. Swapped' = Swapped
    BY <1>0 DEF Swapped
  <2> QED
    BY <1>0, <2>2, <2>3 DEF MemInv, SlotInv
<1> QED
    BY <1>1, <1>4, <1>5, <1>6, <1>7, <1>8, <1>10, <1>11 DEF MemInv

LEMMA StartMem ==
    ASSUME BaseInv, MemInv, NEW p \in Proc, start(p)
    PROVE  MemInv'
<1>1. /\ UNCHANGED <<pgd, mram_free, mswp_free, lru, MEM_in_use, ram, swp, crashed>>
      /\ \A q \in Proc : q # p => job'[q] = job[q]
      /\ job[p].pc = "idle"
      /\ job'[p].frm_lst = << >>
      /\ StartsAt(job'[p].kind, job'[p].pc)
      /\ reserved' \in [Proc -> 0 .. NPages] /\ \A q \in Proc : reserved[q] <= reserved'[q]
    BY StartJob
<1>2. job[p].frm_lst = << >>
    BY <1>1 DEF BaseInv, ListInv
<1>3. Light(p) /\ Light(p)'
    BY <1>1, <1>2 DEF Light, StartsAt
<1>4. \A q \in Proc : reserved[q] \in Nat /\ reserved'[q] \in 0 .. NPages /\ NPages \in Nat
    BY <1>1, Sizes DEF BaseInv, StateType
<1>5. FreshInv'
  <2> SUFFICES ASSUME NEW q \in Proc, NEW n \in 0 .. NPages - 1, n >= reserved'[q]
               PROVE  Fresh(<<q, n>>)'
    BY DEF FreshInv
  <2>1. n >= reserved[q]
    BY <1>1, <1>4
  <2> QED
    BY <1>1, <2>1 DEF MemInv, FreshInv, Fresh, Present
<1>6. ASSUME job'[p].kind = "map", NEW i \in 1 .. Len(job'[p].pages) PROVE Fresh(job'[p].pages[i])
  <2>1. PICK lo \in Nat, n \in 1 .. MaxPages :
          /\ About(p, job'[p].kind, lo, n)
          /\ Len(job'[p].pages) = n
          /\ \A j \in 1 .. n : job'[p].pages[j] = <<p, lo + j - 1>>
    BY StartJob
  <2>2. reserved[p] = lo /\ lo + n <= reserved'[p]
    BY <1>6, <2>1 DEF About
  <2>3. lo + i - 1 \in 0 .. NPages - 1 /\ lo + i - 1 >= reserved[p] /\ i \in 1 .. n
    BY <1>4, <1>6, <2>1, <2>2
  <2> QED
    BY <2>1, <2>3 DEF MemInv, FreshInv
<1> QED
    BY <1>1, <1>3, <1>5, <1>6, LightMem DEF Fresh, Present

LEMMA TickMem ==
    ASSUME BaseInv, MemInv, tick
    PROVE  MemInv'
<1>1. /\ \A p \in Proc : ~Busy(p) /\ job'[p] = Resting
      /\ UNCHANGED <<reserved, pgd, mram_free, mswp_free, lru>>
    BY DEF tick
<1>2. \A p \in Proc : Light(p) /\ Light(p)' /\ ~Busy(p)'
    BY <1>1, RestingJob DEF Light, Busy, BaseInv, ListInv
<1>3. FreshInv'
    BY <1>1 DEF MemInv, FreshInv, Fresh, Present
<1> QED
    BY <1>1, <1>2, <1>3, LightMem

LEMMA StutterMem ==
    ASSUME BaseInv, MemInv, UNCHANGED vars
    PROVE  MemInv'
<1>1. UNCHANGED <<job, reserved, pgd, mram_free, mswp_free, lru>>
    BY DEF vars
<1>2. FreshInv'
    BY <1>1 DEF MemInv, FreshInv, Fresh, Present
<1> QED
    BY <1>1, <1>2, LightMem

LEMMA InitMem == Init => MemInv /\ ClassInv
<1> SUFFICES ASSUME Init PROVE MemInv /\ ClassInv
    OBVIOUS
<1>1. \A p \in Proc : job[p].pc = "idle" /\ job[p].frm_lst = << >> /\ ~Busy(p)
    BY RestingJob DEF Init, Busy
<1>2. \A pg \in Page : ~pgd[pg].present /\ ~pgd[pg].swapped
    BY DEF Init
<1>3. /\ mram_free = [i \in 1 .. NFrames |-> i - 1] /\ Len(mram_free) = NFrames
      /\ Len(mswp_free) = NSwap /\ lru = << >>
    BY Sizes DEF Init, MEMPHY_format
<1>4. PresentInv
  <2>1. \A i, j \in 1 .. NFrames : i - 1 = j - 1 => i = j
    BY Sizes
  <2> QED
    BY <1>2, <1>3, <2>1 DEF PresentInv, Present
<1>5. FreshInv
  <2>1. \A p \in Proc : \A n \in 0 .. NPages - 1 : <<p, n>> \in Page
    BY Sizes DEF Page
  <2> QED
    BY <1>2, <2>1 DEF FreshInv, Fresh, Present
<1>6. MapInv
    BY <1>1 DEF MapInv
<1>7. NeedInv /\ VictimInv
    BY <1>1 DEF NeedInv, VictimInv, Reading, Evicting, HoldsFrame
<1>8. LruInv
    BY <1>3 DEF LruInv
<1>9. OwnedInv
  <2>1. \A f \in Frames : f + 1 \in 1 .. NFrames /\ mram_free[f + 1] = f
    BY <1>3, Sizes DEF Frames
  <2> QED
    BY <1>3, <2>1 DEF OwnedInv
<1>10. CoverInv
    BY <1>2 DEF CoverInv, Present
<1>11. SlotInv
  <2>1. Cardinality(Swapped) \in Nat
    BY SwappedFinite, FS_CardinalityType
  <2>2. \A labels : OneOut(labels) \in {0, 1}
    BY DEF OneOut
  <2>3. \A c \in Nat, o \in {0, 1} : NSwap + c + o >= NSwap /\ NSwap + o >= NSwap
    BY Sizes
  <2> QED
    BY <1>3, <2>1, <2>2, <2>3 DEF SlotInv
<1>12. ClassInv
    BY <1>1 DEF ClassInv
<1> QED
    BY <1>4, <1>5, <1>6, <1>7, <1>8, <1>9, <1>10, <1>11, <1>12 DEF MemInv

LEMMA NextIInv == ~Mixed /\ IInv /\ [Next]_vars => IInv'
<1>1. BaseInv /\ [Next]_vars => BaseInv'
    BY NextBase
<1>2. ASSUME ~Mixed, IInv, NEW p \in Proc, start(p) \/ step(p) PROVE ClassInv' /\ (~crashed' => MemInv')
  <2>1. ~crashed
    BY <1>2, StartJob DEF IInv, step, At, victim, slot, slot_none_getpage, slot_none_reuse, slot_none_map,
       evict, getpage, frame, frame_none, enter, found, touch, update, map_lock, map_frame,
       map_frame_none, map_page, reuse, reuse_enter, reuse_put, reuse_update
  <2> QED
    BY <1>2, <2>1, StepClass, StartClass, StepMem, StartMem DEF IInv
<1>3. ASSUME IInv, tick PROVE ClassInv' /\ (~crashed' => MemInv')
  <2>1. \A p \in Proc : ~Busy(p)'
    BY <1>3, RestingJob DEF tick, Busy
  <2> QED
    BY <1>3, <2>1, TickMem DEF IInv, tick, ClassInv
<1>4. ASSUME IInv, UNCHANGED vars PROVE ClassInv' /\ (~crashed' => MemInv')
  <2>1. ClassInv' /\ crashed' = crashed
    BY <1>4 DEF IInv, ClassInv, vars, Busy
  <2> QED
    BY <1>4, <2>1, StutterMem DEF IInv
<1> QED
    BY <1>1, <1>2, <1>3, <1>4 DEF Next, IInv, Crashed

\* Page tables, free lists, the LRU list and slots agree with each other in
\* every reachable state, if instructions of different kinds do not overlap.
THEOREM Invariance == ASSUME ~Mixed PROVE Spec => []IInv
<1>1. Init => IInv
    BY InitBase, InitMem DEF IInv
<1>2. IInv /\ [Next]_vars => IInv'
    BY NextIInv
<1> QED
    BY <1>1, <1>2, PTL DEF Spec

-----------------------------------------------------------------------------
(* The properties of Paging.tla *)

\* A frame has an owner, and no two.
LEMMA OwnerExists ==
    ASSUME IInv, ~crashed, NEW f \in Frames
    PROVE  \E o : o \in Owners(f)
<1>1. CASE \E i \in 1 .. Len(mram_free) : mram_free[i] = f
    BY <1>1 DEF Owners
<1>2. CASE \E pg \in Page : Present(pg) /\ pgd[pg].low = f
    BY <1>2 DEF Owners
<1>3. CASE \E p \in Proc : HoldsFrame(p) /\ job[p].vic.fpn = f
    BY <1>3 DEF Owners
<1>4. CASE \E p \in Proc : \E i \in 1 .. Len(job[p].frm_lst) : job[p].frm_lst[i] = f
  <2> DEFINE places(p) == {<<"list", p, i>> : i \in {i \in 1 .. Len(job[p].frm_lst) : job[p].frm_lst[i] = f}}
  <2>1. PICK p \in Proc : \E i \in 1 .. Len(job[p].frm_lst) : job[p].frm_lst[i] = f
    BY <1>4
  <2>2. PICK i \in 1 .. Len(job[p].frm_lst) : job[p].frm_lst[i] = f
    BY <2>1
  <2>3. <<"list", p, i>> \in places(p)
    BY <2>2
  <2>4. places(p) \subseteq Owners(f)
    BY DEF Owners
  <2> QED
    BY <2>3, <2>4
<1> QED
    BY <1>1, <1>2, <1>3, <1>4 DEF IInv, MemInv, OwnedInv

LEMMA OwnerUnique ==
    ASSUME IInv, ~crashed, NEW f \in Frames, NEW o \in Owners(f), NEW s \in Owners(f)
    PROVE  o = s
<1> DEFINE P(x) == \E pg \in Page : Present(pg) /\ pgd[pg].low = f /\ x = <<"page", pg>>
           F(x) == \E i \in 1 .. Len(mram_free) : mram_free[i] = f /\ x = <<"free", i>>
           H(x) == \E p \in Proc : HoldsFrame(p) /\ job[p].vic.fpn = f /\ x = <<"held", p>>
           L(x) == \E p \in Proc : \E i \in 1 .. Len(job[p].frm_lst) :
                       job[p].frm_lst[i] = f /\ x = <<"list", p, i>>
<1>1. \A x \in Owners(f) : P(x) \/ F(x) \/ H(x) \/ L(x)
    BY DEF Owners
<1>2. BaseInv /\ ClassInv /\ PresentInv /\ MapInv /\ VictimInv
    BY DEF IInv, MemInv
<1>3. \A x, y : P(x) /\ P(y) => x = y
    BY <1>2 DEF PresentInv
<1>4. \A x, y : F(x) /\ F(y) => x = y
    BY <1>2 DEF PresentInv
<1>5. \A x, y : ~(P(x) /\ F(y))
    BY <1>2 DEF PresentInv
<1>6. \A x : H(x) \/ L(x) => Unused(f)
    BY <1>2 DEF VictimInv, MapInv
<1>7. \A x, y : (H(x) \/ L(x)) => ~P(y) /\ ~F(y)
    BY <1>6 DEF Unused
<1>8. \A p \in Proc : HoldsFrame(p) => Critical(p)
    BY DEF HoldsFrame, Critical, Busy
<1>9. \A p \in Proc : job[p].frm_lst # << >> => Critical(p) /\ ~HoldsFrame(p)
    BY <1>2 DEF BaseInv, ListInv, HoldsFrame, Critical, Busy
<1>10. \A x, y : H(x) /\ H(y) => x = y
    BY <1>2, <1>8, Alone
<1>11. \A x, y : ~(H(x) /\ L(y))
  <2> SUFFICES ASSUME NEW p \in Proc, HoldsFrame(p), NEW q \in Proc, NEW i \in 1 .. Len(job[q].frm_lst)
               PROVE  FALSE
    OBVIOUS
  <2>1. job[q].frm_lst # << >>
    OBVIOUS
  <2>2. p = q
    BY <1>2, <1>8, <1>9, <2>1, Alone
  <2> QED
    BY <1>9, <2>1, <2>2
<1>12. \A x, y : L(x) /\ L(y) => x = y
  <2> SUFFICES ASSUME NEW p \in Proc, NEW q \in Proc,
                      NEW i \in 1 .. Len(job[p].frm_lst), NEW j \in 1 .. Len(job[q].frm_lst),
                      job[p].frm_lst[i] = f, job[q].frm_lst[j] = f
               PROVE  p = q /\ i = j
    OBVIOUS
  <2>1. job[p].frm_lst # << >> /\ job[q].frm_lst # << >>
    OBVIOUS
  <2>2. p = q
    BY <1>2, <1>9, <2>1, Alone
  <2> QED
    BY <1>2, <2>2 DEF MapInv
<1> HIDE DEF P, F, H, L
<1> QED
    BY <1>1, <1>3, <1>4, <1>5, <1>7, <1>10, <1>11, <1>12

\* FrameOwner of Paging.tla: no two pages share a frame, none is both free and
\* in use, and none is lost, for any number of CPUs that replace pages.
THEOREM FramesOwned == ASSUME ~Mixed PROVE Spec => []FrameOwner
<1>1. IInv => FrameOwner
  <2>1. ASSUME IInv, ~crashed, NEW f \in Frames PROVE Cardinality(Owners(f)) = 1
    <3>1. PICK o : o \in Owners(f)
      BY <2>1, OwnerExists
    <3>2. Owners(f) = {o}
      BY <2>1, <3>1, OwnerUnique
    <3>3. Cardinality({o}) = 1
      BY FS_Singleton
    <3> QED
      BY <3>2, <3>3
  <2> QED
    BY <2>1 DEF FrameOwner
<1> QED
    BY <1>1, Invariance, PTL

\* LruExact of Paging.tla: what find_LRU_victim_page takes from the list is a
\* present page with the frame it is in, and as long as there are slots every
\* present page can become a victim.
THEOREM LruAlwaysExact == ASSUME ~Mixed PROVE Spec => []LruExact
<1>1. IInv => LruExact
    BY DEF IInv, MemInv, LruInv, CoverInv, Known, LruExact
<1> QED
    BY <1>1, Invariance, PTL

\* OutOfSwapJustified of Paging.tla: MEMPHY_get_freefp of swap fails only when at
\* least as many pages are swapped out as the device has slots.
THEOREM OutOfSwapAlwaysJustified == ASSUME ~Mixed PROVE Spec => []OutOfSwapJustified
<1>1. IInv => OutOfSwapJustified
  <2> SUFFICES ASSUME IInv, NEW p \in Proc, At(p, "slot"), mswp_free = << >>
               PROVE  Cardinality(Swapped) >= NSwap
    BY DEF OutOfSwapJustified, Swapped
  <2>1. Critical(p) /\ ~crashed
    BY DEF At, Critical, Busy
  <2>2. ASSUME NEW q \in Proc PROVE job[q].pc \notin {"evict", "reuse_put"}
    <3>1. q # p => ~Critical(q)
      BY <2>1, OthersQuiet DEF IInv
    <3> QED
      BY <3>1 DEF At, Critical, Busy
  <2>3. OneOut({"evict", "reuse_put"}) = 0 /\ Len(mswp_free) = 0
    BY <2>2 DEF OneOut
  <2>4. Len(mswp_free) + Cardinality(Swapped) + OneOut({"evict", "reuse_put"}) >= NSwap
    BY <2>1 DEF IInv, MemInv, SlotInv
  <2>5. Cardinality(Swapped) \in Nat
    BY SwappedFinite, FS_CardinalityType
  <2> QED
    BY <2>3, <2>4, <2>5, Sizes
<1> QED
    BY <1>1, Invariance, PTL

-----------------------------------------------------------------------------
(* Types *)

\* What is left of TypeOK: frames that are collected are frames of RAM, and
\* devices hold bytes of pages.
TypeInv ==
    /\ \A p \in Proc : job[p].frm_lst \in Seq(Frames)
    /\ ram \in [Frames -> Page \cup {NoPage}]
    /\ swp \in [Slots -> Page \cup {NoPage}]

LEMMA StepType ==
    ASSUME BaseInv, MemInv, TypeInv, NEW p \in Proc, step(p)
    PROVE  TypeInv'
<1>1. /\ \A q \in Proc : q # p => job'[q] = job[q]
      /\ Busy(p) /\ (GoesOn(p) \/ Ends(p))
    BY StepJob
<1>2. /\ ram \in [Frames -> Page \cup {NoPage}] /\ swp \in [Slots -> Page \cup {NoPage}]
      /\ job[p].frm_lst \in Seq(Frames) /\ job[p] \in Jobs /\ job \in [Proc -> Jobs]
    BY JobParts DEF TypeInv, BaseInv, JobType
<1>3. job'[p].frm_lst \in Seq(Frames)
  <2>1. CASE Ends(p)
    BY <2>1 DEF Ends
  <2>2. CASE GoesOn(p) /\ job[p].kind # "map"
    <3>1. job'[p].frm_lst = << >>
      BY <2>2, StepOther
    <3> QED
      BY <3>1
  <2>3. CASE evict(p) /\ job[p].kind = "map"
    <3>1. PICK v \in Page, f \in Frames : Leaving(p, v, f)
      BY <2>3, EvictStep
    <3>2. job'[p].frm_lst = Append(job[p].frm_lst, f)
      BY <1>2, <2>3, <3>1 DEF evict, Jobs, Leaving
    <3> QED
      BY <1>2, <3>2
  <2>4. CASE map_frame(p)
    <3>1. mram_free \in Seq(Frames) /\ mram_free # << >>
      BY <2>4 DEF map_frame, BaseInv, StateType
    <3>2. PICK f \in Frames : f = Head(mram_free)
      BY <3>1, TailFacts
    <3>3. job'[p].frm_lst = Append(job[p].frm_lst, f)
      BY <1>2, <2>4, <3>2 DEF map_frame, Jobs
    <3> QED
      BY <1>2, <3>3
  <2>5. CASE GoesOn(p) /\ map_page(p)
    <3>1. job[p].frm_lst # << >>
      <4>1. Len(job[p].frm_lst) \in 1 .. Len(job[p].pages)
        BY <2>5, EnterStep
      <4> QED
        BY <4>1
    <3>2. job'[p].frm_lst = SubSeq(job[p].frm_lst, 1, Len(job[p].frm_lst) - 1)
      <4>1. job[p].kind = "map"
        BY <2>5 DEF map_page, At, BaseInv, KindInv
      <4>2. job'[p].pc # "done"
        BY <2>5 DEF GoesOn
      <4> QED
        <5>1. ~victim(p) /\ ~slot(p) /\ ~slot_none_map(p) /\ ~map_lock(p) /\ ~map_frame_none(p)
              /\ ~evict(p) /\ ~map_frame(p)
          BY <2>5 DEF map_page, evict, map_frame, At, victim, slot, slot_none_map, map_lock, map_frame_none
        <5> QED
          BY <4>1, <4>2, <5>1, StepMap DEF Ends
    <3> QED
      BY <1>2, <3>1, <3>2, ButLast
  <2>6. CASE job'[p].frm_lst = job[p].frm_lst
    BY <1>2, <2>6
  <2> QED
    BY <1>1, <2>1, <2>2, <2>3, <2>4, <2>5, <2>6, StepMap
<1>4. ram' \in [Frames -> Page \cup {NoPage}] /\ swp' \in [Slots -> Page \cup {NoPage}]
  <2>1. CASE evict(p)
    <3>1. PICK v \in Page, f \in Frames : Leaving(p, v, f)
      BY <2>1, EvictStep
    <3>2. job[p].vic.fpn \in Frames
      BY <3>1 DEF Leaving
    <3> QED
      BY <1>2, <2>1, <3>2 DEF evict, swap_cp_page
  <2>2. CASE frame(p) \/ enter(p) \/ reuse_enter(p)
    <3>1. job[p].tgtfpn \in Slots
      BY <2>2 DEF frame, enter, reuse_enter, At, BaseInv, SwapInv, Reading
    <3> QED
      BY <1>2, <2>2, <3>1 DEF frame, enter, reuse_enter, swap_cp_page
  <2>3. CASE map_page(p)
    <3>1. PICK pg \in Page : pg = job[p].pages[Len(job[p].frm_lst)]
      BY <2>3, EnterStep DEF Entering
    <3>2. Mark(pg) \in Page \cup {NoPage}
      BY DEF Mark
    <3> QED
      BY <1>2, <2>3, <3>1, <3>2 DEF map_page
  <2>4. CASE ~evict(p) /\ ~frame(p) /\ ~enter(p) /\ ~reuse_enter(p) /\ ~map_page(p)
    BY <1>2, <2>4 DEF step, victim, slot, slot_none_getpage, slot_none_reuse, slot_none_map,
       getpage, frame_none, found, touch, update, map_lock, map_frame,
       map_frame_none, reuse, reuse_put, reuse_update
  <2> QED
    BY <2>1, <2>2, <2>3, <2>4
<1> QED
    BY <1>1, <1>3, <1>4 DEF TypeInv

\* TypeOK of Paging.tla: vmap_page_range is given frames of RAM, and swap and
\* RAM hold bytes of pages only.
THEOREM TypeCorrect == ASSUME ~Mixed PROVE Spec => []TypeOK
<1>1. Init => TypeInv
  <2>1. << >> \in Seq(Frames)
    OBVIOUS
  <2>2. Init => \A p \in Proc : job[p].frm_lst = << >>
    <3>1. Init => \A p \in Proc : job[p] = Resting
      BY DEF Init
    <3> QED
      BY <3>1, RestingJob
  <2>3. Init => ram \in [Frames -> Page \cup {NoPage}] /\ swp \in [Slots -> Page \cup {NoPage}]
    BY DEF Init
  <2> QED
    BY <2>1, <2>2, <2>3 DEF TypeInv
<1>2. IInv /\ TypeInv /\ [Next]_vars => TypeInv'
  <2>1. ASSUME IInv, TypeInv, NEW p \in Proc, start(p) PROVE TypeInv'
    <3>1. /\ job'[p].frm_lst = << >> /\ ram' = ram /\ swp' = swp
          /\ \A q \in Proc : q # p => job'[q] = job[q]
      BY <2>1, StartJob DEF IInv
    <3>2. << >> \in Seq(Frames)
      OBVIOUS
    <3> QED
      BY <2>1, <3>1, <3>2 DEF TypeInv
  <2>2. ASSUME IInv, TypeInv, NEW p \in Proc, step(p) PROVE TypeInv'
    <3>1. ~crashed
      BY <2>2 DEF step, At, victim, slot, slot_none_getpage, slot_none_reuse, slot_none_map,
         evict, getpage, frame, frame_none, enter, found, touch, update, map_lock, map_frame,
         map_frame_none, map_page, reuse, reuse_enter, reuse_put, reuse_update
    <3> QED
      BY <2>2, <3>1, StepType DEF IInv
  <2>3. ASSUME TypeInv, tick PROVE TypeInv'
    <3>1. << >> \in Seq(Frames)
      OBVIOUS
    <3> QED
      BY <2>3, <3>1, RestingJob DEF tick, TypeInv
  <2>4. ASSUME TypeInv, UNCHANGED vars PROVE TypeInv'
    BY <2>4 DEF TypeInv, vars
  <2> QED
    BY <2>1, <2>2, <2>3, <2>4 DEF Next, Crashed
<1>3. IInv /\ TypeInv => TypeOK
  <2> SUFFICES ASSUME IInv, TypeInv PROVE TypeOK
    OBVIOUS
  <2> DEFINE Js == [pc : Labels, kind : Kinds, size : 0 .. MaxPages, pages : Seq(Page),
                    tgtfpn : 0 .. FPN_MOD - 1, vic : Node \cup {NoNode},
                    swpfpn : Slots, fpn : 0 .. FPN_MOD - 1, frm_lst : Seq(Frames)]
  <2>1. job \in [Proc -> Jobs]
    BY DEF IInv, BaseInv, JobType
  <2>2. ASSUME NEW j \in Jobs, j.frm_lst \in Seq(Frames) PROVE j \in Js
    BY <2>2 DEF Jobs
  <2>3. \A p \in Proc : job[p] \in Js
    BY <2>1, <2>2 DEF TypeInv
  <2>4. job \in [Proc -> Js]
    <3> HIDE DEF Js
    <3> QED
      BY <2>1, <2>3
  <2> QED
    BY <2>4 DEF IInv, BaseInv, StateType, TypeInv, TypeOK
<1> QED
    BY <1>1, <1>2, <1>3, Invariance, PTL DEF Spec
====
