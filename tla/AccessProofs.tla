---------------------------- MODULE AccessProofs ----------------------------
(***************************************************************************)
(* The frame that pg_getpage returned is still the page's when pg_getval   *)
(* or pg_setval uses it, though the mutex was given back in between.  The  *)
(* page was moved to the end of the LRU list, and the other CPUs would     *)
(* have to go through all the other frames to make it a victim.  The proof *)
(* counts the frames that they can have gone through against the pages of  *)
(* their instructions, for any number of CPUs.                             *)
(***************************************************************************)
EXTENDS PagingProofs

-----------------------------------------------------------------------------
(* The invariant *)

\* Page pg is nearer to the head of list l than page po.
Ahead(l, pg, po) == \E i, j \in 1 .. Len(l) : i < j /\ l[i].page = pg /\ l[j].page = po

\* The node of frame f is nearer to the head of list l than page po.
FrameAhead(l, f, po) == \E i, j \in 1 .. Len(l) : i < j /\ l[i].fpn = f /\ l[j].page = po

Listed(l, pg) == \E i \in 1 .. Len(l) : l[i].page = pg

\* No slot is free and none will be: no page is evicted any more.
Exhausted == mswp_free = << >> /\ ~SlotOut

\* The frames that will not be used before the one of p's page becomes a victim.
Taken(p) ==
    {f \in Frames : /\ f # job[p].fpn
                    /\ \A i \in 1 .. Len(mram_free) : mram_free[i] # f
                    /\ ~FrameAhead(lru, f, Current(p))}

\* The CPUs that may still move a node from before p's page to the end of the list
\* without needing another page.
Due(p) ==
    {q \in Proc \ {p} :
        \/ job[q].pc = "found" /\ Ahead(lru, Current(q), Current(p))
        \/ job[q].pc \in {"touch", "update"} /\ ~Ahead(lru, Current(p), Current(q))}

\* How many pages of its instruction a CPU has asked for, the current one included from
\* when a frame for it is chosen.
Chosen == {"slot", "evict", "enter", "found", "touch", "update"}

Spent(q) ==
    IF job[q].pc = "idle" THEN 0
    ELSE IF job[q].pc = "done" THEN job[q].size
    ELSE job[q].size - Len(job[q].pages) + (IF job[q].pc \in Chosen THEN 1 ELSE 0)

\* What the other CPUs have spent, as a set of pairs.
Tokens(p) == {t \in Proc \X (1 .. MaxPages) : t[1] # p /\ t[2] <= Spent(t[1])}

\* The page of p is in the frame that was returned.
Kept(p) == Present(Current(p)) /\ pgd[Current(p)].low = job[p].fpn

Counted(p) ==
    /\ Listed(lru, Current(p))
    /\ Cardinality(Taken(p)) + Cardinality(Due(p)) <= Cardinality(Tokens(p))

\* RAM has more frames than the instructions of the other CPUs are about.
Roomy(p) == \A q \in Proc \ {p} : job[q].pc # "idle" => NFrames > (NCPU - 1) * job[q].size

TouchInv ==
    \A p \in Proc : job[p].pc = "touch" /\ Roomy(p) => Kept(p) /\ (Exhausted \/ Counted(p))

\* A slot has no more instructions than there are CPUs.
Active == {q \in Proc : job[q].pc # "idle"}

CpuInv == Cardinality(Active) <= NCPU

-----------------------------------------------------------------------------
(* Counting *)

\* A set that gains at most one element.
LEMMA GainOne ==
    ASSUME NEW S, IsFiniteSet(S), NEW T, NEW x, T \subseteq S \cup {x}
    PROVE  IsFiniteSet(T) /\ Cardinality(T) <= Cardinality(S) + 1
<1>1. /\ IsFiniteSet(S \cup {x})
      /\ Cardinality(S \cup {x}) = IF x \in S THEN Cardinality(S) ELSE Cardinality(S) + 1
    BY FS_AddElement
<1>2. IsFiniteSet(T) /\ Cardinality(T) <= Cardinality(S \cup {x})
    BY <1>1, FS_Subset
<1>3. Cardinality(S) \in Nat /\ Cardinality(T) \in Nat
    BY <1>2, FS_CardinalityType
<1> QED
    BY <1>1, <1>2, <1>3

\* A set that loses an element.
LEMMA LoseOne ==
    ASSUME NEW S, IsFiniteSet(S), NEW T, NEW x \in S, T \subseteq S \ {x}
    PROVE  IsFiniteSet(T) /\ Cardinality(T) + 1 <= Cardinality(S)
<1>1. IsFiniteSet(S \ {x}) /\ Cardinality(S \ {x}) = Cardinality(S) - 1
    BY FS_RemoveElement
<1>2. IsFiniteSet(T) /\ Cardinality(T) <= Cardinality(S \ {x})
    BY <1>1, FS_Subset
<1>3. Cardinality(S) \in Nat /\ Cardinality(T) \in Nat
    BY <1>2, FS_CardinalityType
<1> QED
    BY <1>1, <1>2, <1>3

\* T and D change by at most x and q, and by more than they lose only if K grows.
Shift(T, D, K, T1, D1, K1, x, q) ==
    \/ T1 \subseteq T /\ D1 \subseteq D
    \/ T1 \subseteq T \cup {x} /\ D1 \subseteq D \ {q} /\ q \in D
    \/ /\ \/ T1 \subseteq T \cup {x} /\ D1 \subseteq D
          \/ T1 \subseteq T /\ D1 \subseteq D \cup {q}
       /\ \E k : k \in K1 /\ k \notin K

\* Then the sum of T and D stays below K.
LEMMA Balance ==
    ASSUME NEW T, NEW D, NEW K, NEW T1, NEW D1, NEW K1, NEW x, NEW q,
           IsFiniteSet(T), IsFiniteSet(D), IsFiniteSet(K1), K \subseteq K1,
           Cardinality(T) + Cardinality(D) <= Cardinality(K),
           Shift(T, D, K, T1, D1, K1, x, q)
    PROVE  Cardinality(T1) + Cardinality(D1) <= Cardinality(K1)
<1>1. IsFiniteSet(K) /\ Cardinality(K) <= Cardinality(K1)
    BY FS_Subset
<1>2. /\ Cardinality(T) \in Nat /\ Cardinality(D) \in Nat
      /\ Cardinality(K) \in Nat /\ Cardinality(K1) \in Nat
    BY <1>1, FS_CardinalityType
<1>3. IsFiniteSet(T1) /\ Cardinality(T1) \in Nat /\ Cardinality(T1) <= Cardinality(T) + 1
    BY GainOne, FS_CardinalityType DEF Shift
<1>4. IsFiniteSet(D1) /\ Cardinality(D1) \in Nat /\ Cardinality(D1) <= Cardinality(D) + 1
    BY GainOne, FS_CardinalityType DEF Shift
<1>5. T1 \subseteq T => Cardinality(T1) <= Cardinality(T)
    BY FS_Subset
<1>6. D1 \subseteq D => Cardinality(D1) <= Cardinality(D)
    BY FS_Subset
<1>7. D1 \subseteq D \ {q} /\ q \in D => Cardinality(D1) + 1 <= Cardinality(D)
    BY LoseOne
<1>8. (\E k : k \in K1 /\ k \notin K) => Cardinality(K) + 1 <= Cardinality(K1)
  <2> SUFFICES ASSUME NEW k, k \in K1, k \notin K PROVE Cardinality(K) + 1 <= Cardinality(K1)
    OBVIOUS
  <2>1. K \subseteq K1 \ {k}
    OBVIOUS
  <2> QED
    BY <2>1, LoseOne
<1>9. CASE T1 \subseteq T /\ D1 \subseteq D
    BY <1>1, <1>2, <1>3, <1>4, <1>5, <1>6, <1>9
<1>10. CASE T1 \subseteq T \cup {x} /\ D1 \subseteq D \ {q} /\ q \in D
    BY <1>1, <1>2, <1>3, <1>4, <1>7, <1>10
<1>11. CASE T1 \subseteq T \cup {x} /\ D1 \subseteq D /\ \E k : k \in K1 /\ k \notin K
    BY <1>2, <1>3, <1>4, <1>6, <1>8, <1>11
<1>12. CASE T1 \subseteq T /\ D1 \subseteq D \cup {q} /\ \E k : k \in K1 /\ k \notin K
    BY <1>2, <1>3, <1>4, <1>5, <1>8, <1>12
<1> QED
    BY <1>9, <1>10, <1>11, <1>12 DEF Shift

\* The greatest of some numbers.
LEMMA Greatest ==
    ASSUME NEW n \in Nat, NEW S, S \subseteq 0 .. n, S # {}
    PROVE  \E m \in S : \A s \in S : s <= m
<1> DEFINE R == {k \in 0 .. n : n - k \in S}
<1>1. R \subseteq Nat /\ R # {}
  <2>1. PICK s \in S : TRUE
    OBVIOUS
  <2>2. n - s \in 0 .. n /\ n - (n - s) = s
    OBVIOUS
  <2> QED
    BY <2>1, <2>2
<1> HIDE DEF R
<1>2. PICK k \in R : \A j \in R : ~(<<j, k>> \in OpToRel(<, Nat))
    BY <1>1, NatLessThanWellFounded, WFMin
<1>3. \A j \in R : k <= j
  <2>1. \A j \in R : <<j, k>> \in Nat \X Nat /\ ~(j < k)
    BY <1>1, <1>2 DEF OpToRel
  <2>2. \A j, i \in Nat : ~(j < i) => i <= j
    OBVIOUS
  <2> QED
    BY <1>1, <1>2, <2>1, <2>2
<1>4. n - k \in S /\ k \in 0 .. n
    BY <1>2 DEF R
<1>5. ASSUME NEW s \in S PROVE s <= n - k
  <2>1. n - s \in 0 .. n /\ n - (n - s) = s
    OBVIOUS
  <2>2. n - s \in R
    BY <2>1 DEF R
  <2>3. k <= n - s
    BY <1>3, <2>2
  <2> QED
    BY <1>4, <2>3
<1> QED
    BY <1>4, <1>5

-----------------------------------------------------------------------------
(* The order of the list *)

\* From list l to list m, no node but one of frame x is no longer ahead of page c, and
\* page c is ahead of all that it was ahead of.
Keeps(l, m, c, x) ==
    /\ Listed(l, c) => Listed(m, c)
    /\ \A f : f # x /\ FrameAhead(l, f, c) => FrameAhead(m, f, c)
    /\ \A pg : Ahead(m, pg, c) => Ahead(l, pg, c)
    /\ \A pg : Ahead(l, c, pg) => Ahead(m, c, pg)

\* Where the k-th of n nodes is after the i-th was moved to the end.
After(i, n, k) == IF k < i THEN k ELSE IF k = i THEN n ELSE k - 1

\* A node of another page is moved to the end.
LEMMA MoveOrder ==
    ASSUME NEW l \in Seq(Node), NEW i \in 1 .. Len(l), NEW c, l[i].page # c
    PROVE  /\ Keeps(l, MoveToTail(l, i), c, l[i].fpn)
           /\ Listed(l, c) => Ahead(MoveToTail(l, i), c, l[i].page)
<1> DEFINE n == Len(l)
           m == MoveToTail(l, i)
<1>0. n \in Nat /\ i \in 1 .. n
    OBVIOUS
<1>1. Len(m) = n /\ \A k \in 1 .. n : m[k] = l[Before(i, n, k)]
    BY MoveFacts
<1> HIDE DEF n, m
<1>2. \A k \in 1 .. n : After(i, n, k) \in 1 .. n /\ Before(i, n, After(i, n, k)) = k
    BY <1>0 DEF After, Before
<1>3. \A k \in 1 .. n : m[After(i, n, k)] = l[k]
    BY <1>1, <1>2
<1>4. \A j, k \in 1 .. n : j < k /\ j # i /\ k # i => After(i, n, j) < After(i, n, k)
    BY <1>0 DEF After
<1>5. \A j \in 1 .. n : j # i => After(i, n, j) < After(i, n, i)
    BY <1>0 DEF After
<1>6. \A j, k \in 1 .. n : j < k /\ k # n => Before(i, n, j) < Before(i, n, k) /\ Before(i, n, j) # i
    BY <1>0 DEF Before
<1>7. m[n] = l[i]
    BY <1>0, <1>3 DEF After
<1>8. \A k \in 1 .. n : Before(i, n, k) \in 1 .. n
    BY <1>0, BeforeFacts
<1>9. Listed(l, c) => Listed(m, c)
    BY <1>1, <1>2, <1>3 DEF Listed, n
<1>10. ASSUME NEW f, f # l[i].fpn, FrameAhead(l, f, c) PROVE FrameAhead(m, f, c)
  <2>1. PICK j, k \in 1 .. n : j < k /\ l[j].fpn = f /\ l[k].page = c
    BY <1>10 DEF FrameAhead, n
  <2>2. j # i /\ k # i
    BY <1>10, <2>1
  <2> QED
    BY <1>1, <1>2, <1>3, <1>4, <2>1, <2>2 DEF FrameAhead
<1>11. ASSUME NEW pg, Ahead(m, pg, c) PROVE Ahead(l, pg, c)
  <2>1. PICK j, k \in 1 .. n : j < k /\ m[j].page = pg /\ m[k].page = c
    BY <1>1, <1>11 DEF Ahead
  <2>2. k # n
    BY <1>7, <2>1
  <2> QED
    BY <1>1, <1>6, <1>8, <2>1, <2>2 DEF Ahead, n
<1>12. ASSUME NEW pg, Ahead(l, c, pg) PROVE Ahead(m, c, pg)
  <2>1. PICK j, k \in 1 .. n : j < k /\ l[j].page = c /\ l[k].page = pg
    BY <1>12 DEF Ahead, n
  <2>2. j # i
    BY <2>1
  <2>3. After(i, n, j) < After(i, n, k)
    BY <1>4, <1>5, <2>1, <2>2
  <2> QED
    BY <1>1, <1>2, <1>3, <2>1, <2>3 DEF Ahead
<1>13. Listed(l, c) => Ahead(m, c, l[i].page)
  <2> SUFFICES ASSUME Listed(l, c) PROVE Ahead(m, c, l[i].page)
    OBVIOUS
  <2>1. PICK j \in 1 .. n : l[j].page = c
    BY DEF Listed, n
  <2>2. j # i
    BY <2>1
  <2> QED
    BY <1>0, <1>1, <1>2, <1>3, <1>5, <2>1, <2>2 DEF Ahead
<1> QED
    BY <1>9, <1>10, <1>11, <1>12, <1>13 DEF Keeps, m

\* A node of another page is added at the end.
LEMMA AppendOrder ==
    ASSUME NEW l \in Seq(Node), NEW v \in Node, NEW c, v.page # c, NEW x
    PROVE  /\ Keeps(l, Append(l, v), c, x)
           /\ Listed(l, c) => Ahead(Append(l, v), c, v.page)
<1> DEFINE n == Len(l)
           m == Append(l, v)
<1>1. n \in Nat /\ Len(m) = n + 1 /\ m[n + 1] = v /\ \A k \in 1 .. n : m[k] = l[k]
    OBVIOUS
<1> HIDE DEF n, m
<1>2. /\ \A k \in 1 .. n + 1 : k \in 1 .. n \/ k = n + 1
      /\ \A k \in 1 .. n : k \in 1 .. n + 1 /\ k < n + 1
      /\ n + 1 \in 1 .. n + 1
    BY <1>1
<1>3. \A k \in 1 .. n + 1 : m[k].page = c => k \in 1 .. n
    BY <1>1, <1>2
<1>4. \A j \in 1 .. n + 1 : \A k \in 1 .. n : j < k => j \in 1 .. n
    BY <1>1
<1>5. Listed(l, c) => Listed(m, c)
    BY <1>1, <1>2 DEF Listed, n
<1>6. \A f : FrameAhead(l, f, c) => FrameAhead(m, f, c)
    BY <1>1, <1>2 DEF FrameAhead, n
<1>7. \A pg : Ahead(m, pg, c) => Ahead(l, pg, c)
    BY <1>1, <1>3, <1>4 DEF Ahead, n
<1>8. \A pg : Ahead(l, c, pg) => Ahead(m, c, pg)
    BY <1>1, <1>2 DEF Ahead, n
<1>9. Listed(l, c) => Ahead(m, c, v.page)
    BY <1>1, <1>2 DEF Listed, Ahead, n
<1> QED
    BY <1>5, <1>6, <1>7, <1>8, <1>9 DEF Keeps, m

\* The node at the head is taken, and is one of another page.
LEMMA TailOrder ==
    ASSUME NEW l \in Seq(Node), l # << >>, NEW c, Head(l).page # c
    PROVE  Keeps(l, Tail(l), c, Head(l).fpn)
<1> DEFINE n == Len(l)
           m == Tail(l)
<1>1. /\ n \in Nat \ {0} /\ Len(m) = n - 1 /\ Head(l) = l[1]
      /\ \A k \in 1 .. n - 1 : m[k] = l[k + 1] /\ k + 1 \in 1 .. n
      /\ \A j \in 1 .. n : j = 1 \/ \E k \in 1 .. n - 1 : k + 1 = j /\ m[k] = l[j]
    BY TailFacts
<1> HIDE DEF n, m
<1>2. \A j \in 1 .. n : j # 1 => j - 1 \in 1 .. n - 1 /\ m[j - 1] = l[j]
    BY <1>1
<1>3. \A j, k \in 1 .. n : j < k => k # 1 /\ j - 1 < k - 1
    BY <1>1
<1>4. \A j, k \in 1 .. n - 1 : j < k => j + 1 < k + 1
    BY <1>1
<1>5. Listed(l, c) => Listed(m, c)
    BY <1>1, <1>2 DEF Listed, n
<1>6. ASSUME NEW f, f # Head(l).fpn, FrameAhead(l, f, c) PROVE FrameAhead(m, f, c)
  <2>1. PICK j, k \in 1 .. n : j < k /\ l[j].fpn = f /\ l[k].page = c
    BY <1>6 DEF FrameAhead, n
  <2>2. j # 1 /\ k # 1 /\ j - 1 < k - 1
    BY <1>1, <1>3, <1>6, <2>1
  <2>3. j - 1 \in 1 .. Len(m) /\ k - 1 \in 1 .. Len(m) /\ m[j - 1].fpn = f /\ m[k - 1].page = c
    BY <1>1, <1>2, <2>1, <2>2
  <2> QED
    BY <2>2, <2>3 DEF FrameAhead
<1>7. ASSUME NEW pg, Ahead(m, pg, c) PROVE Ahead(l, pg, c)
  <2>1. PICK j, k \in 1 .. n - 1 : j < k /\ m[j].page = pg /\ m[k].page = c
    BY <1>1, <1>7 DEF Ahead
  <2> QED
    BY <1>1, <1>4, <2>1 DEF Ahead, n
<1>8. ASSUME NEW pg, Ahead(l, c, pg) PROVE Ahead(m, c, pg)
  <2>1. PICK j, k \in 1 .. n : j < k /\ l[j].page = c /\ l[k].page = pg
    BY <1>8 DEF Ahead, n
  <2>2. j # 1 /\ k # 1 /\ j - 1 < k - 1
    BY <1>1, <1>3, <2>1
  <2>3. j - 1 \in 1 .. Len(m) /\ k - 1 \in 1 .. Len(m) /\ m[j - 1].page = c /\ m[k - 1].page = pg
    BY <1>1, <1>2, <2>1, <2>2
  <2> QED
    BY <2>2, <2>3 DEF Ahead
<1> QED
    BY <1>5, <1>6, <1>7, <1>8 DEF Keeps, m

-----------------------------------------------------------------------------
(* What the other CPUs have spent *)

\* Sizes of the sets that are counted.
LEMMA Numbers ==
    /\ NCPU \in Nat \ {0} /\ NFrames \in Nat \ {0} /\ MaxPages \in Nat \ {0}
    /\ IsFiniteSet(Proc) /\ IsFiniteSet(Frames) /\ Cardinality(Frames) = NFrames
<1>1. NFrames \in Nat \ {0}
    BY SizeAssumption, FormatAssumption
<1>2. IsFiniteSet(0 .. NFrames - 1) /\ Cardinality(0 .. NFrames - 1) = NFrames
    BY <1>1, FS_Interval
<1> QED
    BY <1>2, SizeAssumption, FiniteAssumption, Sizes DEF Frames

\* No CPU spends more than its instruction is about.
SpentInv ==
    \A q \in Proc :
        /\ job[q].size \in 0 .. MaxPages
        /\ Spent(q) \in 0 .. job[q].size
        /\ Busy(q) => Len(job[q].pages) \in 1 .. job[q].size
        /\ Busy(q) /\ job[q].pc \notin Chosen => Spent(q) < job[q].size
        /\ job[q].pc \in Chosen => Spent(q) >= 1

\* PagesInv bounds what is spent.
LEMMA SpentFacts == BaseInv => SpentInv
<1> SUFFICES ASSUME BaseInv, NEW q \in Proc
             PROVE  /\ job[q].size \in 0 .. MaxPages
                    /\ Spent(q) \in 0 .. job[q].size
                    /\ Busy(q) => Len(job[q].pages) \in 1 .. job[q].size
                    /\ Busy(q) /\ job[q].pc \notin Chosen => Spent(q) < job[q].size
                    /\ job[q].pc \in Chosen => Spent(q) >= 1
    BY DEF SpentInv
<1>1. job[q].size \in 0 .. MaxPages /\ MaxPages \in Nat
    BY Sizes DEF BaseInv, JobType, Jobs
<1>2. Busy(q) => Len(job[q].pages) \in 1 .. job[q].size
    BY DEF BaseInv, PagesInv
<1>3. job[q].pc \in Chosen => Busy(q)
    BY DEF Chosen, Busy
<1>4. CASE Busy(q)
  <2>1. Spent(q) = job[q].size - Len(job[q].pages) + (IF job[q].pc \in Chosen THEN 1 ELSE 0)
    BY <1>4 DEF Spent, Busy
  <2>2. PICK n \in Nat, a \in Nat : a \in 1 .. n /\ n = job[q].size /\ a = Len(job[q].pages)
    BY <1>1, <1>2, <1>4
  <2>a. \A k, l \in Nat : l \in 1 .. k =>
            k - l \in 0 .. k /\ k - l + 0 = k - l /\ k - l < k /\ k - l + 1 \in 0 .. k /\ k - l + 1 >= 1
    OBVIOUS
  <2>3. n - a \in 0 .. n /\ n - a + 0 = n - a /\ n - a < n /\ n - a + 1 \in 0 .. n /\ n - a + 1 >= 1
    BY <2>2, <2>a
  <2>4. CASE job[q].pc \in Chosen
    <3>1. Spent(q) = n - a + 1
      BY <2>1, <2>2, <2>4
    <3> QED
      BY <1>1, <1>2, <1>4, <2>2, <2>3, <2>4, <3>1
  <2>5. CASE job[q].pc \notin Chosen
    <3>1. Spent(q) = n - a
      BY <2>1, <2>2, <2>3, <2>5
    <3> QED
      BY <1>1, <1>2, <1>4, <2>2, <2>3, <2>5, <3>1
  <2> QED
    BY <2>4, <2>5
<1>5. CASE ~Busy(q)
    BY <1>1, <1>3, <1>5 DEF Spent, Busy
<1> QED
    BY <1>4, <1>5

\* The same in the next state.
LEMMA SpentNext == BaseInv' => SpentInv'
BY SpentFacts, PTL

\* The sets that are counted are finite.
LEMMA CountedFinite ==
    ASSUME NEW p \in Proc
    PROVE  /\ IsFiniteSet(Taken(p)) /\ IsFiniteSet(Due(p)) /\ IsFiniteSet(Tokens(p))
           /\ IsFiniteSet(Taken(p)') /\ IsFiniteSet(Due(p)') /\ IsFiniteSet(Tokens(p)')
           /\ IsFiniteSet(Active) /\ IsFiniteSet(Active')
<1>1. IsFiniteSet(1 .. MaxPages)
    BY Numbers, FS_Interval
<1>2. IsFiniteSet(Proc \X (1 .. MaxPages))
    BY <1>1, Numbers, FS_Product
<1>3. Tokens(p) \subseteq Proc \X (1 .. MaxPages) /\ Tokens(p)' \subseteq Proc \X (1 .. MaxPages)
    BY DEF Tokens
<1>4. Taken(p) \subseteq Frames /\ Taken(p)' \subseteq Frames
    BY DEF Taken
<1>5. Due(p) \subseteq Proc /\ Due(p)' \subseteq Proc /\ Active \subseteq Proc /\ Active' \subseteq Proc
    BY DEF Due, Active
<1> QED
    BY <1>2, <1>3, <1>4, <1>5, Numbers, FS_Subset

\* Tokens grow with what one of the other CPUs spends.
LEMMA TokensGrow ==
    ASSUME BaseInv, BaseInv', NEW p \in Proc, NEW q \in Proc, p # q,
           \A r \in Proc : r # q => job'[r] = job[r],
           Spent(q)' >= Spent(q)
    PROVE  /\ Tokens(p) \subseteq Tokens(p)'
           /\ Spent(q)' > Spent(q) => \E k : k \in Tokens(p)' /\ k \notin Tokens(p)
<1>1. \A r \in Proc : r # q => Spent(r)' = Spent(r)
    BY DEF Spent
<1>2. SpentInv /\ SpentInv' /\ MaxPages \in Nat
    BY SpentFacts, SpentNext, Numbers
<1>a. \A k \in Nat : \A m \in 0 .. k : \A n \in 0 .. m : n \in Nat /\ n <= k
    OBVIOUS
<1>3. \A r \in Proc : Spent(r) \in Nat /\ Spent(r)' \in Nat /\ Spent(r)' <= MaxPages
    BY <1>2, <1>a DEF SpentInv
<1>4. \A r \in Proc : Spent(r) <= Spent(r)'
    BY <1>1, <1>3
<1>5. ASSUME NEW t \in Tokens(p) PROVE t \in Tokens(p)'
  <2>1. t[1] \in Proc /\ t[2] \in Nat /\ t \in Proc \X (1 .. MaxPages) /\ t[1] # p /\ t[2] <= Spent(t[1])
    BY DEF Tokens
  <2>2. t[2] <= Spent(t[1])'
    <3>1. \A a, b, c \in Nat : a <= b /\ b <= c => a <= c
      OBVIOUS
    <3> QED
      BY <1>3, <1>4, <2>1, <3>1
  <2> QED
    BY <2>1, <2>2 DEF Tokens
<1>6. ASSUME Spent(q)' > Spent(q)
      PROVE  \E k : k \in Tokens(p)' /\ k \notin Tokens(p)
  <2>1. Spent(q)' \in 1 .. MaxPages /\ ~(Spent(q)' <= Spent(q)) /\ Spent(q)' <= Spent(q)'
    BY <1>2, <1>3, <1>6
  <2>2. PICK n \in 1 .. MaxPages : n = Spent(q)'
    BY <2>1
  <2>3. <<q, n>> \in Tokens(p)'
    BY <2>1, <2>2 DEF Tokens
  <2>4. <<q, n>> \notin Tokens(p)
    BY <2>1, <2>2 DEF Tokens
  <2> QED
    BY <2>3, <2>4
<1> QED
    BY <1>5, <1>6

-----------------------------------------------------------------------------
(* The steps of an access *)

\* What the steps of pg_getpage and its callers are.
LEMMA AccessSteps ==
    ASSUME BaseInv, NEW q \in Proc, step(q), job[q].kind \in {"rw", "free"}
    PROVE  \/ victim(q) \/ slot(q) \/ slot_none_getpage(q) \/ evict(q) \/ getpage(q) \/ frame(q)
           \/ frame_none(q) \/ enter(q) \/ found(q) \/ touch(q) \/ update(q)
<1>1. KindAt(q)
    BY DEF BaseInv, KindInv, KindAt
<1>2. /\ ~slot_none_reuse(q) /\ ~slot_none_map(q)
    BY DEF slot_none_reuse, slot_none_map
<1>3. /\ ~map_lock(q) /\ ~map_frame(q) /\ ~map_frame_none(q) /\ ~map_page(q)
      /\ ~reuse(q) /\ ~reuse_enter(q) /\ ~reuse_put(q) /\ ~reuse_update(q)
    BY <1>1 DEF KindAt, At, map_lock, map_frame, map_frame_none, map_page, reuse, reuse_enter,
       reuse_put, reuse_update
<1> QED
    BY <1>2, <1>3 DEF step

\* Where they start.
LEMMA AccessLabels ==
    ASSUME NEW q \in Proc
    PROVE  /\ victim(q) => job[q].pc = "victim"
           /\ slot(q) \/ slot_none_getpage(q) => job[q].pc = "slot"
           /\ evict(q) => job[q].pc = "evict"
           /\ getpage(q) => job[q].pc = "getpage"
           /\ frame(q) \/ frame_none(q) => job[q].pc = "frame"
           /\ enter(q) => job[q].pc = "enter"
           /\ found(q) => job[q].pc = "found"
           /\ touch(q) => job[q].pc = "touch"
           /\ update(q) => job[q].pc = "update"
BY DEF At, victim, slot, slot_none_getpage, evict, getpage, frame, frame_none, enter, found, touch,
   update

\* An instruction is about the same number of pages to its end.
LEMMA StepSize ==
    ASSUME BaseInv, NEW q \in Proc, step(q)
    PROVE  job'[q].size = job[q].size /\ Active' = Active
<1>0. job[q] \in Jobs /\ JobType /\ job \in [Proc -> Jobs]
    BY JobParts DEF BaseInv, JobType
<1>1. /\ \A r \in Proc : r # q => job'[r] = job[r]
      /\ Busy(q) /\ (GoesOn(q) \/ Ends(q))
    BY StepJob
<1>2. Active' = Active
    BY <1>1 DEF Active, Busy, GoesOn, Ends
<1>3. ASSUME NEW r, Continue(q, r), r.size = job[q].size PROVE job'[q].size = job[q].size
  <2>1. CASE r.pc = "done"
    <3>1. job'[q] = [Resting EXCEPT !.pc = "done", !.size = r.size]
      BY <1>0, <1>3, <2>1, ContinueJob
    <3> QED
      BY <1>3, <3>1 DEF Resting
  <2>2. CASE r.pc # "done"
    BY <1>0, <1>3, <2>2, ContinueJob
  <2> QED
    BY <2>1, <2>2
<1>4. CASE Ends(q)
  <2>1. job'[q].pc = "done"
    BY <1>4 DEF Ends
  <2>2. Label(q)
    BY StepLabel
  <2>3. CASE slot_none_getpage(q)
    <3> DEFINE r == [job[q] EXCEPT !.pc = AfterAccess(q), !.pages = Rest(q), !.vic = NoNode, !.tgtfpn = 0]
    <3>1. r.size = job[q].size
      BY <1>0 DEF Jobs
    <3>2. Continue(q, r)
      BY <2>3 DEF slot_none_getpage
    <3> HIDE DEF r
    <3> QED
      BY <1>2, <1>3, <3>1, <3>2
  <2>4. CASE touch(q)
    <3> DEFINE r == [job[q] EXCEPT !.pc = AfterAccess(q), !.pages = Rest(q), !.fpn = 0]
    <3>1. r.size = job[q].size
      BY <1>0 DEF Jobs
    <3>2. Continue(q, r)
      BY <2>4 DEF touch
    <3> HIDE DEF r
    <3> QED
      BY <1>2, <1>3, <3>1, <3>2
  <2>5. CASE update(q) \/ slot_none_reuse(q)
    <3> DEFINE r == [job[q] EXCEPT !.pc = "done"]
    <3>1. r.size = job[q].size
      BY <1>0 DEF Jobs
    <3>2. Continue(q, r)
      BY <2>5 DEF update, slot_none_reuse
    <3> HIDE DEF r
    <3> QED
      BY <1>2, <1>3, <3>1, <3>2
  <2>6. CASE map_page(q)
    <3> DEFINE n == Len(job[q].frm_lst)
               r == [job[q] EXCEPT !.frm_lst = SubSeq(@, 1, n - 1),
                                   !.pc = IF n = 1 THEN "done" ELSE "map_page"]
    <3>1. r.size = job[q].size
      BY <1>0 DEF Jobs
    <3>2. Continue(q, r)
      BY <2>6 DEF map_page
    <3> HIDE DEF r
    <3> QED
      BY <1>2, <1>3, <3>1, <3>2
  <2>7. CASE reuse_update(q)
    <3> DEFINE r == [job[q] EXCEPT !.pc = IF Len(job[q].pages) = 1 THEN "done" ELSE "reuse",
                                   !.pages = Rest(q), !.tgtfpn = 0]
    <3>1. r.size = job[q].size
      BY <1>0 DEF Jobs
    <3>2. Continue(q, r)
      BY <2>7 DEF reuse_update
    <3> HIDE DEF r
    <3> QED
      BY <1>2, <1>3, <3>1, <3>2
  <2>8. AllocNext(q) # "done"
    BY DEF AllocNext
  <2> QED
    BY <2>1, <2>2, <2>3, <2>4, <2>5, <2>6, <2>7, <2>8 DEF Label, step
<1> QED
    BY <1>1, <1>2, <1>4 DEF GoesOn

\* A CPU spends a page when it asks for a frame, or finds the page in RAM.
LEMMA StepSpent ==
    ASSUME BaseInv, BaseInv', NEW q \in Proc, step(q), job[q].kind \in {"rw", "free"}
    PROVE  /\ Spent(q)' >= Spent(q)
           /\ victim(q) \/ frame(q) \/ (getpage(q) /\ Present(Current(q))) => Spent(q)' > Spent(q)
           /\ touch(q) /\ job'[q].pc = "update" => job'[q].pages = job[q].pages \/ Spent(q)' > Spent(q)
<1>0. SpentInv /\ SpentInv' /\ MaxPages \in Nat
    BY SpentFacts, SpentNext, Numbers
<1>1. Busy(q) /\ (GoesOn(q) \/ Ends(q)) /\ job'[q].size = job[q].size
    BY StepJob, StepSize
<1>2. Label(q) /\ Locals(q)
    BY StepLabel, StepLocals
<1>3. PICK n \in 0 .. MaxPages, a \in Nat : a \in 1 .. n /\ n = job[q].size /\ a = Len(job[q].pages)
    BY <1>0, <1>1 DEF SpentInv
<1>a. PICK b \in Nat : b = n - a
    BY <1>0, <1>3
<1>b. b + 0 = b /\ b + 1 > b /\ b + 1 >= b /\ b >= b /\ b + 1 >= b + 1 /\ b + 2 > b + 1 /\ b + 2 > b
    OBVIOUS
<1>4. /\ job[q].pc \in Chosen => Spent(q) = b + 1
      /\ job[q].pc \notin Chosen => Spent(q) = b
  <2>1. Spent(q) = b + (IF job[q].pc \in Chosen THEN 1 ELSE 0)
    BY <1>1, <1>3, <1>a DEF Spent, Busy
  <2> QED
    BY <1>b, <2>1
<1>5. Spent(q) \in 0 .. n
    BY <1>0, <1>3 DEF SpentInv
<1>6. CASE Ends(q)
  <2>1. Spent(q)' = n
    BY <1>1, <1>3, <1>6 DEF Ends, Spent
  <2>2. AfterAccess(q) \in {"update", "done", "getpage"}
    BY DEF AfterAccess
  <2>3. ~victim(q) /\ ~frame(q) /\ ~getpage(q) /\ job'[q].pc # "update"
    BY <1>2, <1>6 DEF Ends, Label
  <2> QED
    BY <1>5, <2>1, <2>3
<1>7. CASE GoesOn(q) /\ job'[q].pages = job[q].pages
  <2>1. /\ job'[q].pc \in Chosen => Spent(q)' = b + 1
        /\ job'[q].pc \notin Chosen => Spent(q)' = b
    <3>1. Spent(q)' = b + (IF job'[q].pc \in Chosen THEN 1 ELSE 0)
      BY <1>1, <1>3, <1>a, <1>7 DEF Spent, GoesOn
    <3> QED
      BY <1>b, <3>1
  <2>2. ASSUME job[q].pc \in Chosen PROVE job'[q].pc \in Chosen
    <3>1. CASE slot_none_getpage(q) \/ touch(q)
      <4>1. job'[q].pages = Rest(q)
        BY <1>2, <1>7, <3>1 DEF Locals, GoesOn
      <4>2. a = 1
        <5>1. CASE a # 1
          <6>1. Rest(q) = Tail(job[q].pages)
            BY <1>3, <5>1 DEF Rest
          <6>2. job[q].pages \in Seq(Page) /\ job[q].pages # << >>
            BY <1>1, JobParts
          <6>3. Len(Tail(job[q].pages)) = a - 1
            BY <1>3, <6>2, TailFacts
          <6>4. job[q].pages = Tail(job[q].pages)
            BY <1>7, <4>1, <6>1
          <6>5. a = a - 1
            BY <1>3, <6>3, <6>4
          <6> QED
            BY <6>5
        <5> QED
          BY <5>1
      <4>3. AfterAccess(q) \in {"update", "done"}
        BY <1>3, <4>2 DEF AfterAccess
      <4> QED
        BY <1>2, <1>7, <3>1, <4>3 DEF Label, GoesOn, Chosen
    <3>2. CASE ~slot_none_getpage(q) /\ ~touch(q)
      <4>1. slot(q) \/ evict(q) \/ enter(q) \/ found(q) \/ update(q)
        BY <2>2, <3>2, AccessSteps, AccessLabels DEF Chosen
      <4> QED
        BY <1>2, <1>7, <4>1 DEF Label, GoesOn, Chosen
    <3> QED
      BY <3>1, <3>2
  <2>3. ASSUME victim(q) \/ frame(q) \/ (getpage(q) /\ Present(Current(q)))
        PROVE  job[q].pc \notin Chosen /\ job'[q].pc \in Chosen
    BY <1>2, <2>3, AccessLabels DEF Label, Chosen
  <2> QED
    BY <1>4, <1>7, <1>b, <2>1, <2>2, <2>3
<1>8. CASE GoesOn(q) /\ Len(job[q].pages) > 1 /\ job'[q].pages = Tail(job[q].pages)
  <2>1. job[q].pages \in Seq(Page) /\ job[q].pages # << >>
    BY <1>1, JobParts
  <2>2. Len(job'[q].pages) = a - 1
    BY <1>3, <1>8, <2>1, TailFacts
  <2>3. /\ job'[q].pc \in Chosen => Spent(q)' = b + 2
        /\ job'[q].pc \notin Chosen => Spent(q)' = b + 1
    <3>1. Spent(q)' = n - (a - 1) + (IF job'[q].pc \in Chosen THEN 1 ELSE 0)
      BY <1>1, <1>3, <1>8, <2>2 DEF Spent, GoesOn
    <3>a. \A k, l \in Nat : k - (l - 1) + 1 = (k - l) + 2 /\ k - (l - 1) + 0 = (k - l) + 1
      OBVIOUS
    <3>b. n \in Nat /\ a \in Nat
      BY <1>0, <1>3
    <3>2. n - (a - 1) + 1 = b + 2 /\ n - (a - 1) + 0 = b + 1
      BY <1>a, <3>a, <3>b
    <3> QED
      BY <3>1, <3>2
  <2>4. job'[q].pages # job[q].pages
    BY <1>3, <2>2
  <2>5. ~victim(q) /\ ~frame(q) /\ ~getpage(q)
    BY <1>2, <2>4 DEF Locals
  <2>6. job'[q].pc = "update" => job'[q].pc \in Chosen
    BY DEF Chosen
  <2> QED
    BY <1>4, <1>b, <2>3, <2>5, <2>6
<1> QED
    BY <1>1, <1>6, <1>7, <1>8 DEF GoesOn

-----------------------------------------------------------------------------
(* The page of p does not become a victim *)

\* Multiplication keeps the order.
LEMMA Monotone ==
    ASSUME NEW a \in Nat, NEW b \in Nat, NEW m \in Nat, a <= b
    PROVE  a * m <= b * m
<1>1. PICK d \in Nat : b = a + d
  <2>1. b - a \in Nat /\ b = a + (b - a)
    OBVIOUS
  <2> QED
    BY <2>1
<1>2. (a + d) * m = a * m + d * m
    OBVIOUS
<1>3. a * m \in Nat /\ d * m \in Nat
    OBVIOUS
<1> QED
    BY <1>1, <1>2, <1>3

\* As long as one of the other CPUs has a page to ask for, they have spent less
\* than all frames but that of p's page.
LEMMA TokensBound ==
    ASSUME BaseInv, CpuInv, NEW p \in Proc, NEW q \in Proc, p # q, job[p].pc # "idle", Roomy(p),
           Busy(q), job[q].pc \notin Chosen
    PROVE  Cardinality(Tokens(p)) + 1 < NFrames
<1> DEFINE A == Active \ {p}
           S == {job[r].size : r \in A}
<1>1. SpentInv /\ MaxPages \in Nat /\ NCPU \in Nat \ {0} /\ NFrames \in Nat
    BY SpentFacts, Numbers
<1>2. p \in Active /\ q \in A
    BY DEF Active, Busy
<1>3. S \subseteq 0 .. MaxPages /\ S # {}
    BY <1>1, <1>2 DEF SpentInv, Active
<1>4. PICK m \in S : \A s \in S : s <= m
    BY <1>1, <1>3, Greatest
<1>5. m \in Nat /\ m <= MaxPages
    BY <1>1, <1>3, <1>4
<1>6. NFrames > (NCPU - 1) * m
  <2>1. PICK r \in A : m = job[r].size
    BY <1>4
  <2> QED
    BY <2>1 DEF Roomy, Active
<1>7. \A r \in A : r \in Proc /\ Spent(r) \in Nat /\ Spent(r) <= m
  <2>1. ASSUME NEW r \in A PROVE r \in Proc /\ Spent(r) \in Nat /\ Spent(r) <= m
    <3>1. r \in Proc /\ job[r].size \in S
      BY DEF Active
    <3>2. Spent(r) \in 0 .. job[r].size /\ job[r].size \in 0 .. MaxPages /\ job[r].size <= m
      BY <1>1, <1>4, <3>1 DEF SpentInv
    <3> QED
      BY <1>1, <1>5, <3>1, <3>2
  <2> QED
    BY <2>1
<1>8. Spent(q) < m /\ 1 <= m
  <2>1. Spent(q) < job[q].size /\ Spent(q) \in 0 .. job[q].size /\ job[q].size \in 0 .. MaxPages
    BY <1>1 DEF SpentInv
  <2>2. job[q].size <= m
    BY <1>2, <1>4
  <2> QED
    BY <1>1, <1>5, <2>1, <2>2
<1>9. IsFiniteSet(Active) /\ IsFiniteSet(A) /\ Cardinality(A) = Cardinality(Active) - 1
  <2>1. IsFiniteSet(Active)
    BY CountedFinite
  <2> QED
    BY <1>2, <2>1, FS_RemoveElement
<1>10. Cardinality(A) \in Nat /\ Cardinality(A) <= NCPU - 1
  <2>1. Cardinality(A) \in Nat /\ Cardinality(Active) \in Nat
    BY <1>9, FS_CardinalityType
  <2> QED
    BY <1>1, <1>9, <2>1 DEF CpuInv
<1> DEFINE P == A \X (1 .. m)
<1>11. IsFiniteSet(P) /\ Cardinality(P) = Cardinality(A) * m
  <2>1. IsFiniteSet(1 .. m) /\ Cardinality(1 .. m) = m
    BY <1>5, <1>8, FS_Interval
  <2> HIDE DEF A
  <2> QED
    BY <1>9, <2>1, FS_Product
<1>12. <<q, m>> \in P
    BY <1>2, <1>5, <1>8
<1>13. Tokens(p) \subseteq P \ {<<q, m>>}
  <2> SUFFICES ASSUME NEW t \in Tokens(p) PROVE t \in P /\ t # <<q, m>>
    OBVIOUS
  <2>1. PICK r \in Proc, k \in 1 .. MaxPages : t = <<r, k>> /\ r # p /\ k <= Spent(r)
    BY DEF Tokens
  <2>2. r \in A
    <3>1. CASE job[r].pc = "idle"
      <4>1. Spent(r) = 0
        BY <3>1 DEF Spent
      <4> QED
        BY <1>1, <2>1, <4>1
    <3> QED
      BY <2>1, <3>1 DEF Active
  <2>3. Spent(r) \in Nat /\ Spent(r) <= m
    BY <1>7, <2>2
  <2>4. k \in 1 .. m
    BY <1>1, <1>5, <2>1, <2>3
  <2>5. ~(r = q /\ k = m)
    BY <1>5, <1>8, <2>1, <2>3
  <2> QED
    BY <2>1, <2>2, <2>4, <2>5
<1>14. Cardinality(Tokens(p)) + 1 <= Cardinality(P)
    <2> HIDE DEF P
    <2> QED
      BY <1>11, <1>12, <1>13, LoseOne
<1>15. Cardinality(A) * m <= (NCPU - 1) * m
  <2>1. NCPU - 1 \in Nat
    BY <1>1
  <2> HIDE DEF A
  <2> QED
    BY <1>5, <1>10, <2>1, Monotone
<1>16. Cardinality(A) * m \in Int /\ (NCPU - 1) * m \in Int /\ Cardinality(Tokens(p)) \in Nat
  <2> HIDE DEF A
  <2> QED
    BY <1>1, <1>5, <1>10, CountedFinite, FS_CardinalityType
<1> HIDE DEF A, P
<1> QED
    BY <1>1, <1>6, <1>11, <1>14, <1>15, <1>16

\* CPU q finds the node of another page at the head of the list.
LEMMA HeadSafe ==
    ASSUME BaseInv, MemInv, CpuInv, NEW p \in Proc, NEW q \in Proc, p # q,
           job[p].pc = "touch", Roomy(p), Kept(p), Counted(p),
           job[q].pc = "victim", job[q].kind \in {"rw", "free"}
    PROVE  lru # << >> /\ Head(lru).page # Current(p)
<1>1. lru \in Seq(Node) /\ mram_free \in Seq(Frames)
    BY DEF BaseInv, StateType
<1>2. lru # << >>
    BY <1>1 DEF Counted, Listed
<1>3. ASSUME Head(lru).page = Current(p) PROVE FALSE
  <2>1. Len(lru) \in Nat \ {0} /\ lru[1].page = Current(p) /\ 1 \in 1 .. Len(lru)
    BY <1>1, <1>2, <1>3, TailFacts
  <2>2. \A j \in 1 .. Len(lru) : lru[j].page = Current(p) => j = 1
    BY <2>1 DEF MemInv, LruInv
  <2>3. \A f : ~FrameAhead(lru, f, Current(p))
    <3>1. \A i \in 1 .. Len(lru) : ~(i < 1)
      BY <2>1
    <3> QED
      BY <2>2, <3>1 DEF FrameAhead
  <2>4. mram_free = << >>
    BY DEF MemInv, VictimInv
  <2>5. job[p].fpn \in Frames
    <3>1. Busy(p)
      BY DEF Busy
    <3>2. Current(p) \in Page
      BY <3>1, JobParts
    <3> QED
      BY <3>2 DEF MemInv, PresentInv, Kept
  <2>6. Taken(p) = Frames \ {job[p].fpn}
    BY <2>3, <2>4 DEF Taken
  <2>a. Cardinality(Frames \ {job[p].fpn}) = Cardinality(Frames) - 1
    BY <2>5, Numbers, FS_RemoveElement
  <2>7. Cardinality(Taken(p)) = NFrames - 1
    BY <2>6, <2>a, Numbers
  <2>8. Cardinality(Tokens(p)) + 1 < NFrames
    BY TokensBound DEF Busy, Chosen
  <2>9. Cardinality(Taken(p)) + Cardinality(Due(p)) <= Cardinality(Tokens(p))
    BY DEF Counted
  <2>10. Cardinality(Due(p)) \in Nat /\ Cardinality(Tokens(p)) \in Nat
    BY CountedFinite, FS_CardinalityType
  <2> QED
    BY <2>7, <2>8, <2>9, <2>10, Numbers
<1> QED
    BY <1>2, <1>3

-----------------------------------------------------------------------------
(* The page of p has just been moved to the end of the list *)

\* The frame that a CPU has in hand.
FrameOf(s) == IF job[s].pc = "found" THEN pgd[Current(s)].low ELSE job[s].vic.fpn

\* CPUs that have spent something.
LEMMA TokensAtLeast ==
    ASSUME BaseInv, NEW p \in Proc, NEW X, X \subseteq Proc \ {p}, \A q \in X : job[q].pc \in Chosen
    PROVE  Cardinality(X) <= Cardinality(Tokens(p))
<1>1. IsFiniteSet(X) /\ Cardinality(X) \in Nat
    BY Numbers, FS_Subset, FS_CardinalityType
<1>2. IsFiniteSet({1}) /\ Cardinality({1}) = 1
    BY FS_Singleton
<1>3. Cardinality(X \X {1}) = Cardinality(X)
    BY <1>1, <1>2, FS_Product
<1>4. X \X {1} \subseteq Tokens(p)
  <2> SUFFICES ASSUME NEW q \in X PROVE <<q, 1>> \in Tokens(p)
    OBVIOUS
  <2>1. q \in Proc /\ q # p /\ Spent(q) >= 1
    BY SpentFacts DEF SpentInv
  <2>2. 1 \in 1 .. MaxPages /\ 1 <= Spent(q)
    <3>1. Spent(q) \in 0 .. job[q].size /\ job[q].size \in 0 .. MaxPages
      BY <2>1, SpentFacts DEF SpentInv
    <3> QED
      BY <2>1, <3>1, Numbers
  <2> QED
    BY <2>1, <2>2 DEF Tokens
<1> QED
    BY <1>3, <1>4, CountedFinite, FS_Subset

Refreshed(p) ==
    /\ job[p].pc = "touch" /\ Kept(p) /\ ~Exhausted
    /\ lru # << >> /\ lru[Len(lru)].page = Current(p)

\* Every frame but that of p is then free, ahead of it on the list, or in the hands of
\* the one CPU that is inside pg_getpage.
LEMMA OneInHand ==
    ASSUME IInv, ~crashed, NEW p \in Proc, Refreshed(p), NEW f \in Taken(p)
    PROVE  \E s \in Proc \ {p} :
              s \notin Due(p) /\ job[s].pc \in Chosen /\ Critical(s) /\ f = FrameOf(s)
<1> DEFINE c == Current(p)
           n == Len(lru)
           Goal == \E s \in Proc \ {p} :
              s \notin Due(p) /\ job[s].pc \in Chosen /\ Critical(s) /\ f = FrameOf(s)
<1>0. /\ BaseInv /\ ClassInv /\ MemInv /\ lru \in Seq(Node) /\ n \in Nat \ {0} /\ n \in 1 .. n
      /\ job[p].pc = "touch" /\ Kept(p) /\ ~Exhausted /\ lru[n].page = c
    BY DEF IInv, BaseInv, StateType, Refreshed
<1>1. /\ f \in Frames /\ f # job[p].fpn /\ ~FrameAhead(lru, f, c)
      /\ \A i \in 1 .. Len(mram_free) : mram_free[i] # f
    BY DEF Taken
<1>2. Busy(p) /\ job[p].kind \in {"rw", "free"}
    BY <1>0 DEF Busy, BaseInv, KindInv
<1>3. ASSUME NEW i \in 1 .. n, pgd[lru[i].page].low = f PROVE FALSE
  <2>1. lru[i].fpn = f
    BY <1>0, <1>3 DEF MemInv, LruInv
  <2>2. i # n
    BY <1>0, <1>1, <1>3 DEF Kept
  <2>3. i < n
    BY <1>0, <2>2
  <2> QED
    BY <1>0, <1>1, <2>1, <2>3 DEF FrameAhead
<1>4. ASSUME NEW s \in Proc, Busy(s), s # p PROVE job[s].kind \in {"rw", "free"}
  <2>1. Class(job[s].kind) = Class(job[p].kind) /\ job[s].kind # "reuse"
    BY <1>0, <1>2, <1>4 DEF ClassInv
  <2>2. job[s].kind \in Kinds
    BY <1>0, JobParts
  <2> QED
    BY <1>2, <2>1, <2>2 DEF Class, Kinds
<1>5. ASSUME NEW s \in Proc, job[s].pc \in {"slot", "evict", "enter"}, job[s].vic.fpn = f PROVE Goal
  <2>1. s # p /\ Critical(s) /\ job[s].pc \in Chosen /\ FrameOf(s) = f
    BY <1>0, <1>5 DEF Critical, Busy, Chosen, FrameOf
  <2>2. s \notin Due(p)
    BY <1>5 DEF Due
  <2> QED
    BY <2>1, <2>2
<1>6. ASSUME NEW pg \in Page, Present(pg), pgd[pg].low = f PROVE Goal
  <2>1. Known(pg)
    BY <1>0, <1>6 DEF MemInv, CoverInv, Exhausted
  <2>2. CASE \E i \in 1 .. Len(lru) : lru[i].page = pg
    BY <1>3, <1>6, <2>2
  <2>3. ASSUME NEW s \in Proc, Evicting(s), job[s].vic.page = pg PROVE Goal
    <3>1. job[s].vic.fpn = f
      BY <1>0, <1>6, <2>3 DEF MemInv, VictimInv
    <3>2. job[s].pc \in {"slot", "evict", "enter"}
      BY <2>3 DEF Evicting
    <3> QED
      BY <1>5, <3>1, <3>2
  <2>4. ASSUME NEW s \in Proc, job[s].pc = "found", Current(s) = pg PROVE Goal
    <3>1. s # p /\ Critical(s) /\ job[s].pc \in Chosen /\ FrameOf(s) = f
      BY <1>0, <1>6, <2>4 DEF Critical, Busy, Chosen, FrameOf
    <3>2. ~Ahead(lru, pg, c)
      BY <1>3, <1>6 DEF Ahead
    <3>3. s \notin Due(p)
      BY <2>4, <3>2 DEF Due
    <3> QED
      BY <3>1, <3>3
  <2> HIDE DEF Goal
  <2> QED
    BY <2>1, <2>2, <2>3, <2>4 DEF Known
<1>7. ASSUME NEW s \in Proc, HoldsFrame(s), job[s].vic.fpn = f PROVE Goal
  <2>1. job[s].pc # "reuse_enter"
    BY <1>0, <1>4, <1>7 DEF BaseInv, KindInv, Busy
  <2> QED
    BY <1>5, <1>7, <2>1 DEF HoldsFrame
<1>8. ASSUME NEW s \in Proc, NEW i \in 1 .. Len(job[s].frm_lst) PROVE FALSE
  <2>1. job[s].frm_lst # << >>
    BY <1>8
  <2>2. job[s].kind = "map" /\ job[s].pc \in {"map_frame", "victim", "slot", "evict", "map_page"}
    BY <1>0, <2>1 DEF BaseInv, ListInv
  <2>3. Busy(s) /\ s # p
    BY <1>0, <2>2 DEF Busy
  <2> QED
    BY <1>4, <2>2, <2>3
<1>9. \/ \E pg \in Page : Present(pg) /\ pgd[pg].low = f
      \/ \E s \in Proc : HoldsFrame(s) /\ job[s].vic.fpn = f
    BY <1>0, <1>1, <1>8 DEF MemInv, OwnedInv
<1> HIDE DEF Goal
<1>10. Goal
    BY <1>6, <1>7, <1>9
<1> QED
    BY <1>10 DEF Goal

RefreshInv == \A p \in Proc : Refreshed(p) => Counted(p)

\* The count starts anew.
LEMMA RefreshFacts == IInv /\ ~crashed => RefreshInv
<1> SUFFICES ASSUME IInv, ~crashed, NEW p \in Proc, Refreshed(p) PROVE Counted(p)
    BY DEF RefreshInv
<1>0. BaseInv /\ ClassInv /\ lru \in Seq(Node)
    BY DEF IInv, BaseInv, StateType
<1>1. Listed(lru, Current(p))
  <2>1. Len(lru) \in 1 .. Len(lru) /\ lru[Len(lru)].page = Current(p)
    BY <1>0 DEF Refreshed
  <2> QED
    BY <2>1 DEF Listed
<1>2. Due(p) \subseteq Proc \ {p} /\ \A q \in Due(p) : job[q].pc \in Chosen
    BY DEF Due, Chosen
<1>3. /\ IsFiniteSet(Due(p)) /\ Cardinality(Due(p)) \in Nat
      /\ IsFiniteSet(Tokens(p)) /\ Cardinality(Tokens(p)) \in Nat
    BY CountedFinite, FS_CardinalityType
<1>4. CASE Taken(p) = {}
  <2>1. Cardinality(Taken(p)) = 0
    BY <1>4, FS_EmptySet
  <2>2. Cardinality(Due(p)) <= Cardinality(Tokens(p))
    BY <1>0, <1>2, TokensAtLeast
  <2> QED
    BY <1>1, <1>3, <2>1, <2>2 DEF Counted
<1>5. CASE Taken(p) # {}
  <2>1. PICK f \in Taken(p) : TRUE
    BY <1>5
  <2>2. PICK s \in Proc \ {p} :
            s \notin Due(p) /\ job[s].pc \in Chosen /\ Critical(s) /\ f = FrameOf(s)
    BY <2>1, OneInHand
  <2>3. ASSUME NEW g \in Taken(p) PROVE g = f
    <3>1. PICK r \in Proc \ {p} : Critical(r) /\ g = FrameOf(r)
      BY OneInHand
    <3>2. r = s
      BY <1>0, <2>2, <3>1, Alone
    <3> QED
      BY <2>2, <3>1, <3>2
  <2>4. Taken(p) = {f}
    BY <2>1, <2>3
  <2>5. Cardinality(Taken(p)) = 1
    BY <2>4, FS_Singleton
  <2>6. Cardinality(Due(p) \cup {s}) = Cardinality(Due(p)) + 1
    BY <1>3, <2>2, FS_AddElement
  <2>7. Cardinality(Due(p) \cup {s}) <= Cardinality(Tokens(p))
    <3>1. Due(p) \cup {s} \subseteq Proc \ {p} /\ \A q \in Due(p) \cup {s} : job[q].pc \in Chosen
      BY <1>2, <2>2
    <3> QED
      BY <1>0, <3>1, TokensAtLeast
  <2> QED
    BY <1>1, <1>3, <2>5, <2>6, <2>7 DEF Counted
<1> QED
    BY <1>4, <1>5

\* The same in the next state.
LEMMA RefreshNext == IInv' /\ ~crashed' => RefreshInv'
BY RefreshFacts, PTL

-----------------------------------------------------------------------------
(* A step of another CPU while p is at "touch" *)

\* CPU q is the only one that takes a step, and p is none.
OnlySteps(p, q) ==
    /\ p \in Proc /\ q \in Proc /\ p # q
    /\ \A r \in Proc : r # q => job'[r] = job[r]

\* What the list keeps ahead of p is not taken.
LEMMA TakenKept ==
    ASSUME NEW p, NEW q, OnlySteps(p, q), NEW x,
           Keeps(lru, lru', Current(p), x), mram_free' = mram_free
    PROVE  /\ Taken(p)' \subseteq Taken(p) \cup {x}
           /\ ~FrameAhead(lru, x, Current(p)) => Taken(p)' \subseteq Taken(p)
<1>1. job'[p] = job[p] /\ Current(p)' = Current(p)
    BY DEF OnlySteps, Current
<1>2. \A f : f # x /\ FrameAhead(lru, f, Current(p)) => FrameAhead(lru', f, Current(p))
    BY DEF Keeps
<1>3. Taken(p)' =
        {f \in Frames : /\ f # job[p].fpn
                        /\ \A i \in 1 .. Len(mram_free) : mram_free[i] # f
                        /\ ~FrameAhead(lru', f, Current(p))}
    BY <1>1 DEF Taken, FrameAhead
<1> QED
    BY <1>2, <1>3 DEF Taken

\* Due for one CPU.
DueAt(p, q) ==
    \/ job[q].pc = "found" /\ Ahead(lru, Current(q), Current(p))
    \/ job[q].pc \in {"touch", "update"} /\ ~Ahead(lru, Current(p), Current(q))

\* Of the other CPUs at most q becomes due.
LEMMA DueKept ==
    ASSUME NEW p, NEW q, OnlySteps(p, q), NEW x,
           Keeps(lru, lru', Current(p), x)
    PROVE  /\ Due(p)' \subseteq Due(p) \cup {q}
           /\ ~DueAt(p, q)' => Due(p)' \subseteq Due(p) \ {q}
<1>1. Current(p)' = Current(p) /\ q \in Proc
    BY DEF OnlySteps, Current
<1>2. \A r \in Due(p)' : r \in Proc \ {p} /\ DueAt(p, r)'
    BY DEF Due, DueAt
<1>3. ASSUME NEW r \in Proc \ {p}, r # q, DueAt(p, r)' PROVE DueAt(p, r)
  <2>1. job'[r] = job[r] /\ Current(r)' = Current(r)
    BY <1>3 DEF OnlySteps, Current
  <2>2. /\ Ahead(lru', Current(r), Current(p)) => Ahead(lru, Current(r), Current(p))
        /\ Ahead(lru, Current(p), Current(r)) => Ahead(lru', Current(p), Current(r))
    BY DEF Keeps
  <2>3. \/ job'[r].pc = "found" /\ Ahead(lru', Current(r)', Current(p)')
        \/ job'[r].pc \in {"touch", "update"} /\ ~Ahead(lru', Current(p)', Current(r)')
    BY <1>3 DEF DueAt, Ahead
  <2> QED
    BY <1>1, <2>1, <2>2, <2>3 DEF DueAt
<1>4. \A r \in Proc \ {p} : DueAt(p, r) => r \in Due(p)
    BY DEF Due, DueAt
<1> QED
    BY <1>2, <1>3, <1>4

\* The list does not change.
LEMMA KeepsSame ==
    ASSUME NEW l, NEW c, NEW x
    PROVE  Keeps(l, l, c, x)
BY DEF Keeps

\* A step of q keeps the count, if it spends a page whenever it takes a frame.
LEMMA CountStep ==
    ASSUME BaseInv, BaseInv', NEW p, NEW q, OnlySteps(p, q), NEW x,
           Counted(p), Listed(lru', Current(p)),
           Spent(q)' >= Spent(q),
           \/ Taken(p)' \subseteq Taken(p) /\ Due(p)' \subseteq Due(p)
           \/ Taken(p)' \subseteq Taken(p) \cup {x} /\ Due(p)' \subseteq Due(p) \ {q} /\ q \in Due(p)
           \/ /\ \/ Taken(p)' \subseteq Taken(p) \cup {x} /\ Due(p)' \subseteq Due(p)
                 \/ Taken(p)' \subseteq Taken(p) /\ Due(p)' \subseteq Due(p) \cup {q}
              /\ Spent(q)' > Spent(q)
    PROVE  Counted(p)'
<1>0. p \in Proc /\ q \in Proc /\ p # q /\ Current(p)' = Current(p)
    BY DEF OnlySteps, Current
<1>1. /\ Tokens(p) \subseteq Tokens(p)'
      /\ Spent(q)' > Spent(q) => \E k : k \in Tokens(p)' /\ k \notin Tokens(p)
    BY <1>0, TokensGrow DEF OnlySteps
<1>2. IsFiniteSet(Taken(p)) /\ IsFiniteSet(Due(p)) /\ IsFiniteSet(Tokens(p)')
    BY <1>0, CountedFinite
<1>3. Cardinality(Taken(p)) + Cardinality(Due(p)) <= Cardinality(Tokens(p))
    BY DEF Counted
<1>4. PICK T, D, K, T1, D1, K1 :
         /\ T = Taken(p) /\ D = Due(p) /\ K = Tokens(p)
         /\ T1 = Taken(p)' /\ D1 = Due(p)' /\ K1 = Tokens(p)'
    OBVIOUS
<1>5. Cardinality(T1) + Cardinality(D1) <= Cardinality(K1)
  <2>1. Shift(T, D, K, T1, D1, K1, x, q)
    BY <1>1, <1>4 DEF Shift
  <2>2. /\ IsFiniteSet(T) /\ IsFiniteSet(D) /\ IsFiniteSet(K1) /\ K \subseteq K1
        /\ Cardinality(T) + Cardinality(D) <= Cardinality(K)
    BY <1>1, <1>2, <1>3, <1>4
  <2> QED
    BY <2>1, <2>2, Balance
<1>6. Listed(lru, Current(p))'
    BY <1>0 DEF Listed
<1> QED
    BY <1>4, <1>5, <1>6 DEF Counted

\* The list stays as it is, and no frame is taken from the free list.
LEMMA SameListStep ==
    ASSUME BaseInv, BaseInv', NEW p, NEW q, OnlySteps(p, q), Counted(p),
           lru' = lru, mram_free' = mram_free, Spent(q)' >= Spent(q),
           (DueAt(p, q)' => DueAt(p, q)) \/ Spent(q)' > Spent(q)
    PROVE  Counted(p)'
<1>1. Keeps(lru, lru', Current(p), 0) /\ Listed(lru', Current(p))
    BY KeepsSame DEF Counted
<1>2. Taken(p)' \subseteq Taken(p)
  <2>1. Current(p)' = Current(p) /\ job'[p] = job[p]
    BY DEF OnlySteps, Current
  <2> QED
    BY <2>1 DEF Taken, FrameAhead
<1>3. Due(p)' \subseteq Due(p) \cup {q} /\ (~DueAt(p, q)' => Due(p)' \subseteq Due(p) \ {q})
    BY <1>1, DueKept
<1>4. DueAt(p, q) => q \in Due(p)
    BY DEF Due, DueAt, OnlySteps
<1>5. CASE Spent(q)' > Spent(q)
    BY <1>1, <1>2, <1>3, <1>5, CountStep
<1>6. CASE DueAt(p, q)' => DueAt(p, q)
  <2>1. Due(p)' \subseteq Due(p)
    BY <1>3, <1>4, <1>6
  <2> QED
    BY <1>1, <1>2, <2>1, CountStep
<1> QED
    BY <1>5, <1>6

\* What a step of another CPU is while p is at "touch".
LEMMA OtherAccess ==
    ASSUME BaseInv, ClassInv, NEW p \in Proc, NEW q \in Proc, p # q, job[p].pc = "touch", step(q)
    PROVE  /\ OnlySteps(p, q) /\ job[q].kind \in {"rw", "free"} /\ Busy(p) /\ Busy(q)
           /\ job'[p] = job[p] /\ Current(p)' = Current(p)
           /\ Current(p) \in Page /\ Current(q) \in Page /\ Current(p) # Current(q)
           /\ pgd[Current(q)].low \in 0 .. FPN_MOD - 1
<1>1. Busy(p) /\ Busy(q) /\ OnlySteps(p, q)
    BY StepJob DEF Busy, OnlySteps
<1>2. job[q].kind \in {"rw", "free"}
  <2>1. Class(job[q].kind) = Class(job[p].kind) /\ job[q].kind # "reuse"
    BY <1>1 DEF ClassInv
  <2>2. job[q].kind \in Kinds /\ job[p].kind \in {"rw", "free"}
    BY JobParts DEF BaseInv, KindInv
  <2> QED
    BY <2>1, <2>2 DEF Class, Kinds
<1>3. job'[p] = job[p] /\ Current(p)' = Current(p)
    BY <1>1 DEF OnlySteps, Current
<1>4. /\ Current(p) \in Page /\ Current(q) \in Page /\ Current(p)[1] = p /\ Current(q)[1] = q
      /\ pgd[Current(q)].low \in 0 .. FPN_MOD - 1
    BY <1>1, JobParts
<1> QED
    BY <1>1, <1>2, <1>3, <1>4

\* The page of p stays where it is.
LEMMA KeptStep ==
    ASSUME BaseInv, ClassInv, MemInv, NEW p \in Proc, NEW q \in Proc, p # q, job[p].pc = "touch",
           step(q), Kept(p), Exhausted \/ Listed(lru, Current(p))
    PROVE  Kept(p)'
<1>0. /\ job[q].kind \in {"rw", "free"} /\ job'[p] = job[p] /\ Current(p)' = Current(p)
      /\ Current(p) \in Page /\ Current(q) \in Page /\ Current(p) # Current(q)
    BY OtherAccess
<1>1. pgd \in [Page -> Pte]
    BY DEF BaseInv, StateType
<1>2. SUFFICES pgd'[Current(p)] = pgd[Current(p)]
    BY <1>0 DEF Kept, Present
<1>3. CASE evict(q)
  <2>1. job[q].pc = "evict" /\ job[q].vic # NoNode
    BY <1>3, AccessLabels DEF MemInv, VictimInv
  <2>2. Listed(lru, Current(p))
    BY <2>1 DEF Exhausted, SlotOut
  <2>3. job[q].vic.page # Current(p)
    BY <2>1, <2>2 DEF MemInv, VictimInv, Evicting, Listed
  <2> QED
    BY <1>0, <1>1, <1>3, <2>3 DEF evict
<1>4. CASE frame(q)
    BY <1>0, <1>1, <1>4 DEF frame
<1>5. CASE enter(q)
    BY <1>0, <1>1, <1>5 DEF enter
<1>6. ~reuse_enter(q) /\ ~map_page(q)
    BY <1>0 DEF reuse_enter, map_page, At, BaseInv, KindInv
<1>7. CASE ~evict(q) /\ ~frame(q) /\ ~enter(q)
    BY <1>6, <1>7, OtherEntry
<1> QED
    BY <1>3, <1>4, <1>5, <1>7

\* Without slots it stays so.
LEMMA ExhaustedStep ==
    ASSUME BaseInv, NEW q \in Proc, job[q].kind \in {"rw", "free"}, step(q), Exhausted
    PROVE  Exhausted'
<1>1. mswp_free = << >> /\ \A r \in Proc : job[r].pc \notin {"evict", "enter", "reuse_enter", "reuse_put"}
    BY DEF Exhausted, SlotOut
<1>2. \A r \in Proc : r # q => job'[r] = job[r]
    BY StepJob
<1>3. ~slot(q) /\ ~evict(q) /\ ~enter(q)
    BY <1>1, AccessLabels DEF slot
<1>4. ~reuse_put(q) /\ ~reuse_enter(q)
    BY <1>1 DEF reuse_put, reuse_enter, At
<1>5. mswp_free' = << >>
    BY <1>1, <1>3, <1>4, StepFree
<1>6. Label(q) /\ AfterAccess(q) \in {"update", "done", "getpage"}
    BY StepLabel DEF AfterAccess
<1>7. job'[q].pc \notin {"evict", "enter", "reuse_enter", "reuse_put"}
    BY <1>3, <1>6, AccessSteps DEF Label
<1> QED
    BY <1>1, <1>2, <1>5, <1>7 DEF Exhausted, SlotOut

\* "Out of SWAP" of the only CPU that could be about to give a slot back.
LEMMA ExhaustedNow ==
    ASSUME BaseInv, ClassInv, NEW q \in Proc, slot_none_getpage(q)
    PROVE  Exhausted'
<1>1. step(q) /\ job[q].pc = "slot" /\ mswp_free = << >> /\ mswp_free' = mswp_free
    BY DEF step, slot_none_getpage, At
<1>2. Critical(q)
    BY <1>1 DEF Critical, Busy
<1>3. ASSUME NEW r \in Proc, r # q PROVE job'[r].pc \notin {"evict", "enter", "reuse_enter", "reuse_put"}
  <2>1. ~Critical(r) /\ job'[r] = job[r]
    BY <1>1, <1>2, <1>3, OthersQuiet, StepJob
  <2> QED
    BY <2>1, QuietFacts
<1>4. job'[q].pc \notin {"evict", "enter", "reuse_enter", "reuse_put"}
  <2>1. job'[q].pc = AfterAccess(q)
    BY StepLabel DEF Label
  <2> QED
    BY <2>1 DEF AfterAccess
<1> QED
    BY <1>1, <1>3, <1>4 DEF Exhausted, SlotOut

\* The node of a present page is that of its frame.
LEMMA FrameNode ==
    ASSUME BaseInv, MemInv, NEW pg \in Page, Present(pg), NEW i \in 1 .. Len(lru),
           lru[i].fpn = pgd[pg].low
    PROVE  lru[i].page = pg
<1>1. lru \in Seq(Node)
    BY DEF BaseInv, StateType
<1>2. lru[i] \in Node
    BY <1>1
<1>3. lru[i].page \in Page
    BY <1>2 DEF Node
<1> QED
    BY <1>3 DEF MemInv, LruInv, PresentInv

\* The steps of another CPU that leave the list alone.
LEMMA QuietSteps ==
    ASSUME BaseInv, BaseInv', ClassInv, MemInv, NEW p \in Proc, NEW q \in Proc, p # q,
           job[p].pc = "touch", Counted(p), step(q),
           slot(q) \/ evict(q) \/ getpage(q) \/ frame_none(q) \/ enter(q) \/ touch(q)
    PROVE  Counted(p)'
<1>0. OnlySteps(p, q) /\ job[q].kind \in {"rw", "free"} /\ Current(p)' = Current(p) /\ Current(q) \in Page
    BY OtherAccess
<1>1. lru' = lru /\ mram_free' = mram_free
    BY DEF slot, evict, getpage, frame_none, enter, touch
<1>2. /\ Spent(q)' >= Spent(q)
      /\ getpage(q) /\ Present(Current(q)) => Spent(q)' > Spent(q)
      /\ touch(q) /\ job'[q].pc = "update" => job'[q].pages = job[q].pages \/ Spent(q)' > Spent(q)
    BY <1>0, StepSpent
<1>3. Label(q) /\ Locals(q)
    BY StepLabel, StepLocals
<1>4. (DueAt(p, q)' => DueAt(p, q)) \/ Spent(q)' > Spent(q)
  <2>1. CASE slot(q) \/ evict(q) \/ frame_none(q)
    <3>1. job'[q].pc \notin {"found", "touch", "update"}
      BY <1>0, <1>3, <2>1 DEF Label
    <3> QED
      BY <3>1 DEF DueAt
  <2>2. CASE getpage(q)
    <3>1. CASE ~Present(Current(q))
      <4>1. job'[q].pc \notin {"found", "touch", "update"}
        BY <1>3, <2>2, <3>1 DEF Label
      <4> QED
        BY <4>1 DEF DueAt
    <3> QED
      BY <1>2, <2>2, <3>1
  <2>3. CASE enter(q)
    <3>1. job'[q].pc = "found" /\ Current(q)' = Current(q)
      BY <1>3, <2>3 DEF Label, Locals, Current
    <3>2. ~Present(Current(q))
      BY <2>3, AccessLabels DEF MemInv, NeedInv, Reading
    <3>3. ~Ahead(lru, Current(q), Current(p))
      BY <3>2 DEF Ahead, MemInv, LruInv
    <3> QED
      BY <1>0, <1>1, <3>1, <3>3 DEF DueAt, Ahead
  <2>4. CASE touch(q)
    <3>1. job[q].pc = "touch" /\ job'[q].pc \in {"update", "done", "getpage"}
      BY <1>3, <2>4, AccessLabels DEF Label, AfterAccess
    <3>2. CASE job'[q].pc = "update" /\ job'[q].pages = job[q].pages
      <4>1. Current(q)' = Current(q)
        BY <3>2 DEF Current
      <4> QED
        BY <1>0, <1>1, <3>1, <3>2, <4>1 DEF DueAt, Ahead
    <3>3. CASE job'[q].pc # "update"
      BY <3>1, <3>3 DEF DueAt
    <3> QED
      BY <1>2, <2>4, <3>2, <3>3
  <2> QED
    BY <2>1, <2>2, <2>3, <2>4
<1> QED
    BY <1>0, <1>1, <1>2, <1>4, SameListStep

\* A victim is taken from the head of the list.
LEMMA VictimStep ==
    ASSUME BaseInv, BaseInv', ClassInv, MemInv, CpuInv, NEW p \in Proc, NEW q \in Proc, p # q,
           job[p].pc = "touch", Roomy(p), Kept(p), Counted(p), step(q), victim(q)
    PROVE  Counted(p)'
<1>0. OnlySteps(p, q) /\ job[q].kind \in {"rw", "free"} /\ lru \in Seq(Node)
    BY OtherAccess DEF BaseInv, StateType
<1>1. lru # << >> /\ Head(lru).page # Current(p)
    BY <1>0, AccessLabels, HeadSafe
<1>2. lru' = Tail(lru) /\ mram_free' = mram_free
    BY <1>1 DEF victim
<1>3. PICK x : x = Head(lru).fpn
    OBVIOUS
<1>4. Keeps(lru, lru', Current(p), x)
    BY <1>0, <1>1, <1>2, <1>3, TailOrder
<1>5. Taken(p)' \subseteq Taken(p) \cup {x}
    BY <1>0, <1>2, <1>4, TakenKept
<1>6. job'[q].pc = "slot"
    BY StepLabel DEF Label
<1>7. Due(p)' \subseteq Due(p)
  <2>1. ~DueAt(p, q)'
    BY <1>6 DEF DueAt
  <2> QED
    BY <1>0, <1>4, <2>1, DueKept
<1>8. Spent(q)' > Spent(q) /\ Spent(q)' >= Spent(q)
    BY <1>0, StepSpent
<1>9. Listed(lru', Current(p))
    BY <1>4 DEF Keeps, Counted
<1> QED
    BY <1>0, <1>5, <1>7, <1>8, <1>9, CountStep

\* A free frame is used.
LEMMA FrameStep ==
    ASSUME BaseInv, BaseInv', ClassInv, MemInv, NEW p \in Proc, NEW q \in Proc, p # q,
           job[p].pc = "touch", Counted(p), step(q), frame(q)
    PROVE  Counted(p)'
<1>0. /\ OnlySteps(p, q) /\ job[q].kind \in {"rw", "free"} /\ mram_free \in Seq(Frames)
      /\ job'[p] = job[p] /\ Current(p)' = Current(p)
    BY OtherAccess DEF BaseInv, StateType
<1>1. lru' = lru /\ mram_free # << >> /\ mram_free' = Tail(mram_free)
    BY DEF frame
<1>2. Keeps(lru, lru', Current(p), 0) /\ Listed(lru', Current(p))
    BY <1>1, KeepsSame DEF Counted
<1>3. PICK x : x = Head(mram_free)
    OBVIOUS
<1>4. \A f : f # x /\ (\A i \in 1 .. Len(mram_free') : mram_free'[i] # f) =>
                \A j \in 1 .. Len(mram_free) : mram_free[j] # f
    BY <1>0, <1>1, <1>3, TailFacts
<1>5. Taken(p)' \subseteq Taken(p) \cup {x}
    BY <1>0, <1>1, <1>4 DEF Taken, FrameAhead
<1>6. job[q].pc = "frame" /\ job'[q].pc = "found" /\ Current(q)' = Current(q)
    BY AccessLabels, StepLabel, StepLocals DEF Label, Locals, Current
<1>7. Due(p)' \subseteq Due(p)
  <2>1. ~Present(Current(q))
    BY <1>6 DEF MemInv, NeedInv, Reading
  <2>2. ~Ahead(lru, Current(q), Current(p))
    BY <2>1 DEF Ahead, MemInv, LruInv
  <2>3. ~DueAt(p, q)'
    BY <1>0, <1>1, <1>6, <2>2 DEF DueAt, Ahead
  <2> QED
    BY <1>0, <1>2, <2>3, DueKept
<1>8. Spent(q)' > Spent(q) /\ Spent(q)' >= Spent(q)
    BY <1>0, StepSpent
<1> QED
    BY <1>0, <1>2, <1>5, <1>7, <1>8, CountStep

\* A node other than that of p's page is moved to the end of the list.
LEMMA MoveStep ==
    ASSUME BaseInv, BaseInv', NEW p, NEW q, OnlySteps(p, q), Counted(p),
           NEW x, Keeps(lru, lru', Current(p), x), mram_free' = mram_free,
           Spent(q)' >= Spent(q), ~DueAt(p, q)',
           DueAt(p, q) \/ ~FrameAhead(lru, x, Current(p))
    PROVE  Counted(p)'
<1>1. /\ Taken(p)' \subseteq Taken(p) \cup {x}
      /\ ~FrameAhead(lru, x, Current(p)) => Taken(p)' \subseteq Taken(p)
    BY TakenKept
<1>2. Due(p)' \subseteq Due(p) \ {q}
    BY DueKept
<1>3. Listed(lru', Current(p))
    BY DEF Keeps, Counted
<1>4. CASE DueAt(p, q)
  <2>1. q \in Due(p)
    BY <1>4 DEF Due, DueAt, OnlySteps
  <2> QED
    BY <1>1, <1>2, <1>3, <2>1, CountStep
<1>5. CASE ~FrameAhead(lru, x, Current(p))
  <2>1. Taken(p)' \subseteq Taken(p) /\ Due(p)' \subseteq Due(p)
    BY <1>1, <1>2, <1>5
  <2> QED
    BY <1>3, <2>1, CountStep
<1> QED
    BY <1>4, <1>5

\* Another page is noted as used.
LEMMA FoundStep ==
    ASSUME BaseInv, BaseInv', ClassInv, MemInv, NEW p \in Proc, NEW q \in Proc, p # q,
           job[p].pc = "touch", Counted(p), step(q), found(q)
    PROVE  Counted(p)'
<1>0. /\ OnlySteps(p, q) /\ job[q].kind \in {"rw", "free"} /\ lru \in Seq(Node)
      /\ Current(p)' = Current(p) /\ Current(p) # Current(q) /\ Current(q) \in Page
      /\ pgd[Current(q)].low \in 0 .. FPN_MOD - 1
    BY OtherAccess DEF BaseInv, StateType
<1>1. /\ job[q].pc = "found" /\ job'[q].pc = "touch" /\ Current(q)' = Current(q)
    BY AccessLabels, StepLabel, StepLocals DEF Label, Locals, Current
<1>2. Present(Current(q))
    BY <1>1 DEF MemInv, NeedInv
<1>3. PICK x : x = pgd[Current(q)].low
    OBVIOUS
<1>4. lru' = add_LRU_page(lru, Current(q), x) /\ mram_free' = mram_free
    BY <1>3 DEF found, PAGING_PTE_FPN
<1>5. Spent(q)' >= Spent(q)
    BY <1>0, StepSpent
<1>6. Keeps(lru, lru', Current(p), x) /\ Ahead(lru', Current(p), Current(q))
  <2>1. CASE lru' = Append(lru, [page |-> Current(q), fpn |-> x]) /\ [page |-> Current(q), fpn |-> x] \in Node
    BY <1>0, <2>1, AppendOrder DEF Counted
  <2>2. ASSUME NEW i \in 1 .. Len(lru), lru[i].fpn = x, lru' = MoveToTail(lru, i)
        PROVE  Keeps(lru, lru', Current(p), x) /\ Ahead(lru', Current(p), Current(q))
    <3>1. lru[i].page = Current(q)
      BY <1>0, <1>2, <1>3, <2>2, FrameNode
    <3> QED
      BY <1>0, <2>2, <3>1, MoveOrder DEF Counted
  <2> QED
    BY <1>0, <1>3, <1>4, <2>1, <2>2, AddFacts
<1>7. ~DueAt(p, q)'
    BY <1>0, <1>1, <1>6 DEF DueAt, Ahead
<1>8. DueAt(p, q) \/ ~FrameAhead(lru, x, Current(p))
  <2> SUFFICES ASSUME FrameAhead(lru, x, Current(p)) PROVE Ahead(lru, Current(q), Current(p))
    BY <1>1 DEF DueAt
  <2>1. PICK i, j \in 1 .. Len(lru) : i < j /\ lru[i].fpn = x /\ lru[j].page = Current(p)
    BY DEF FrameAhead
  <2>2. lru[i].page = Current(q)
    BY <1>0, <1>2, <1>3, <2>1, FrameNode
  <2> QED
    BY <2>1, <2>2 DEF Ahead
<1> QED
    BY <1>0, <1>4, <1>5, <1>6, <1>7, <1>8, MoveStep

\* The last node after a move.
LEMMA MovedLast ==
    ASSUME NEW l \in Seq(Node), NEW i \in 1 .. Len(l)
    PROVE  MoveToTail(l, i) # << >> /\ MoveToTail(l, i)[Len(MoveToTail(l, i))] = l[i]
<1> DEFINE n == Len(l)
           m == MoveToTail(l, i)
<1>1. m \in Seq(Node) /\ Len(m) = n /\ n \in Nat /\ n \in 1 .. n /\ \A k \in 1 .. n : m[k] = l[Before(i, n, k)]
    BY MoveFacts
<1>2. Before(i, n, n) = i
    BY <1>1 DEF Before
<1> HIDE DEF n, m
<1>3. m # << >>
    BY <1>1
<1> QED
    BY <1>1, <1>2, <1>3 DEF m

\* The end of __read or __write of another CPU.  If its page was evicted in the
\* meantime, what it takes for a frame number may be anybody's.
LEMMA UpdateStep ==
    ASSUME IInv, ~crashed, IInv', ~crashed', NEW p \in Proc, NEW q \in Proc, p # q,
           job[p].pc = "touch", Kept(p), Counted(p), step(q), update(q)
    PROVE  Exhausted' \/ Counted(p)'
<1>0. /\ BaseInv /\ BaseInv' /\ ClassInv /\ MemInv
      /\ OnlySteps(p, q) /\ job[q].kind \in {"rw", "free"} /\ lru \in Seq(Node) /\ job'[p] = job[p]
      /\ Current(p)' = Current(p) /\ Current(p) # Current(q) /\ Current(q) \in Page
    BY OtherAccess DEF IInv, BaseInv, StateType
<1>1. job[q].pc = "update" /\ job'[q].pc = "done"
    BY <1>0, AccessLabels, StepLabel DEF Label
<1>2. PICK x : x = pgd[Current(q)].low
    OBVIOUS
<1>3. lru' = update_LRU_lst(lru, x) /\ mram_free' = mram_free
    BY <1>2 DEF update, PAGING_PTE_FPN
<1>4. Spent(q)' >= Spent(q)
    BY <1>0, StepSpent
<1>5. ~DueAt(p, q)'
    BY <1>1 DEF DueAt
<1>6. DueAt(p, q) \/ ~FrameAhead(lru, x, Current(p))
  <2> SUFFICES ASSUME FrameAhead(lru, x, Current(p)), Ahead(lru, Current(p), Current(q)) PROVE FALSE
    BY <1>1 DEF DueAt
  <2>1. PICK i, j \in 1 .. Len(lru) : i < j /\ lru[i].fpn = x /\ lru[j].page = Current(p)
    BY DEF FrameAhead
  <2>2. PICK k, m \in 1 .. Len(lru) : k < m /\ lru[k].page = Current(p) /\ lru[m].page = Current(q)
    BY DEF Ahead
  <2>3. Present(Current(q))
    BY <1>0, <2>2 DEF MemInv, LruInv
  <2>4. lru[i].page = Current(q)
    BY <1>0, <1>2, <2>1, <2>3, FrameNode
  <2>5. i = m /\ j = k
    BY <1>0, <2>1, <2>2, <2>4 DEF MemInv, LruInv
  <2> QED
    BY <2>1, <2>2, <2>5
<1>7. CASE lru' = lru
  <2>1. Keeps(lru, lru', Current(p), x)
    BY <1>7, KeepsSame
  <2> QED
    BY <1>0, <1>3, <1>4, <1>5, <1>6, <2>1, MoveStep
<1>8. ASSUME NEW i \in 1 .. Len(lru), lru[i].fpn = x, lru' = MoveToTail(lru, i)
      PROVE  Exhausted' \/ Counted(p)'
  <2>1. CASE lru[i].page # Current(p)
    <3>1. Keeps(lru, lru', Current(p), x)
      BY <1>0, <1>8, <2>1, MoveOrder
    <3> QED
      BY <1>0, <1>3, <1>4, <1>5, <1>6, <3>1, MoveStep
  <2>2. CASE lru[i].page = Current(p)
    <3>1. lru' # << >> /\ lru'[Len(lru')].page = Current(p)
      BY <1>0, <1>8, <2>2, MovedLast
    <3>2. Kept(p)'
      BY <1>0, KeptStep DEF Counted
    <3>3. ~Exhausted' => Refreshed(p)'
      BY <1>0, <3>1, <3>2 DEF Refreshed
    <3>4. RefreshInv'
      BY RefreshNext
    <3> QED
      BY <3>3, <3>4 DEF RefreshInv
  <2> QED
    BY <2>1, <2>2
<1> QED
    BY <1>0, <1>3, <1>7, <1>8, UpdateFacts

-----------------------------------------------------------------------------
(* The invariant is kept *)

AccessInv == CpuInv /\ (~crashed => TouchInv)

\* TouchInv for one process.
TouchAt(p) == job[p].pc = "touch" /\ Roomy(p) => Kept(p) /\ (Exhausted \/ Counted(p))

\* Any step of another CPU.
LEMMA OtherStep ==
    ASSUME IInv, ~crashed, IInv', ~crashed', CpuInv, NEW p \in Proc, NEW q \in Proc, p # q, step(q),
           TouchAt(p)
    PROVE  TouchAt(p)'
<1>0. BaseInv /\ BaseInv' /\ ClassInv /\ MemInv
    BY DEF IInv
<1>1. /\ \A r \in Proc : r # q => job'[r] = job[r]
      /\ Active' = Active /\ job'[q].size = job[q].size
    BY <1>0, StepJob, StepSize
<1>2. SUFFICES ASSUME job'[p].pc = "touch", Roomy(p)'
               PROVE  Kept(p)' /\ (Exhausted' \/ Counted(p)')
    BY DEF TouchAt
<1>3. job[p].pc = "touch"
    BY <1>1, <1>2
<1>4. Roomy(p)
  <2>1. \A r \in Proc : job[r].pc # "idle" => job'[r].pc # "idle" /\ job'[r].size = job[r].size
    BY <1>1 DEF Active
  <2> QED
    BY <1>2, <2>1 DEF Roomy
<1>5. Kept(p) /\ (Exhausted \/ Counted(p))
    BY <1>3, <1>4 DEF TouchAt
<1>6. job[q].kind \in {"rw", "free"}
    BY <1>0, <1>3, OtherAccess
<1>7. Kept(p)'
    BY <1>0, <1>3, <1>5, KeptStep DEF Counted
<1>8. Exhausted => Exhausted'
    BY <1>0, <1>6, ExhaustedStep
<1>9. ASSUME Counted(p) PROVE Exhausted' \/ Counted(p)'
  <2>1. CASE victim(q)
    BY <1>0, <1>3, <1>4, <1>5, <1>9, <2>1, VictimStep
  <2>2. CASE slot_none_getpage(q)
    BY <1>0, <2>2, ExhaustedNow
  <2>3. CASE frame(q)
    BY <1>0, <1>3, <1>9, <2>3, FrameStep
  <2>4. CASE found(q)
    BY <1>0, <1>3, <1>9, <2>4, FoundStep
  <2>5. CASE update(q)
    BY <1>3, <1>5, <1>9, <2>5, UpdateStep
  <2>6. CASE slot(q) \/ evict(q) \/ getpage(q) \/ frame_none(q) \/ enter(q) \/ touch(q)
    BY <1>0, <1>3, <1>9, <2>6, QuietSteps
  <2> QED
    BY <1>0, <1>6, <2>1, <2>2, <2>3, <2>4, <2>5, <2>6, AccessSteps
<1> QED
    BY <1>5, <1>7, <1>8, <1>9

\* The page of p is noted as used, and its frame returned.
LEMMA OwnStep ==
    ASSUME IInv, ~crashed, IInv', ~crashed', NEW p \in Proc, step(p)
    PROVE  TouchAt(p)'
<1>0. BaseInv /\ ClassInv /\ MemInv /\ lru \in Seq(Node) /\ Busy(p)
    BY StepJob DEF IInv, BaseInv, StateType
<1>1. SUFFICES ASSUME job'[p].pc = "touch" PROVE Kept(p)' /\ (Exhausted' \/ Counted(p)')
    BY DEF TouchAt
<1>2. found(p)
  <2>1. Label(p)
    BY <1>0, StepLabel
  <2>2. AfterAccess(p) # "touch" /\ AllocNext(p) # "touch"
    BY DEF AfterAccess, AllocNext
  <2> QED
    BY <1>1, <2>1, <2>2 DEF Label, step
<1>3. PICK x : x = pgd[Current(p)].low
    OBVIOUS
<1>4. /\ job[p].pc = "found" /\ Current(p)' = Current(p) /\ job'[p].fpn = x /\ pgd' = pgd
      /\ lru' = add_LRU_page(lru, Current(p), x)
    BY <1>0, <1>2, <1>3, AccessLabels, StepLocals DEF Locals, Current, found, PAGING_PTE_FPN
<1>5. Present(Current(p)) /\ Current(p) \in Page /\ x \in 0 .. FPN_MOD - 1
    BY <1>0, <1>3, <1>4, JobParts DEF MemInv, NeedInv
<1>6. Kept(p)'
    BY <1>3, <1>4, <1>5 DEF Kept, Present
<1>7. lru' # << >> /\ lru'[Len(lru')].page = Current(p)
  <2>1. ASSUME NEW v \in Node, v.page = Current(p), lru' = Append(lru, v)
        PROVE  lru' # << >> /\ lru'[Len(lru')].page = Current(p)
    <3>1. Len(lru') = Len(lru) + 1 /\ lru'[Len(lru) + 1] = v /\ lru' # << >>
      BY <1>0, <2>1
    <3> QED
      BY <2>1, <3>1
  <2>2. ASSUME NEW i \in 1 .. Len(lru), lru[i].fpn = x, lru' = MoveToTail(lru, i)
        PROVE  lru' # << >> /\ lru'[Len(lru')].page = Current(p)
    <3>1. lru[i].page = Current(p)
      BY <1>0, <1>3, <1>5, <2>2, FrameNode
    <3> QED
      BY <1>0, <2>2, <3>1, MovedLast
  <2>3. [page |-> Current(p), fpn |-> x].page = Current(p)
    OBVIOUS
  <2> QED
    BY <1>0, <1>4, <1>5, <2>1, <2>2, <2>3, AddFacts
<1>8. ~Exhausted' => Refreshed(p)'
    BY <1>1, <1>4, <1>6, <1>7 DEF Refreshed
<1>9. RefreshInv'
    BY RefreshNext
<1> QED
    BY <1>6, <1>8, <1>9 DEF RefreshInv

\* Another CPU begins an instruction.
LEMMA OtherStart ==
    ASSUME IInv, ~crashed, IInv', NEW p \in Proc, NEW q \in Proc, start(q), TouchAt(p)
    PROVE  TouchAt(p)'
<1>0. BaseInv /\ BaseInv'
    BY DEF IInv
<1>1. /\ UNCHANGED <<pgd, mram_free, mswp_free, lru>>
      /\ \A r \in Proc : r # q => job'[r] = job[r]
      /\ job[q].pc = "idle" /\ job'[q].pc \in {"getpage", "reuse", "map_lock"}
    BY <1>0, StartJob DEF StartsAt
<1>2. SUFFICES ASSUME job'[p].pc = "touch", Roomy(p)'
               PROVE  Kept(p)' /\ (Exhausted' \/ Counted(p)')
    BY DEF TouchAt
<1>3. p # q /\ job'[p] = job[p] /\ Current(p)' = Current(p) /\ OnlySteps(p, q)
    BY <1>1, <1>2 DEF Current, OnlySteps
<1>4. Roomy(p)
  <2>1. \A r \in Proc : job[r].pc # "idle" => job'[r] = job[r]
    BY <1>1
  <2> QED
    BY <1>2, <2>1 DEF Roomy
<1>5. Kept(p) /\ (Exhausted \/ Counted(p))
    BY <1>2, <1>3, <1>4 DEF TouchAt
<1>6. Kept(p)'
    BY <1>1, <1>3, <1>5 DEF Kept, Present
<1>7. Exhausted => Exhausted'
    BY <1>1 DEF Exhausted, SlotOut
<1>8. Spent(q)' >= Spent(q)
  <2>1. Spent(q) = 0
    BY <1>1 DEF Spent
  <2>2. Spent(q)' \in 0 .. job'[q].size /\ job'[q].size \in 0 .. MaxPages
    BY <1>0, SpentNext DEF SpentInv
  <2> QED
    BY <2>1, <2>2, Numbers
<1>9. ~DueAt(p, q)'
    BY <1>1 DEF DueAt
<1>10. Counted(p) => Counted(p)'
    BY <1>0, <1>1, <1>3, <1>8, <1>9, SameListStep
<1> QED
    BY <1>5, <1>6, <1>7, <1>10

\* No slot has more instructions than CPUs.
LEMMA CpuStep ==
    ASSUME BaseInv, CpuInv, [Next]_vars
    PROVE  CpuInv'
<1>1. ASSUME NEW q \in Proc, start(q) PROVE CpuInv'
  <2>1. /\ \A r \in Proc : r # q => job'[r] = job[r]
        /\ Cardinality(Active) < NCPU
    BY <1>1, StartJob DEF Active
  <2>2. Active' \subseteq Active \cup {q}
    BY <2>1 DEF Active
  <2>3. IsFiniteSet(Active) /\ IsFiniteSet(Active')
    BY <1>1, CountedFinite
  <2>4. Cardinality(Active') <= Cardinality(Active) + 1
    BY <2>2, <2>3, GainOne
  <2>5. Cardinality(Active) \in Nat /\ Cardinality(Active') \in Nat
    BY <2>3, FS_CardinalityType
  <2> QED
    BY <2>1, <2>4, <2>5, Numbers DEF CpuInv
<1>2. ASSUME NEW q \in Proc, step(q) PROVE CpuInv'
    BY <1>2, StepSize DEF CpuInv
<1>3. ASSUME tick PROVE CpuInv'
  <2>1. Active' = {}
    BY <1>3, RestingJob DEF tick, Active
  <2> QED
    BY <2>1, FS_EmptySet, Numbers DEF CpuInv
<1>4. ASSUME UNCHANGED vars PROVE CpuInv'
    BY <1>4 DEF CpuInv, Active, vars
<1> QED
    BY <1>1, <1>2, <1>3, <1>4 DEF Next, Crashed

\* Any step.
LEMMA AccessStep ==
    ASSUME IInv, IInv', AccessInv, [Next]_vars
    PROVE  AccessInv'
<1>0. BaseInv /\ CpuInv /\ CpuInv'
    BY CpuStep DEF IInv, AccessInv
<1>1. SUFFICES ASSUME ~crashed' PROVE \A p \in Proc : TouchAt(p)'
    BY <1>0 DEF AccessInv, TouchInv, TouchAt
<1>2. ASSUME NEW q \in Proc, step(q) PROVE \A p \in Proc : TouchAt(p)'
  <2>1. ~crashed
    BY <1>2 DEF step, At, victim, slot, slot_none_getpage, slot_none_reuse, slot_none_map,
       evict, getpage, frame, frame_none, enter, found, touch, update, map_lock, map_frame,
       map_frame_none, map_page, reuse, reuse_enter, reuse_put, reuse_update
  <2>2. \A p \in Proc : TouchAt(p)
    BY <2>1 DEF AccessInv, TouchInv, TouchAt
  <2> QED
    BY <1>0, <1>1, <1>2, <2>1, <2>2, OtherStep, OwnStep
<1>3. ASSUME NEW q \in Proc, start(q) PROVE \A p \in Proc : TouchAt(p)'
  <2>1. ~crashed
    BY <1>0, <1>3, StartJob
  <2>2. \A p \in Proc : TouchAt(p)
    BY <2>1 DEF AccessInv, TouchInv, TouchAt
  <2> QED
    BY <1>3, <2>1, <2>2, OtherStart
<1>4. ASSUME tick PROVE \A p \in Proc : TouchAt(p)'
  <2>1. \A p \in Proc : job'[p].pc = "idle"
    BY <1>4, RestingJob DEF tick
  <2> QED
    BY <2>1 DEF TouchAt
<1>5. ASSUME UNCHANGED vars PROVE \A p \in Proc : TouchAt(p)'
  <2>1. \A p \in Proc : TouchAt(p)
    BY <1>1, <1>5 DEF AccessInv, TouchInv, TouchAt, vars
  <2>2. /\ job' = job /\ pgd' = pgd /\ mram_free' = mram_free /\ mswp_free' = mswp_free /\ lru' = lru
    BY <1>5 DEF vars
  <2>3. ASSUME NEW p \in Proc PROVE TouchAt(p)'
    <3>1. Current(p)' = Current(p) /\ Roomy(p)' = Roomy(p) /\ Kept(p)' = Kept(p) /\ Exhausted' = Exhausted
      BY <2>2 DEF Current, Roomy, Kept, Present, Exhausted, SlotOut
    <3>2. Taken(p)' = Taken(p)
      BY <2>2, <3>1 DEF Taken, FrameAhead
    <3>3. Due(p)' = Due(p)
      BY <2>2, <3>1 DEF Due, Ahead, Current
    <3>4. Tokens(p)' = Tokens(p)
      BY <2>2 DEF Tokens, Spent
    <3>5. Counted(p)' = Counted(p)
      BY <2>2, <3>1, <3>2, <3>3, <3>4 DEF Counted, Listed
    <3> QED
      BY <2>1, <2>2, <3>1, <3>5 DEF TouchAt
  <2> QED
    BY <2>3
<1> QED
    BY <1>2, <1>3, <1>4, <1>5 DEF Next, Crashed

\* The other CPUs never go through all frames while a CPU uses the frame that
\* pg_getpage returned, if instructions of different kinds do not overlap.
THEOREM AccessInvariance == ASSUME ~Mixed PROVE Spec => [](IInv /\ AccessInv)
<1>1. Init => AccessInv
  <2> SUFFICES ASSUME Init PROVE CpuInv /\ TouchInv
    BY DEF AccessInv
  <2>1. \A p \in Proc : job[p].pc = "idle"
    BY RestingJob DEF Init
  <2>2. Active = {}
    BY <2>1 DEF Active
  <2> QED
    BY <2>1, <2>2, FS_EmptySet, Numbers DEF CpuInv, TouchInv
<1>2. IInv /\ IInv' /\ AccessInv /\ [Next]_vars => AccessInv'
    BY AccessStep
<1>3. Spec => []IInv
    BY Invariance
<1> QED
    BY <1>1, <1>2, <1>3, PTL DEF Spec

\* AccessFresh of Paging.tla: pg_getval and pg_setval use the frame that their
\* page is in, and no CPU is about to copy that frame to swap, though neither
\* holds the mutex of pg_getpage any more.
THEOREM AccessAlwaysFresh == ASSUME ~Mixed PROVE Spec => []AccessFresh
<1>1. IInv /\ AccessInv => AccessFresh
  <2> SUFFICES ASSUME IInv, AccessInv, NEW p \in Proc, At(p, "touch"),
                      \A q \in Proc \ {p} : NFrames > (NCPU - 1) * job[q].size
               PROVE  /\ Present(Current(p)) /\ pgd[Current(p)].low = job[p].fpn
                      /\ \A q \in Proc : job[q].pc = "evict" => job[q].vic.fpn # job[p].fpn
    BY DEF AccessFresh
  <2>0. BaseInv /\ MemInv /\ job[p].pc = "touch" /\ Roomy(p) /\ TouchInv
    BY DEF IInv, AccessInv, At, Roomy
  <2>1. Kept(p) /\ (Exhausted \/ Counted(p))
    BY <2>0 DEF TouchInv
  <2>2. ASSUME NEW q \in Proc, job[q].pc = "evict", job[q].vic.fpn = job[p].fpn PROVE FALSE
    <3>1. Listed(lru, Current(p))
      BY <2>1, <2>2 DEF Exhausted, SlotOut, Counted
    <3>2. Current(p) \in Page
      BY <2>0, JobParts DEF Busy
    <3>3. /\ job[q].vic.page \in Page /\ Present(job[q].vic.page)
          /\ pgd[job[q].vic.page].low = job[q].vic.fpn
          /\ \A i \in 1 .. Len(lru) : lru[i].page # job[q].vic.page
      BY <2>0, <2>2 DEF MemInv, VictimInv, Evicting
    <3>4. job[q].vic.page = Current(p)
      BY <2>0, <2>1, <2>2, <3>2, <3>3 DEF MemInv, PresentInv, Kept
    <3> QED
      BY <3>1, <3>3, <3>4 DEF Listed
  <2> QED
    BY <2>1, <2>2 DEF Kept
<1> QED
    BY <1>1, AccessInvariance, PTL

=============================================================================
