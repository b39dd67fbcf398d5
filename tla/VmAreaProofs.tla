---------------------------- MODULE VmAreaProofs ----------------------------
(***************************************************************************)
(* Proofs about the areas of a process, for every page size, size of the   *)
(* virtual memory, set of variables and workload.                          *)
(*                                                                         *)
(* The argument.  Regions are compared by their ends in the order of the   *)
(* addresses (Lo, Hi), so both areas are treated alike.  Two regions stay  *)
(* clear of each other because a region is only ever made from a piece of  *)
(* one free region, with what is left of that region lying behind it       *)
(* (LeftFacts), or at the border, beyond everything used so far            *)
(* (CommitFacts).  That the loop of get_free_vmrg_area leaves each region  *)
(* at most once in the list is what AscendingFacts is for.  The stack is   *)
(* mapped because the pages added by inc_vma_limit are those between the   *)
(* old and the new end (GrowStack), which needs the ends to be multiples   *)
(* of the page size (BorderInv).                                           *)
(***************************************************************************)
EXTENDS VmArea, FiniteSetTheorems, WellFoundedInduction, TLAPS

-----------------------------------------------------------------------------
(* Division, and numbers in order *)

\* The quotient of \div and the multiples around the dividend.
LEMMA DivFacts ==
    ASSUME NEW a \in Int, NEW b \in Nat \ {0}
    PROVE  /\ a \div b \in Int
           /\ b * (a \div b) \in Int
           /\ b * (a \div b) <= a
           /\ a < b * (a \div b) + b
OBVIOUS

\* Multiplication by a natural number is monotone.
LEMMA MulMono ==
    ASSUME NEW x \in Int, NEW y \in Int, NEW k \in Nat, x <= y
    PROVE  k * x <= k * y
OBVIOUS

\* A set of numbers up to n is finite.
LEMMA NumbersFinite ==
    ASSUME NEW n \in Nat, NEW S \in SUBSET (1 .. n)
    PROVE  IsFiniteSet(S) /\ Cardinality(S) \in Nat
<1>1. IsFiniteSet(1 .. n)
    BY FS_Interval
<1>2. IsFiniteSet(S)
    BY <1>1, FS_Subset
<1> QED
    BY <1>2, FS_CardinalityType

\* Every set of numbers up to n can be written in ascending order.
LEMMA AscendingExists ==
    ASSUME NEW n \in Nat, NEW S \in SUBSET (1 .. n)
    PROVE  \E f \in [1 .. Cardinality(S) -> S] :
               \A k, l \in 1 .. Cardinality(S) : k < l => f[k] < f[l]
<1> DEFINE Sorted(T) == \E f \in [1 .. Cardinality(T) -> T] :
                            \A k, l \in 1 .. Cardinality(T) : k < l => f[k] < f[l]
           Bad == {m \in Nat : \E T \in SUBSET (1 .. m) : ~Sorted(T)}
<1> SUFFICES ASSUME Bad # {} PROVE FALSE
    OBVIOUS
<1>0. Bad \subseteq Nat
    OBVIOUS
<1>1. \E m \in Bad : \A j \in Bad : ~(<<j, m>> \in OpToRel(<, Nat))
  <2> HIDE DEF Bad
  <2> QED
    BY <1>0, NatLessThanWellFounded, WFMin
<1>2. PICK m \in Bad : \A j \in Bad : ~(<<j, m>> \in OpToRel(<, Nat))
    BY <1>1
<1>3. \A j \in Bad : ~(j < m)
    BY <1>2 DEF OpToRel
<1>4. PICK T \in SUBSET (1 .. m) : ~Sorted(T)
    BY <1>2
<1>5. m \in Nat
    BY <1>2
<1> HIDE DEF Bad, Sorted
<1>6. IsFiniteSet(T) /\ Cardinality(T) \in Nat
    BY <1>4, <1>5, NumbersFinite
<1>7. T # {}
  <2> SUFFICES ASSUME T = {} PROVE FALSE
    OBVIOUS
  <2>1. Cardinality(T) = 0
    BY FS_EmptySet
  <2>2. [k \in 1 .. 0 |-> k] \in [1 .. Cardinality(T) -> T]
    BY <2>1
  <2>3. \A k, l \in 1 .. Cardinality(T) : FALSE
    BY <2>1
  <2> QED
    BY <2>2, <2>3, <1>4 DEF Sorted
<1>8. m > 0 /\ m - 1 \in Nat /\ m - 1 < m
  <2>1. PICK x \in T : TRUE
    BY <1>7
  <2>2. x \in 1 .. m
    BY <1>4, <2>1
  <2> QED
    BY <1>5, <2>2
<1>9. m - 1 \notin Bad
    BY <1>8, <1>3
<1>10. CASE m \notin T
  <2>1. T \in SUBSET (1 .. m - 1)
    BY <1>10, <1>5
  <2> QED
    BY <2>1, <1>4, <1>8, <1>9 DEF Bad
<1>11. CASE m \in T
  <2> DEFINE U == T \ {m}
             c == Cardinality(T)
  <2>1. U \in SUBSET (1 .. m - 1)
    BY <1>5
  <2>2. Cardinality(U) = c - 1 /\ c \in Nat /\ c >= 1
    BY <1>6, <1>11, FS_RemoveElement, FS_CardinalityType, FS_EmptySet
  <2>3. Sorted(U)
    BY <2>1, <1>8, <1>9 DEF Bad
  <2>4. PICK f \in [1 .. Cardinality(U) -> U] :
            \A k, l \in 1 .. Cardinality(U) : k < l => f[k] < f[l]
    BY <2>3 DEF Sorted
  <2> DEFINE g == [k \in 1 .. c |-> IF k = c THEN m ELSE f[k]]
  <2>5. g \in [1 .. c -> T]
    <3>1. ASSUME NEW k \in 1 .. c, k # c PROVE f[k] \in T
      <4>1. k \in 1 .. Cardinality(U)
        BY <2>2, <3>1
      <4> QED
        BY <2>4, <4>1
    <3> QED
      BY <3>1, <1>11
  <2>6. ASSUME NEW k \in 1 .. c, NEW l \in 1 .. c, k < l PROVE g[k] < g[l]
    <3>1. k \in 1 .. Cardinality(U) /\ k # c
      BY <2>2, <2>6
    <3>a. g[k] = f[k] /\ f[k] \in 1 .. m - 1
      BY <3>1, <2>1, <2>4
    <3>2. CASE l = c
      <4>1. g[l] = m
        BY <3>2
      <4> QED
        BY <3>a, <4>1, <1>5
    <3>3. CASE l # c
      <4>1. l \in 1 .. Cardinality(U) /\ g[l] = f[l]
        BY <3>3, <2>2
      <4> QED
        BY <3>1, <3>a, <4>1, <2>4, <2>6
    <3> QED
      BY <3>2, <3>3
  <2> QED
    BY <2>5, <2>6, <1>4 DEF Sorted
<1> QED
    BY <1>10, <1>11

\* Ascending(S) lists elements of S, each at most once.
LEMMA AscendingFacts ==
    ASSUME NEW n \in Nat, NEW S \in SUBSET (1 .. n)
    PROVE  /\ Cardinality(S) \in Nat
           /\ S # {} => Cardinality(S) >= 1
           /\ Ascending(S) \in [1 .. Cardinality(S) -> S]
           /\ \A k, l \in 1 .. Cardinality(S) :
                  k # l => Ascending(S)[k] # Ascending(S)[l]
<1>1. IsFiniteSet(S) /\ Cardinality(S) \in Nat
    BY NumbersFinite
<1>2. S # {} => Cardinality(S) >= 1
    BY <1>1, FS_EmptySet
<1>3. /\ Ascending(S) \in [1 .. Cardinality(S) -> S]
      /\ \A k, l \in 1 .. Cardinality(S) : k < l => Ascending(S)[k] < Ascending(S)[l]
  <2>1. \E f \in [1 .. Cardinality(S) -> S] :
            \A k, l \in 1 .. Cardinality(S) : k < l => f[k] < f[l]
    BY AscendingExists
  <2> QED
    BY <2>1, Zenon DEF Ascending
<1>4. ASSUME NEW k \in 1 .. Cardinality(S), NEW l \in 1 .. Cardinality(S), k # l
      PROVE  Ascending(S)[k] # Ascending(S)[l]
  <2>1. S \subseteq Int /\ Ascending(S)[k] \in S /\ Ascending(S)[l] \in S
    BY <1>3
  <2>2. k < l \/ l < k
    BY <1>1, <1>4
  <2> QED
    BY <1>3, <2>1, <2>2, \A x \in Int : ~(x < x)
<1> QED
    BY <1>1, <1>2, <1>3, <1>4

\* A set of numbers up to n that is not empty has a greatest element.
LEMMA GreatestExists ==
    ASSUME NEW n \in Nat, NEW S \in SUBSET (1 .. n), S # {}
    PROVE  \E i \in S : \A j \in S : j <= i
<1> DEFINE D == {n - i : i \in S}
<1>1. D \in SUBSET Nat /\ D # {}
  <2>1. \A i \in S : n - i \in Nat
    OBVIOUS
  <2> QED
    BY <2>1
<1>2. PICK d \in D : \A j \in D : ~(<<j, d>> \in OpToRel(<, Nat))
    BY <1>1, NatLessThanWellFounded, WFMin
<1>3. \A j \in D : ~(j < d)
    BY <1>1, <1>2 DEF OpToRel
<1>4. PICK i \in S : d = n - i
    BY <1>2
<1>5. ASSUME NEW j \in S PROVE j <= i
  <2>1. ~(n - j < n - i)
    BY <1>3, <1>4
  <2> QED
    BY <2>1
<1> QED
    BY <1>5

-----------------------------------------------------------------------------
(* The inductive invariant *)

FreeRg == [rg_start : Addr, rg_end : Addr]

\* The ends of a region of area v in the order of their addresses.
Lo(v, rg) == IF v = 0 THEN rg.rg_start ELSE rg.rg_end

Hi(v, rg) == IF v = 0 THEN rg.rg_end ELSE rg.rg_start

\* Two regions of area v do not meet.
Clear(v, x, y) == Hi(v, x) < Lo(v, y) \/ Hi(v, y) < Lo(v, x)

\* A region is on the used side of the border of area v.
Used(v, rg) == IF v = 0 THEN rg.rg_end < sbrk[0] ELSE sbrk[1] <= rg.rg_end

\* The free lists always keep a region, a dummy at least.
ListInv ==
    \A v \in Vma :
        /\ Len(vm_freerg_list[v]) >= 1
        /\ \A i \in 1 .. Len(vm_freerg_list[v]) :
              Lo(v, vm_freerg_list[v][i]) <= Hi(v, vm_freerg_list[v][i])

\* Live regions run in the direction of their area and have two or more bytes.
LiveInv == \A r \in Rgid :
    ~Unused(r) => Lo(symrgtbl[r].vmaid, symrgtbl[r]) < Hi(symrgtbl[r].vmaid, symrgtbl[r])

UsedInv ==
    \A v \in Vma :
        /\ \A r \in Live(v) : Used(v, symrgtbl[r])
        /\ \A i \in Free(v) : Used(v, vm_freerg_list[v][i])

ClearInv ==
    \A v \in Vma :
        /\ \A r, s \in Live(v) : r # s => Clear(v, symrgtbl[r], symrgtbl[s])
        /\ \A r \in Live(v), i \in Free(v) :
              Clear(v, symrgtbl[r], vm_freerg_list[v][i])
        /\ \A i, j \in Free(v) :
              i # j => Clear(v, vm_freerg_list[v][i], vm_freerg_list[v][j])

\* The borders: an area is reserved in whole pages, and what is handed out is
\* reserved.  The heap's end is its start until the first region is taken.
BorderInv ==
    /\ sbrk[0] <= vm_end[0] /\ vm_end[0] % PAGESZ = 0
    /\ vm_end[1] <= sbrk[1] /\ sbrk[1] < vmemsz
    /\ vm_end[1] = vmemsz - 1 \/ vm_end[1] % PAGESZ = 0

\* Every page below the end of the stack is mapped.
StackReserved == \A a \in 0 .. vm_end[0] - 1 : PageOf(a) \in pgd

IInv ==
    /\ TypeOK
    /\ ListInv
    /\ LiveInv
    /\ UsedInv
    /\ ClearInv
    /\ BorderInv
    /\ StackReserved

-----------------------------------------------------------------------------
(* get_free_vmrg_area *)

LEMMA Constants ==
    /\ PAGESZ \in Nat \ {0} /\ vmemsz \in Nat \ {0} /\ BUSSZ \in Nat
    /\ vmemsz <= BUSSZ
    /\ Addr = 0 .. vmemsz - 1 /\ Addr \subseteq Int
    /\ Vma = {0, 1}
BY PageAssumption DEF Addr, Vma

LEMMA LengthFacts ==
    ASSUME NEW v \in Vma, NEW rg, rg.rg_start \in Int, rg.rg_end \in Int
    PROVE  /\ Length(v, rg) = Hi(v, rg) - Lo(v, rg) + 1
           /\ Lo(v, rg) \in Int /\ Hi(v, rg) \in Int /\ Length(v, rg) \in Int
BY Constants DEF Length, Hi, Lo

\* What a multiple of a divisor of two or more leaves.
LEMMA PieceFacts ==
    ASSUME NEW L \in Nat, NEW size \in Nat, size >= 2
    PROVE  /\ L \div size \in Nat
           /\ (L \div size) * size \in Nat
           /\ (L \div size) * size <= L
           /\ L < (L \div size) * size + size
           /\ ((L \div size) - 1) * size = (L \div size) * size - size
           /\ L >= size => (L \div size) * size >= size
           /\ L < size => (L \div size) * size = 0
<1> DEFINE p == L \div size
<1>1. p \in Int /\ size * p \in Int /\ size * p <= L /\ L < size * p + size
    BY DivFacts
<1> HIDE DEF p
<1>2. p * size = size * p /\ (p - 1) * size = p * size - size
    BY <1>1
<1>3. p >= 0
    BY <1>1
<1>4. p * size \in Nat
    BY <1>1, <1>2, <1>3
<1>5. ASSUME L >= size PROVE p * size >= size
  <2>1. p # 0
    BY <1>1, <1>5
  <2>2. 1 <= p
    BY <1>1, <1>3, <2>1
  <2>3. size * 1 <= size * p
    BY <1>1, <2>2, MulMono
  <2> QED
    BY <1>1, <1>2, <2>3
<1>6. ASSUME L < size PROVE p * size = 0
  <2>1. ~(p >= 1)
    <3> SUFFICES ASSUME p >= 1 PROVE FALSE
      OBVIOUS
    <3>1. size * 1 <= size * p
      BY <1>1, MulMono
    <3> QED
      BY <1>1, <1>6, <3>1
  <2>2. p = 0
    BY <1>1, <1>3, <2>1
  <2> QED
    BY <2>2
<1> QED
    BY <1>1, <1>2, <1>3, <1>4, <1>5, <1>6 DEF p

\* What the loop leaves of a region: some bytes at its far end, fewer than the
\* request.  The last piece it cut off lies before them.
LEMMA LeftFacts ==
    ASSUME NEW v \in Vma, NEW rg \in FreeRg, Lo(v, rg) <= Hi(v, rg),
           NEW size \in Nat, size >= 2
    PROVE  LET left == Left(v, rg, size)
               start == Advance(v, rg.rg_start, (Pieces(v, rg, size) - 1) * size)
               piece == Region(start, Advance(v, start, size - 1))
           IN  /\ left = Region(left.rg_start, rg.rg_end)
               /\ left.rg_start \in Int /\ left.rg_end \in Int
               /\ Lo(v, rg) <= Lo(v, left) /\ Hi(v, left) <= Hi(v, rg)
               /\ 0 <= Length(v, left) /\ Length(v, left) < size
               /\ Length(v, rg) < size => left = rg
               /\ Length(v, rg) >= size =>
                     /\ piece \in FreeRg
                     /\ piece.rg_start \in Int /\ piece.rg_end \in Int
                     /\ Hi(v, piece) = Lo(v, piece) + size - 1
                     /\ Lo(v, rg) <= Lo(v, piece) /\ Hi(v, piece) <= Hi(v, rg)
                     /\ Clear(v, piece, left)
<1> DEFINE L == Length(v, rg)
           q == Pieces(v, rg, size) * size
           left == Left(v, rg, size)
           start == Advance(v, rg.rg_start, (Pieces(v, rg, size) - 1) * size)
           piece == Region(start, Advance(v, start, size - 1))
<1>1. rg.rg_start \in Addr /\ rg.rg_end \in Addr
    BY DEF FreeRg
<1>2. L = Hi(v, rg) - Lo(v, rg) + 1 /\ L \in Nat
    BY <1>1, LengthFacts, Constants
<1>3. /\ q \in Nat /\ q <= L /\ L < q + size
      /\ (Pieces(v, rg, size) - 1) * size = q - size
      /\ L >= size => q >= size
      /\ L < size => q = 0
    BY <1>2, PieceFacts DEF Pieces
<1>4. left = Region(Advance(v, rg.rg_start, q), rg.rg_end)
    BY DEF Left, Region, FreeRg
<1>5. start = Advance(v, rg.rg_start, q - size)
    BY <1>3
<1>6. rg = Region(rg.rg_start, rg.rg_end)
    BY DEF FreeRg, Region
<1> HIDE DEF L, q, left, start
<1>7. /\ left.rg_start = Advance(v, rg.rg_start, q) /\ left.rg_end = rg.rg_end
      /\ piece.rg_start = start /\ piece.rg_end = Advance(v, start, size - 1)
    BY <1>4 DEF Region
<1>8. /\ left = Region(left.rg_start, rg.rg_end)
      /\ L < size => left = rg
  <2>1. L < size => Advance(v, rg.rg_start, q) = rg.rg_start
    BY <1>1, <1>3, Constants DEF Advance
  <2> QED
    BY <1>4, <1>6, <1>7, <2>1
<1>9. /\ left.rg_start \in Int /\ left.rg_end \in Int
      /\ Lo(v, rg) <= Lo(v, left) /\ Hi(v, left) <= Hi(v, rg)
      /\ 0 <= Length(v, left) /\ Length(v, left) < size
  <2> HIDE DEF piece
  <2>1. CASE v = 0
    <3>1. left.rg_start = rg.rg_start + q /\ left.rg_end = rg.rg_end
      BY <1>7, <2>1 DEF Advance
    <3>2. left.rg_start \in Int /\ left.rg_end \in Int
      BY <1>1, <1>3, <3>1, Constants
    <3>3. Length(v, left) = L - q
      BY <1>1, <1>2, <1>3, <2>1, <3>1, Constants, SMTT(30) DEF Lo, Hi, Length
    <3>4. Lo(v, rg) <= Lo(v, left) /\ Hi(v, left) <= Hi(v, rg)
      BY <1>1, <1>3, <2>1, <3>1, Constants DEF Lo, Hi
    <3> QED
      BY <1>2, <1>3, <3>2, <3>3, <3>4
  <2>2. CASE v = 1
    <3>1. left.rg_start = rg.rg_start - q /\ left.rg_end = rg.rg_end
      BY <1>7, <2>2 DEF Advance
    <3>2. left.rg_start \in Int /\ left.rg_end \in Int
      BY <1>1, <1>3, <3>1, Constants
    <3>3. Length(v, left) = L - q
      BY <1>1, <1>2, <1>3, <2>2, <3>1, Constants, SMTT(30) DEF Lo, Hi, Length
    <3>4. Lo(v, rg) <= Lo(v, left) /\ Hi(v, left) <= Hi(v, rg)
      BY <1>1, <1>3, <2>2, <3>1, Constants DEF Lo, Hi
    <3> QED
      BY <1>2, <1>3, <3>2, <3>3, <3>4
  <2> QED
    BY <2>1, <2>2, Constants
<1>10. ASSUME L >= size
       PROVE  /\ piece.rg_start \in Addr /\ piece.rg_end \in Addr
              /\ Hi(v, piece) = Lo(v, piece) + size - 1
              /\ Lo(v, rg) <= Lo(v, piece) /\ Hi(v, piece) <= Hi(v, rg)
              /\ Clear(v, piece, left)
  <2> HIDE DEF piece
  <2>1. CASE v = 0
    <3>1. /\ left.rg_start = rg.rg_start + q /\ left.rg_end = rg.rg_end
          /\ piece.rg_start = rg.rg_start + (q - size)
          /\ piece.rg_end = rg.rg_start + (q - size) + (size - 1)
      BY <1>5, <1>7, <2>1 DEF Advance
    <3> QED
      <4>0. L = rg.rg_end - rg.rg_start + 1
        BY <1>2, <2>1 DEF Lo, Hi
      <4>1. piece.rg_start \in Addr /\ piece.rg_end \in Addr
        BY <1>1, <1>3, <1>10, <3>1, <4>0, Constants, SMTT(30)
      <4>3. Hi(v, piece) = Lo(v, piece) + size - 1
        BY <1>1, <1>3, <2>1, <3>1, Constants DEF Lo, Hi
      <4>2. /\ Lo(v, rg) <= Lo(v, piece) /\ Hi(v, piece) <= Hi(v, rg)
            /\ Clear(v, piece, left)
        BY <1>1, <1>2, <1>3, <1>10, <2>1, <3>1, Constants, SMTT(30) DEF Lo, Hi, Clear
      <4> QED
        BY <4>1, <4>2, <4>3
  <2>2. CASE v = 1
    <3>1. /\ left.rg_start = rg.rg_start - q /\ left.rg_end = rg.rg_end
          /\ piece.rg_start = rg.rg_start - (q - size)
          /\ piece.rg_end = rg.rg_start - (q - size) - (size - 1)
      BY <1>5, <1>7, <2>2 DEF Advance
    <3> QED
      <4>0. L = rg.rg_start - rg.rg_end + 1
        BY <1>2, <2>2 DEF Lo, Hi
      <4>1. piece.rg_start \in Addr /\ piece.rg_end \in Addr
        BY <1>1, <1>3, <1>10, <3>1, <4>0, Constants, SMTT(30)
      <4>3. Hi(v, piece) = Lo(v, piece) + size - 1
        BY <1>1, <1>3, <2>2, <3>1, Constants DEF Lo, Hi
      <4>2. /\ Lo(v, rg) <= Lo(v, piece) /\ Hi(v, piece) <= Hi(v, rg)
            /\ Clear(v, piece, left)
        BY <1>1, <1>2, <1>3, <1>10, <2>2, <3>1, Constants, SMTT(30) DEF Lo, Hi, Clear
      <4> QED
        BY <4>1, <4>2, <4>3
  <2> QED
    BY <2>1, <2>2, Constants
<1>11. ASSUME L >= size PROVE piece \in FreeRg
    BY <1>10, <1>11 DEF FreeRg, Region
<1> HIDE DEF piece
<1> QED
    BY <1>8, <1>9, <1>10, <1>11, Constants DEF L, left, piece, start

\* What the invariant says of a free list.
LEMMA ListFacts ==
    ASSUME TypeOK, ListInv, NEW v \in Vma
    PROVE  /\ vm_freerg_list[v] \in Seq(FreeRg)
           /\ Len(vm_freerg_list[v]) \in Nat /\ Len(vm_freerg_list[v]) >= 1
           /\ \A i \in 1 .. Len(vm_freerg_list[v]) :
                 /\ vm_freerg_list[v][i] \in FreeRg
                 /\ vm_freerg_list[v][i].rg_start \in Addr
                 /\ vm_freerg_list[v][i].rg_end \in Addr
                 /\ Lo(v, vm_freerg_list[v][i]) <= Hi(v, vm_freerg_list[v][i])
<1>1. vm_freerg_list[v] \in Seq(FreeRg)
    BY DEF TypeOK, FreeRg
<1>2. \A i \in 1 .. Len(vm_freerg_list[v]) : vm_freerg_list[v][i] \in FreeRg
    BY <1>1
<1>3. \A x \in FreeRg : x.rg_start \in Addr /\ x.rg_end \in Addr
    BY DEF FreeRg
<1> QED
    BY <1>1, <1>2, <1>3 DEF ListInv

\* The free list after a search is made of the old one's regions, in the same
\* order, each cut down to what is left of it; what has two or more bytes is
\* exactly what the loop left.
LEMMA FreeListFacts ==
    ASSUME TypeOK, ListInv, NEW v \in Vma, NEW size \in Nat, size >= 2
    PROVE  /\ FreeList(v, size) \in Seq(FreeRg)
           /\ Len(FreeList(v, size)) >= 1
           /\ \E f \in [1 .. Len(FreeList(v, size)) -> 1 .. Len(vm_freerg_list[v])] :
                 /\ \A k, l \in 1 .. Len(FreeList(v, size)) : k # l => f[k] # f[l]
                 /\ \A k \in 1 .. Len(FreeList(v, size)) :
                       LET x == FreeList(v, size)[k]
                           y == vm_freerg_list[v][f[k]]
                       IN  /\ Lo(v, x) <= Hi(v, x)
                           /\ Length(v, x) > 1 => x = Left(v, y, size)
<1> DEFINE list == vm_freerg_list[v]
           last == Len(list)
           cut == [i \in 1 .. last |-> Left(v, list[i], size)]
           dummy == Region(list[last].rg_end, list[last].rg_end)
           rest == IF Length(v, cut[last]) # 0 THEN cut ELSE [cut EXCEPT ![last] = dummy]
           kept == {i \in 1 .. last : Length(v, rest[i]) # 0}
           n == Cardinality(kept)
           f == Ascending(kept)
<1>1. /\ last \in Nat /\ last >= 1
      /\ \A i \in 1 .. last : /\ list[i] \in FreeRg
                              /\ list[i].rg_start \in Addr /\ list[i].rg_end \in Addr
                              /\ Lo(v, list[i]) <= Hi(v, list[i])
    BY ListFacts
<1>2. FreeList(v, size) = [k \in 1 .. n |-> rest[f[k]]]
    BY DEF FreeList
<1>3. kept \in SUBSET (1 .. last)
    OBVIOUS
<1>4. /\ n \in Nat /\ (kept # {} => n >= 1)
      /\ f \in [1 .. n -> kept]
      /\ \A k, l \in 1 .. n : k # l => f[k] # f[l]
    BY <1>1, <1>3, AscendingFacts
<1>5. dummy.rg_start = list[last].rg_end /\ dummy.rg_end = list[last].rg_end
    BY DEF Region
<1> HIDE DEF list, dummy
<1>6. Length(v, dummy) = 1 /\ Lo(v, dummy) = Hi(v, dummy) /\ dummy \in FreeRg
  <2>1. last \in 1 .. last
    BY <1>1
  <2>2. list[last].rg_end \in Addr
    BY <1>1, <2>1
  <2>3. dummy \in FreeRg
    BY <2>2 DEF dummy, Region, FreeRg
  <2> QED
    BY <1>5, <2>2, <2>3, Constants DEF Length, Lo, Hi
<1>7. ASSUME NEW i \in 1 .. last
      PROVE  rest[i] = Left(v, list[i], size) \/ (i = last /\ rest[i] = dummy)
  <2>1. cut[i] = Left(v, list[i], size)
    OBVIOUS
  <2>2. [cut EXCEPT ![last] = dummy][i] = IF i = last THEN dummy ELSE cut[i]
    OBVIOUS
  <2> HIDE DEF cut
  <2> QED
    BY <2>1, <2>2
<1>8. last \in kept
  <2>1. last \in 1 .. last
    BY <1>1
  <2>2. CASE Length(v, cut[last]) # 0
    BY <2>1, <2>2
  <2>3. CASE Length(v, cut[last]) = 0
    <3>1. rest[last] = dummy
      BY <2>1, <2>3
    <3> QED
      BY <2>1, <3>1, <1>6
  <2> QED
    BY <2>2, <2>3
<1> HIDE DEF cut, rest
<1>9. ASSUME NEW i \in kept
      PROVE  /\ rest[i] \in FreeRg /\ Lo(v, rest[i]) <= Hi(v, rest[i])
             /\ Length(v, rest[i]) > 1 => rest[i] = Left(v, list[i], size)
  <2>1. i \in 1 .. last /\ Length(v, rest[i]) # 0
    OBVIOUS
  <2>2. CASE rest[i] = dummy
    BY <1>6, <2>2, <1>5, <1>1, <2>1, Constants DEF Lo, Hi
  <2>3. CASE rest[i] = Left(v, list[i], size)
    <3> DEFINE left == Left(v, list[i], size)
               rg == list[i]
    <3>1. /\ rg \in FreeRg /\ rg.rg_start \in Addr /\ rg.rg_end \in Addr
          /\ Lo(v, rg) <= Hi(v, rg)
      BY <1>1, <2>1
    <3>2. /\ left = Region(left.rg_start, rg.rg_end)
          /\ left.rg_start \in Int /\ left.rg_end \in Int
          /\ Lo(v, rg) <= Lo(v, left) /\ Hi(v, left) <= Hi(v, rg)
          /\ 0 <= Length(v, left)
      BY <3>1, LeftFacts
    <3>3. Length(v, left) # 0
      BY <2>1, <2>3
    <3> HIDE DEF left, rg
    <3>4. Length(v, left) = Hi(v, left) - Lo(v, left) + 1
      BY <3>2, LengthFacts
    <3>5. Lo(v, left) \in Int /\ Hi(v, left) \in Int
      BY <3>2, LengthFacts
    <3>6. Lo(v, left) <= Hi(v, left)
      BY <3>2, <3>3, <3>4, <3>5
    <3>7. left.rg_start \in Addr
      BY <3>1, <3>2, <3>6, Constants DEF Lo, Hi
    <3>8. left \in FreeRg
      BY <3>1, <3>2, <3>7 DEF FreeRg, Region
    <3> QED
      BY <2>3, <3>6, <3>8 DEF left
  <2> QED
    BY <2>1, <2>2, <2>3, <1>7
<1> HIDE DEF kept, n, f
<1>10. ASSUME NEW k \in 1 .. n
       PROVE  f[k] \in kept /\ FreeList(v, size)[k] = rest[f[k]]
    BY <1>2, <1>4
<1>11. FreeList(v, size) \in Seq(FreeRg) /\ Len(FreeList(v, size)) = n
  <2>1. FreeList(v, size) \in [1 .. n -> FreeRg]
    BY <1>2, <1>9, <1>10
  <2> QED
    BY <1>4, <2>1
<1>12. n >= 1
    BY <1>4, <1>8
<1>13. f \in [1 .. n -> 1 .. last]
    BY <1>3, <1>4
<1>14. ASSUME NEW k \in 1 .. n
       PROVE  LET x == FreeList(v, size)[k]
                  y == list[f[k]]
              IN  /\ Lo(v, x) <= Hi(v, x)
                  /\ Length(v, x) > 1 => x = Left(v, y, size)
    BY <1>9, <1>10
<1> QED
    BY <1>4, <1>11, <1>12, <1>13, <1>14 DEF list

\* The region found lies in a free region that has room for it, before what is
\* left of that one.
LEMMA FoundFacts ==
    ASSUME TypeOK, ListInv, NEW v \in Vma, NEW size \in Nat, size >= 2,
           Fitting(v, size) # {}
    PROVE  LET x == FoundRegion(v, size)
           IN  /\ x \in FreeRg /\ x.rg_start \in Addr /\ x.rg_end \in Addr
               /\ Hi(v, x) = Lo(v, x) + size - 1
               /\ \E i \in 1 .. Len(vm_freerg_list[v]) :
                     /\ Length(v, vm_freerg_list[v][i]) >= size
                     /\ Lo(v, vm_freerg_list[v][i]) <= Lo(v, x)
                     /\ Hi(v, x) <= Hi(v, vm_freerg_list[v][i])
                     /\ Clear(v, x, Left(v, vm_freerg_list[v][i], size))
<1> DEFINE i == CHOOSE i \in Fitting(v, size) : \A j \in Fitting(v, size) : j <= i
           rg == vm_freerg_list[v][i]
           start == Advance(v, rg.rg_start, (Pieces(v, rg, size) - 1) * size)
           x == FoundRegion(v, size)
<1>1. Fitting(v, size) \in SUBSET (1 .. Len(vm_freerg_list[v]))
    BY DEF Fitting
<1>2. \E j \in Fitting(v, size) : \A k \in Fitting(v, size) : k <= j
    BY <1>1, ListFacts, GreatestExists
<1>3. i \in Fitting(v, size)
    BY <1>2
<1>4. x = Region(start, Advance(v, start, size - 1))
    BY DEF FoundRegion
<1> HIDE DEF i
<1>5. /\ i \in 1 .. Len(vm_freerg_list[v]) /\ rg \in FreeRg
      /\ Lo(v, rg) <= Hi(v, rg) /\ Length(v, rg) >= size
    BY <1>1, <1>3, ListFacts DEF Fitting
<1> HIDE DEF rg
<1>6. /\ x \in FreeRg
      /\ Hi(v, x) = Lo(v, x) + size - 1
      /\ Lo(v, rg) <= Lo(v, x) /\ Hi(v, x) <= Hi(v, rg)
      /\ Clear(v, x, Left(v, rg, size))
    BY <1>4, <1>5, LeftFacts
<1>7. x.rg_start \in Addr /\ x.rg_end \in Addr
    BY <1>6 DEF FreeRg
<1> QED
    BY <1>5, <1>6, <1>7 DEF rg

-----------------------------------------------------------------------------
(* The symbol table *)

LEMMA SymbolFacts ==
    ASSUME TypeOK, NEW v \in Vma, NEW r \in Rgid, NEW x \in FreeRg, SetSymbol(r, v, x)
    PROVE  /\ symrgtbl' \in [Rgid -> [rg_start : Addr, rg_end : Addr, vmaid : Vma]]
           /\ symrgtbl'[r].rg_start = x.rg_start /\ symrgtbl'[r].rg_end = x.rg_end
           /\ symrgtbl'[r].vmaid = v
           /\ \A s \in Rgid : s # r => symrgtbl'[s] = symrgtbl[s]
           /\ Lo(v, symrgtbl'[r]) = Lo(v, x) /\ Hi(v, symrgtbl'[r]) = Hi(v, x)
           /\ symrgtbl' # symrgtbl => symrgtbl'[r] # symrgtbl[r]
<1> DEFINE new == [rg_start |-> x.rg_start, rg_end |-> x.rg_end, vmaid |-> v]
           Symbol == [rg_start : Addr, rg_end : Addr, vmaid : Vma]
<1>1. symrgtbl' = [symrgtbl EXCEPT ![r] = new]
    BY DEF SetSymbol
<1>2. x.rg_start \in Addr /\ x.rg_end \in Addr
    BY DEF FreeRg
<1>3. new \in Symbol /\ new.rg_start = x.rg_start /\ new.rg_end = x.rg_end /\ new.vmaid = v
    BY <1>2
<1>4. symrgtbl \in [Rgid -> Symbol]
    BY DEF TypeOK
<1> HIDE DEF new, Symbol
<1>5. /\ symrgtbl' \in [Rgid -> Symbol] /\ symrgtbl'[r] = new
      /\ \A s \in Rgid : s # r => symrgtbl'[s] = symrgtbl[s]
    BY <1>1, <1>3, <1>4
<1>6. symrgtbl' # symrgtbl => symrgtbl'[r] # symrgtbl[r]
    BY <1>1, <1>4, <1>5
<1>7. Lo(v, symrgtbl'[r]) = Lo(v, x) /\ Hi(v, symrgtbl'[r]) = Hi(v, x)
    BY <1>3, <1>5 DEF Lo, Hi
<1> QED
    BY <1>3, <1>5, <1>6, <1>7 DEF Symbol

\* Handing out a region that meets neither a live region nor one that is free
\* afterwards keeps the regions apart, and behind a border that includes it.
LEMMA HandOut ==
    ASSUME TypeOK, LiveInv, ClearInv, UsedInv,
           NEW v \in Vma, NEW r \in Rgid, NEW x \in FreeRg, SetSymbol(r, v, x),
           Lo(v, x) < Hi(v, x),
           Used(v, x)',
           \A s \in Live(v) : Clear(v, x, symrgtbl[s]),
           \A i \in Free(v)' : Clear(v, x, vm_freerg_list'[v][i]),
           \A u \in Vma, s \in Rgid :
               Used(u, symrgtbl[s]) /\ symrgtbl'[s] = symrgtbl[s] => Used(u, symrgtbl[s])',
           \A u \in Vma :
               /\ \A s \in Live(u), i \in Free(u)' :
                     Clear(u, symrgtbl[s], vm_freerg_list'[u][i])
               /\ \A i, j \in Free(u)' :
                     i # j => Clear(u, vm_freerg_list'[u][i], vm_freerg_list'[u][j])
               /\ \A i \in Free(u)' : Used(u, vm_freerg_list[u][i])'
    PROVE  LiveInv' /\ ClearInv' /\ UsedInv'
<1>1. /\ symrgtbl'[r].rg_start = x.rg_start /\ symrgtbl'[r].rg_end = x.rg_end
      /\ symrgtbl'[r].vmaid = v
      /\ \A s \in Rgid : s # r => symrgtbl'[s] = symrgtbl[s]
      /\ Lo(v, symrgtbl'[r]) = Lo(v, x) /\ Hi(v, symrgtbl'[r]) = Hi(v, x)
    BY SymbolFacts
<1>2. \A s \in Rgid : s # r => Unused(s)' = Unused(s)
    BY <1>1 DEF Unused
<1>3. \A u \in Vma, s \in Rgid : s # r /\ s \in Live(u)' => s \in Live(u)
    BY <1>1, <1>2 DEF Live
<1>4. \A u \in Vma : r \in Live(u)' => u = v
    BY <1>1 DEF Live
<1>5. LiveInv'
  <2> SUFFICES ASSUME NEW s \in Rgid, ~Unused(s)'
               PROVE  Lo(symrgtbl'[s].vmaid, symrgtbl'[s]) < Hi(symrgtbl'[s].vmaid, symrgtbl'[s])
    BY DEF LiveInv
  <2>1. CASE s = r
    BY <1>1, <2>1
  <2>2. CASE s # r
    BY <1>1, <1>2, <2>2 DEF LiveInv
  <2> QED
    BY <2>1, <2>2
<1>6. \A u, y, z : Clear(u, y, z) => Clear(u, z, y)
    BY DEF Clear
<1>7. \A y : Clear(v, x, y) => Clear(v, symrgtbl'[r], y) /\ Clear(v, y, symrgtbl'[r])
    BY <1>1 DEF Clear
<1>8. ClearInv'
  <2> SUFFICES ASSUME NEW u \in Vma
               PROVE  /\ \A s, t \in Live(u)' : s # t => Clear(u, symrgtbl'[s], symrgtbl'[t])
                      /\ \A s \in Live(u)', i \in Free(u)' :
                            Clear(u, symrgtbl'[s], vm_freerg_list'[u][i])
                      /\ \A i, j \in Free(u)' :
                            i # j => Clear(u, vm_freerg_list'[u][i], vm_freerg_list'[u][j])
    BY DEF ClearInv
  <2>1. ASSUME NEW s \in Live(u)', NEW t \in Live(u)', s # t
        PROVE  Clear(u, symrgtbl'[s], symrgtbl'[t])
    <3>1. s \in Rgid /\ t \in Rgid
      BY DEF Live
    <3>2. CASE s = r
      BY <3>1, <3>2, <2>1, <1>1, <1>3, <1>4, <1>7
    <3>3. CASE t = r
      BY <3>1, <3>3, <2>1, <1>1, <1>3, <1>4, <1>7
    <3>4. CASE s # r /\ t # r
      BY <3>1, <3>4, <2>1, <1>1, <1>3 DEF ClearInv
    <3> QED
      BY <3>2, <3>3, <3>4
  <2>2. ASSUME NEW s \in Live(u)', NEW i \in Free(u)'
        PROVE  Clear(u, symrgtbl'[s], vm_freerg_list'[u][i])
    <3>1. s \in Rgid
      BY DEF Live
    <3>2. CASE s = r
      BY <3>1, <3>2, <1>4, <1>7
    <3>3. CASE s # r
      BY <3>1, <3>3, <1>1, <1>3
    <3> QED
      BY <3>2, <3>3
  <2> QED
    BY <2>1, <2>2
<1>9. UsedInv'
  <2> SUFFICES ASSUME NEW u \in Vma
               PROVE  /\ \A s \in Live(u)' : Used(u, symrgtbl[s])'
                      /\ \A i \in Free(u)' : Used(u, vm_freerg_list[u][i])'
    BY DEF UsedInv
  <2>1. ASSUME NEW s \in Live(u)' PROVE Used(u, symrgtbl[s])'
    <3>1. s \in Rgid
      BY DEF Live
    <3>2. CASE s = r
      BY <3>1, <3>2, <1>1, <1>4 DEF Used
    <3>3. CASE s # r
      BY <3>1, <3>3, <1>1, <1>3 DEF UsedInv
    <3> QED
      BY <3>2, <3>3
  <2> QED
    BY <2>1
<1> QED
    BY <1>5, <1>8, <1>9

-----------------------------------------------------------------------------
(* Pages *)

LEMMA DivUnique ==
    ASSUME NEW x \in Int, NEW b \in Nat \ {0}, NEW q \in Int, b * q <= x, x < b * q + b
    PROVE  x \div b = q
<1> DEFINE p == x \div b
<1>1. p \in Int /\ b * p \in Int /\ b * p <= x /\ x < b * p + b
    BY DivFacts
<1> HIDE DEF p
<1>2. b * q \in Int /\ b * (q + 1) = b * q + b /\ b * (p + 1) = b * p + b
    BY <1>1
<1>3. ~(q + 1 <= p)
    BY <1>1, <1>2, MulMono
<1>4. ~(p + 1 <= q)
    BY <1>1, <1>2, MulMono
<1> QED
    BY <1>1, <1>3, <1>4 DEF p

LEMMA DivLess ==
    ASSUME NEW x \in Int, NEW b \in Nat \ {0}, NEW m \in Int, x < b * m
    PROVE  x \div b < m
<1> DEFINE p == x \div b
<1>1. p \in Int /\ b * p \in Int /\ b * p <= x
    BY DivFacts
<1> HIDE DEF p
<1>2. b * m \in Int
    OBVIOUS
<1>3. ~(m <= p)
    BY <1>1, <1>2, MulMono
<1> QED
    BY <1>1, <1>3 DEF p

LEMMA DivAtLeast ==
    ASSUME NEW x \in Int, NEW b \in Nat \ {0}, NEW m \in Int, b * m <= x
    PROVE  m <= x \div b
<1> DEFINE p == x \div b
<1>1. p \in Int /\ b * p \in Int /\ x < b * p + b
    BY DivFacts
<1> HIDE DEF p
<1>2. b * m \in Int /\ b * (p + 1) = b * p + b
    BY <1>1
<1>3. ~(p + 1 <= m)
    BY <1>1, <1>2, MulMono
<1> QED
    BY <1>1, <1>3 DEF p

\* A multiple of the page size.
LEMMA Multiple ==
    ASSUME NEW x \in Int, x % PAGESZ = 0
    PROVE  x \div PAGESZ \in Int /\ x = PAGESZ * (x \div PAGESZ)
BY Constants

LEMMA MultipleMod ==
    ASSUME NEW q \in Int
    PROVE  (PAGESZ * q) % PAGESZ = 0 /\ (PAGESZ * q) \div PAGESZ = q /\ PAGESZ * q \in Int
<1>1. PAGESZ * q \in Int /\ PAGESZ \in Nat \ {0}
    BY Constants
<1>2. (PAGESZ * q) \div PAGESZ = q
    BY <1>1, DivUnique
<1>3. ASSUME NEW y \in Int PROVE y = PAGESZ * (y \div PAGESZ) + (y % PAGESZ) /\ y % PAGESZ \in Int
    BY Constants
<1> QED
    BY <1>1, <1>2, <1>3

\* The number of pages of the virtual memory, and of the page table.
Vpages == vmemsz \div PAGESZ
Bpages == BUSSZ \div PAGESZ

LEMMA PageCounts ==
    /\ Vpages \in Nat /\ Bpages \in Nat /\ Vpages <= Bpages
    /\ vmemsz = PAGESZ * Vpages /\ BUSSZ = PAGESZ * Bpages
<1>1. Vpages \in Int /\ vmemsz = PAGESZ * Vpages
    BY Constants, PageAssumption, Multiple DEF Vpages
<1>2. Bpages \in Int /\ BUSSZ = PAGESZ * Bpages
    BY Constants, PageAssumption, Multiple DEF Bpages
<1>3. 0 <= Vpages /\ Vpages <= Bpages
  <2>1. PAGESZ * 0 <= vmemsz /\ PAGESZ * Vpages <= BUSSZ
    BY <1>1, Constants
  <2> QED
    BY <1>1, <2>1, DivAtLeast, Constants DEF Vpages, Bpages
<1> QED
    BY <1>1, <1>2, <1>3

\* The page of an address is one of the page table's.
LEMMA PageRange ==
    ASSUME NEW a \in 0 .. BUSSZ - 1
    PROVE  PageOf(a) \in 0 .. (BUSSZ \div PAGESZ) - 1
<1>1. PageOf(a) \in Int
    BY DivFacts, Constants DEF PageOf
<1>2. PageOf(a) < Bpages
    BY DivLess, PageCounts, Constants DEF PageOf
<1>3. 0 <= PageOf(a)
    BY DivAtLeast, Constants DEF PageOf
<1> QED
    BY <1>1, <1>2, <1>3, PageCounts DEF Bpages

LEMMA PagesRange ==
    ASSUME NEW A, A \subseteq 0 .. BUSSZ - 1
    PROVE  PagesOf(A) \subseteq 0 .. (BUSSZ \div PAGESZ) - 1
BY PageRange DEF PagesOf

\* PAGING_PAGE_ALIGNSZ: the least multiple that is not below n.
LEMMA AlignFacts ==
    ASSUME NEW n \in Int
    PROVE  \E q \in Int : /\ AlignUp(n) = PAGESZ * q
                          /\ AlignUp(n) \in Int
                          /\ n <= AlignUp(n) /\ AlignUp(n) < n + PAGESZ
                          /\ AlignUp(n) \div PAGESZ = q
                          /\ AlignUp(n) % PAGESZ = 0
<1> DEFINE q == (n + PAGESZ - 1) \div PAGESZ
<1>1. PAGESZ \in Nat \ {0} /\ n + PAGESZ - 1 \in Int
    BY Constants
<1>2. /\ q \in Int /\ PAGESZ * q \in Int
      /\ PAGESZ * q <= n + PAGESZ - 1 /\ n + PAGESZ - 1 < PAGESZ * q + PAGESZ
    BY <1>1, DivFacts
<1>3. AlignUp(n) = q * PAGESZ
    BY DEF AlignUp
<1> HIDE DEF q
<1>4. AlignUp(n) = PAGESZ * q
    BY <1>1, <1>2, <1>3
<1>5. (PAGESZ * q) % PAGESZ = 0 /\ (PAGESZ * q) \div PAGESZ = q
    BY <1>2, MultipleMod
<1> QED
    BY <1>1, <1>2, <1>4, <1>5

-----------------------------------------------------------------------------
(* inc_vma_limit *)

LEMMA BorderTypes ==
    ASSUME TypeOK, BorderInv
    PROVE  /\ sbrk[0] \in Nat /\ sbrk[0] <= vmemsz /\ sbrk[0] <= vm_end[0]
           /\ vm_end[0] \in Nat /\ vm_end[0] <= vmemsz /\ vm_end[0] % PAGESZ = 0
           /\ sbrk[1] \in Nat /\ sbrk[1] <= vmemsz - 1 /\ vm_end[1] <= sbrk[1]
           /\ vm_end[1] \in Int /\ -PAGESZ <= vm_end[1]
BY Constants DEF TypeOK, BorderInv

\* The pages mapped when the stack grows are exactly the ones between its old
\* and its new end.
LEMMA GrowStack ==
    ASSUME TypeOK, BorderInv, StackReserved, NEW size \in Nat \ {0},
           ~OutOfVm(0, size), MustGrow(0, size)
    PROVE  /\ NewEnd(0, size) \in Nat /\ NewEnd(0, size) <= vmemsz
           /\ sbrk[0] + size <= NewEnd(0, size)
           /\ NewEnd(0, size) % PAGESZ = 0
           /\ NewPages(0, size) \subseteq 0 .. (BUSSZ \div PAGESZ) - 1
           /\ \A a \in 0 .. NewEnd(0, size) - 1 : PageOf(a) \in pgd \cup NewPages(0, size)
<1> DEFINE spare == vm_end[0] - sbrk[0]
           e == vm_end[0] \div PAGESZ
           n == AlignUp(size - spare) \div PAGESZ
           new == NewEnd(0, size)
<1>1. PAGESZ \in Nat \ {0} /\ size \in Nat /\ size >= 1
    BY Constants
<1>2. /\ sbrk[0] \in Nat /\ sbrk[0] + size <= vmemsz
      /\ vm_end[0] \in Nat /\ vm_end[0] < sbrk[0] + size
    BY BorderTypes, Constants DEF OutOfVm, MustGrow
<1>3. e \in Int /\ vm_end[0] = PAGESZ * e
    BY BorderTypes, Multiple
<1>4. size - spare \in Int /\ size - spare = sbrk[0] + size - vm_end[0]
    BY <1>1, <1>2
<1>5. /\ n \in Int /\ PAGESZ * n \in Int
      /\ size - spare <= PAGESZ * n /\ PAGESZ * n < size - spare + PAGESZ
    BY <1>4, AlignFacts
<1>6. PICK E \in Int : /\ new = PAGESZ * E /\ new \in Int
                       /\ sbrk[0] + size <= new /\ new < sbrk[0] + size + PAGESZ
                       /\ new % PAGESZ = 0
  <2>1. new = AlignUp(sbrk[0] + size) /\ sbrk[0] + size \in Int
    BY <1>1, <1>2 DEF NewEnd
  <2> QED
    BY <2>1, AlignFacts
<1>7. NewPages(0, size) = {e + k : k \in 0 .. n - 1}
    BY DEF NewPages, Advance
<1> HIDE DEF spare, e, n, new
<1>8. PAGESZ * (e + n) = PAGESZ * e + PAGESZ * n /\ PAGESZ * (E - 1) = PAGESZ * E - PAGESZ
      /\ PAGESZ * (e + n - 1) = PAGESZ * e + PAGESZ * n - PAGESZ
    BY <1>1, <1>3, <1>5, <1>6
<1>9. E = e + n
  <2>1. ~(e + n <= E - 1)
    BY <1>1, <1>2, <1>3, <1>4, <1>5, <1>6, <1>8, MulMono
  <2>2. ~(E <= e + n - 1)
    BY <1>1, <1>2, <1>3, <1>4, <1>5, <1>6, <1>8, MulMono
  <2> QED
    BY <1>3, <1>5, <1>6, <2>1, <2>2
<1>10. new <= vmemsz
  <2>1. PAGESZ * (E - 1) < PAGESZ * Vpages
    BY <1>1, <1>2, <1>6, <1>8, PageCounts
  <2>2. ~(Vpages <= E - 1)
    BY <1>1, <1>6, <2>1, PageCounts, MulMono
  <2>3. E <= Vpages
    BY <1>6, <2>2, PageCounts
  <2> QED
    BY <1>1, <1>6, <2>3, PageCounts, MulMono
<1>11. E <= Bpages
  <2>1. PAGESZ * E <= vmemsz
    BY <1>6, <1>10
  <2>2. E <= Vpages
    <3>1. vmemsz \in Int /\ E \in Int
      BY <1>6, Constants
    <3> QED
      BY <1>1, <2>1, <3>1, DivAtLeast DEF Vpages
  <2> QED
    BY <1>6, <2>2, PageCounts
<1>12. 0 <= e
  <2>1. PAGESZ * 0 <= vm_end[0]
    BY <1>1, <1>2
  <2> QED
    BY <1>1, <1>2, <2>1, DivAtLeast DEF e
<1>13. NewPages(0, size) \subseteq 0 .. Bpages - 1
    BY <1>3, <1>5, <1>7, <1>9, <1>11, <1>12, PageCounts
<1>14. ASSUME NEW a \in 0 .. new - 1
       PROVE  PageOf(a) \in pgd \cup NewPages(0, size)
  <2>1. CASE a < vm_end[0]
    BY <1>2, <1>6, <2>1 DEF StackReserved
  <2>2. CASE vm_end[0] <= a
    <3>1. PageOf(a) \in Int
      BY <1>1, <1>6, DivFacts DEF PageOf
    <3>2. e <= PageOf(a)
      <4>1. a \in Int /\ PAGESZ * e <= a
        BY <1>3, <1>6, <2>2
      <4> QED
        BY <1>1, <1>3, <4>1, DivAtLeast DEF PageOf
    <3>3. PageOf(a) < E
      <4>1. a \in Int /\ a < PAGESZ * E
        BY <1>6
      <4> QED
        BY <1>1, <1>6, <4>1, DivLess DEF PageOf
    <3>4. PageOf(a) - e \in 0 .. n - 1 /\ PageOf(a) = e + (PageOf(a) - e)
      BY <1>3, <1>5, <1>6, <1>9, <3>1, <3>2, <3>3
    <3> QED
      BY <1>7, <3>4
  <2> QED
    BY <1>2, <1>6, <2>1, <2>2
<1> QED
    BY <1>1, <1>2, <1>6, <1>10, <1>13, <1>14 DEF new, Bpages

\* The pages mapped when the heap grows are pages of the page table, and its
\* new end is a multiple of the page size below the new border.
LEMMA GrowHeap ==
    ASSUME TypeOK, BorderInv, NEW size \in Nat \ {0},
           ~OutOfVm(1, size), MustGrow(1, size)
    PROVE  /\ NewEnd(1, size) \in Int /\ -PAGESZ <= NewEnd(1, size)
           /\ NewEnd(1, size) <= sbrk[1] - size
           /\ NewEnd(1, size) % PAGESZ = 0
           /\ NewPages(1, size) \subseteq 0 .. (BUSSZ \div PAGESZ) - 1
<1> DEFINE spare == sbrk[1] - vm_end[1]
           n == AlignUp(size - spare) \div PAGESZ
           first == IF vm_end[1] = vmemsz - 1 THEN vm_end[1] \div PAGESZ
                    ELSE (vm_end[1] - 1) \div PAGESZ
           new == NewEnd(1, size)
<1>1. PAGESZ \in Nat \ {0} /\ size \in Nat /\ size >= 1 /\ vmemsz \in Nat
    BY Constants
<1>2. /\ sbrk[1] \in Nat /\ sbrk[1] <= vmemsz - 1 /\ vm_end[1] <= sbrk[1]
      /\ 0 <= sbrk[1] - size /\ vm_end[1] \in Int /\ sbrk[1] - size < vm_end[1]
    BY BorderTypes, Constants DEF OutOfVm, MustGrow
<1>3. size - spare \in Int /\ size - spare = vm_end[1] - (sbrk[1] - size)
    BY <1>1, <1>2
<1>4. /\ n \in Int /\ PAGESZ * n \in Int
      /\ size - spare <= PAGESZ * n /\ PAGESZ * n < size - spare + PAGESZ
    BY <1>3, AlignFacts
<1>5. PICK E \in Int : /\ new = PAGESZ * E - PAGESZ /\ PAGESZ * E \in Int
                       /\ sbrk[1] - size <= PAGESZ * E
                       /\ PAGESZ * E < sbrk[1] - size + PAGESZ
  <2>1. new = AlignUp(sbrk[1] - size) - PAGESZ /\ sbrk[1] - size \in Int
    BY <1>1, <1>2 DEF NewEnd
  <2> QED
    BY <2>1, AlignFacts
<1>6. NewPages(1, size) = {first - k : k \in 0 .. n - 1}
    BY DEF NewPages, Advance
<1>7. new % PAGESZ = 0
  <2>1. new = PAGESZ * (E - 1)
    BY <1>1, <1>5
  <2> QED
    BY <1>5, <2>1, MultipleMod
<1>8. first \in Int /\ first < Bpages /\ n - 1 <= first
  <2>1. CASE vm_end[1] = vmemsz - 1
    <3>1. first = Vpages - 1
      <4>1. PAGESZ * (Vpages - 1) = vmemsz - PAGESZ
        BY <1>1, PageCounts
      <4>2. (vmemsz - 1) \div PAGESZ = Vpages - 1
        BY <1>1, <4>1, PageCounts, DivUnique
      <4> QED
        BY <2>1, <4>2
    <3> HIDE DEF first, n, spare
    <3>2. PAGESZ * (Vpages + 1) = vmemsz + PAGESZ
      BY <1>1, PageCounts
    <3>3. ~(Vpages + 1 <= n)
      BY <1>1, <1>2, <1>3, <1>4, <2>1, <3>2, PageCounts, MulMono
    <3> QED
      BY <1>4, <3>1, <3>3, PageCounts
  <2>2. CASE vm_end[1] # vmemsz - 1
    <3> DEFINE e == vm_end[1] \div PAGESZ
    <3>1. e \in Int /\ vm_end[1] = PAGESZ * e
      BY <1>2, <2>2, Multiple DEF BorderInv
    <3>2. first = (vm_end[1] - 1) \div PAGESZ
      BY <2>2
    <3> HIDE DEF first, n, spare, e
    <3>3. PAGESZ * (e - 1) = PAGESZ * e - PAGESZ /\ PAGESZ * (e + 1) = PAGESZ * e + PAGESZ
      BY <1>1, <3>1
    <3>4. first = e - 1
      <4>1. /\ vm_end[1] - 1 \in Int /\ e - 1 \in Int
            /\ PAGESZ * (e - 1) <= vm_end[1] - 1
            /\ vm_end[1] - 1 < PAGESZ * (e - 1) + PAGESZ
        BY <1>1, <1>2, <3>1, <3>3
      <4> QED
        BY <1>1, <3>2, <4>1, DivUnique
    <3>5. ~(e + 1 <= n)
      BY <1>1, <1>2, <1>3, <1>4, <3>1, <3>3, MulMono
    <3>6. ~(Vpages + 1 <= e)
      <4>1. PAGESZ * (Vpages + 1) = vmemsz + PAGESZ
        BY <1>1, PageCounts
      <4> QED
        BY <1>1, <1>2, <3>1, <4>1, PageCounts, MulMono
    <3> QED
      BY <1>4, <3>1, <3>4, <3>5, <3>6, PageCounts
  <2> QED
    BY <2>1, <2>2
<1> HIDE DEF first, n, spare, new
<1>9. NewPages(1, size) \subseteq 0 .. Bpages - 1
    BY <1>4, <1>6, <1>8, PageCounts
<1> QED
    BY <1>1, <1>2, <1>5, <1>7, <1>9 DEF new, Bpages

-----------------------------------------------------------------------------
(* Invariance *)

\* The ends of a region are numbers.
Ends(x) == x.rg_start \in Int /\ x.rg_end \in Int

\* Region x lies in region y.
Within(v, x, y) == Lo(v, y) <= Lo(v, x) /\ Hi(v, x) <= Hi(v, y)

LEMMA WithinFacts ==
    ASSUME NEW v \in Vma, NEW x, NEW y, NEW z, Ends(x), Ends(y), Ends(z), Within(v, x, y)
    PROVE  /\ Clear(v, y, z) => Clear(v, x, z)
           /\ Clear(v, z, y) => Clear(v, z, x)
           /\ Clear(v, z, y) => Clear(v, x, z)
           /\ Length(v, x) <= Length(v, y)
           /\ sbrk \in [Vma -> Int] /\ Used(v, y) => Used(v, x)
<1>1. /\ Lo(v, x) \in Int /\ Hi(v, x) \in Int /\ Lo(v, y) \in Int /\ Hi(v, y) \in Int
      /\ Lo(v, z) \in Int /\ Hi(v, z) \in Int
      /\ Length(v, x) = Hi(v, x) - Lo(v, x) + 1 /\ Length(v, y) = Hi(v, y) - Lo(v, y) + 1
    BY LengthFacts DEF Ends
<1>2. /\ Clear(v, y, z) => Clear(v, x, z)
      /\ Clear(v, z, y) => Clear(v, z, x)
      /\ Clear(v, z, y) => Clear(v, x, z)
      /\ Length(v, x) <= Length(v, y)
    BY <1>1 DEF Clear, Within
<1>3. ASSUME sbrk \in [Vma -> Int], Used(v, y) PROVE Used(v, x)
  <2>1. sbrk[0] \in Int /\ sbrk[1] \in Int
    BY <1>3, Constants
  <2> QED
    BY <1>3, <2>1, Constants DEF Used, Within, Lo, Hi, Ends
<1> QED
    BY <1>2, <1>3

\* The regions of the state have numbers as their ends.
LEMMA StateEnds ==
    ASSUME TypeOK, ListInv
    PROVE  /\ \A r \in Rgid : /\ Ends(symrgtbl[r]) /\ symrgtbl[r].vmaid \in Vma
                              /\ symrgtbl[r].rg_start \in Addr /\ symrgtbl[r].rg_end \in Addr
           /\ \A v \in Vma : \A i \in 1 .. Len(vm_freerg_list[v]) : Ends(vm_freerg_list[v][i])
           /\ sbrk \in [Vma -> Int]
<1>1. \A r \in Rgid : /\ symrgtbl[r].rg_start \in Addr /\ symrgtbl[r].rg_end \in Addr
                      /\ symrgtbl[r].vmaid \in Vma
    BY DEF TypeOK
<1>2. sbrk \in [Vma -> Int]
    BY Constants DEF TypeOK
<1> QED
    BY <1>1, <1>2, ListFacts, Constants DEF Ends

LEMMA RequestFacts ==
    ASSUME NEW size \in Sizes
    PROVE  size \in Nat \ {0} /\ (size # 1 => size >= 2)
BY RequestAssumption

\* A free region was found.
LEMMA AllocFreeStep ==
    ASSUME IInv, NEW v \in Vma, NEW r \in Rgid, NEW size \in Sizes, size # 1,
           alloc_free(v, r, size)
    PROVE  IInv'
<1> DEFINE list == vm_freerg_list[v]
           new == FreeList(v, size)
<1>a. TypeOK /\ ListInv /\ LiveInv /\ UsedInv /\ ClearInv /\ BorderInv /\ StackReserved
    BY DEF IInv
<1>b. size \in Nat /\ size >= 2
    BY RequestFacts
<1>x. PICK x : x = FoundRegion(v, size)
    OBVIOUS
<1>1. /\ Fitting(v, size) # {} /\ SetSymbol(r, v, x)
      /\ vm_freerg_list' = [vm_freerg_list EXCEPT ![v] = new]
      /\ pgd' = pgd \cup PagesOf(Bytes(v, x))
      /\ sbrk' = sbrk /\ vm_end' = vm_end /\ dirty' = dirty /\ hung' = hung
    BY <1>x DEF alloc_free
<1>2. /\ x \in FreeRg /\ x.rg_start \in Addr /\ x.rg_end \in Addr
      /\ Hi(v, x) = Lo(v, x) + size - 1
    BY <1>a, <1>b, <1>x, <1>1, FoundFacts
<1>3. PICK i \in 1 .. Len(list) :
            /\ Length(v, list[i]) >= size /\ Within(v, x, list[i])
            /\ Clear(v, x, Left(v, list[i], size))
    BY <1>a, <1>b, <1>x, <1>1, FoundFacts DEF Within
<1>4. new \in Seq(FreeRg) /\ Len(new) >= 1
    BY <1>a, <1>b, FreeListFacts
<1>5. PICK f \in [1 .. Len(new) -> 1 .. Len(list)] :
            /\ \A k, l \in 1 .. Len(new) : k # l => f[k] # f[l]
            /\ \A k \in 1 .. Len(new) :
                  /\ Lo(v, new[k]) <= Hi(v, new[k])
                  /\ Length(v, new[k]) > 1 => new[k] = Left(v, list[f[k]], size)
    BY <1>a, <1>b, FreeListFacts
<1>6. /\ vm_freerg_list \in [Vma -> Seq(FreeRg)]
      /\ vm_freerg_list' \in [Vma -> Seq(FreeRg)]
      /\ vm_freerg_list'[v] = new
      /\ \A u \in Vma : u # v => vm_freerg_list'[u] = vm_freerg_list[u]
  <2>1. vm_freerg_list \in [Vma -> Seq(FreeRg)]
    BY <1>a DEF TypeOK, FreeRg
  <2> HIDE DEF new
  <2> QED
    BY <1>1, <1>4, <2>1
<1>7. Ends(x)
    BY <1>2, Constants DEF Ends
<1>8. /\ \A s \in Rgid : Ends(symrgtbl[s])
      /\ \A k \in 1 .. Len(list) : Ends(list[k])
      /\ sbrk \in [Vma -> Int]
    BY <1>a, StateEnds
<1> HIDE DEF new
<1>9. \A u \in Vma : u # v => Free(u)' = Free(u)
    BY <1>6 DEF Free
<1>10. i \in Free(v)
  <2>1. Length(v, list[i]) \in Int
    BY <1>3, <1>8, LengthFacts DEF Ends
  <2> QED
    BY <1>b, <1>3, <2>1 DEF Free
<1>11. ASSUME NEW k \in Free(v)'
       PROVE  /\ k \in 1 .. Len(new) /\ f[k] \in Free(v) /\ f[k] \in 1 .. Len(list)
              /\ Ends(new[k]) /\ Within(v, new[k], list[f[k]])
              /\ new[k] = Left(v, list[f[k]], size)
  <2>1. k \in 1 .. Len(new) /\ Length(v, new[k]) > 1
    BY <1>6 DEF Free
  <2>2. new[k] = Left(v, list[f[k]], size) /\ f[k] \in 1 .. Len(list)
    BY <1>5, <2>1
  <2>3. list[f[k]] \in FreeRg /\ Lo(v, list[f[k]]) <= Hi(v, list[f[k]]) /\ Ends(list[f[k]])
    BY <1>a, <1>8, <2>2, ListFacts
  <2>4. Ends(new[k]) /\ Within(v, new[k], list[f[k]])
    BY <1>b, <2>2, <2>3, LeftFacts DEF Ends, Within
  <2>5. Length(v, new[k]) <= Length(v, list[f[k]])
    BY <2>3, <2>4, WithinFacts
  <2>6. Length(v, new[k]) \in Int /\ Length(v, list[f[k]]) \in Int
    BY <2>3, <2>4, LengthFacts DEF Ends
  <2>7. f[k] \in Free(v)
    BY <2>1, <2>2, <2>5, <2>6 DEF Free
  <2> QED
    BY <2>1, <2>2, <2>4, <2>7
<1>12. \A s \in Live(v) : Clear(v, x, symrgtbl[s])
  <2> SUFFICES ASSUME NEW s \in Live(v) PROVE Clear(v, x, symrgtbl[s])
    OBVIOUS
  <2>1. s \in Rgid /\ Clear(v, symrgtbl[s], list[i])
    BY <1>a, <1>10 DEF ClearInv, Live
  <2> QED
    BY <2>1, <1>3, <1>7, <1>8, WithinFacts
<1>13. \A k \in Free(v)' : Clear(v, x, vm_freerg_list'[v][k])
  <2> SUFFICES ASSUME NEW k \in Free(v)' PROVE Clear(v, x, new[k])
    BY <1>6
  <2>1. CASE f[k] = i
    BY <1>3, <1>11, <2>1
  <2>2. CASE f[k] # i
    <3>1. Clear(v, list[i], list[f[k]])
      BY <1>a, <1>10, <1>11, <2>2 DEF ClearInv
    <3>2. Clear(v, x, list[f[k]])
      BY <1>3, <1>7, <1>8, <1>11, <3>1, WithinFacts
    <3> QED
      BY <1>7, <1>8, <1>11, <3>2, WithinFacts
  <2> QED
    BY <2>1, <2>2
<1>14. ASSUME NEW u \in Vma
       PROVE  /\ \A s \in Live(u), k \in Free(u)' :
                    Clear(u, symrgtbl[s], vm_freerg_list'[u][k])
              /\ \A k, l \in Free(u)' :
                    k # l => Clear(u, vm_freerg_list'[u][k], vm_freerg_list'[u][l])
              /\ \A k \in Free(u)' : Used(u, vm_freerg_list[u][k])'
  <2>1. CASE u # v
    <3>1. Free(u)' = Free(u) /\ vm_freerg_list'[u] = vm_freerg_list[u]
      BY <1>6, <1>9, <2>1
    <3>2. \A k \in Free(u)' : Used(u, vm_freerg_list[u][k])'
      BY <1>a, <1>1, <3>1 DEF UsedInv, Used
    <3> QED
      BY <1>a, <3>1, <3>2 DEF ClearInv
  <2>2. CASE u = v
    <3>1. ASSUME NEW s \in Live(v), NEW k \in Free(v)'
          PROVE  Clear(v, symrgtbl[s], new[k])
      <4>1. s \in Rgid /\ Clear(v, symrgtbl[s], list[f[k]])
        BY <1>a, <1>11 DEF ClearInv, Live
      <4> QED
        BY <4>1, <1>8, <1>11, WithinFacts
    <3>2. ASSUME NEW k \in Free(v)', NEW l \in Free(v)', k # l
          PROVE  Clear(v, new[k], new[l])
      <4>1. Clear(v, list[f[k]], list[f[l]])
        BY <1>a, <1>5, <1>11, <3>2 DEF ClearInv
      <4>2. Clear(v, new[k], list[f[l]])
        BY <1>8, <1>11, <4>1, WithinFacts
      <4> QED
        BY <1>8, <1>11, <4>2, WithinFacts
    <3>3. ASSUME NEW k \in Free(v)' PROVE Used(v, vm_freerg_list[v][k])'
      <4>1. Used(v, list[f[k]])
        BY <1>a, <1>11 DEF UsedInv
      <4>2. Used(v, new[k])
        BY <1>8, <1>11, <4>1, WithinFacts
      <4> QED
        BY <1>1, <1>6, <4>2 DEF Used
    <3> QED
      BY <1>6, <2>2, <3>1, <3>2, <3>3
  <2> QED
    BY <2>1, <2>2
<1>15. Used(v, x)'
  <2>1. Used(v, list[i])
    BY <1>a, <1>10 DEF UsedInv
  <2>2. Used(v, x)
    BY <1>3, <1>7, <1>8, <2>1, WithinFacts
  <2> QED
    BY <1>1, <2>2 DEF Used
<1>16. \A u \in Vma, s \in Rgid :
           Used(u, symrgtbl[s]) /\ symrgtbl'[s] = symrgtbl[s] => Used(u, symrgtbl[s])'
    BY <1>1 DEF Used
<1>17. LiveInv' /\ ClearInv' /\ UsedInv'
  <2>1. Lo(v, x) < Hi(v, x)
    BY <1>b, <1>2, <1>7, LengthFacts DEF Ends
  <2> QED
    BY <1>a, <1>1, <1>2, <1>12, <1>13, <1>14, <1>15, <1>16, <2>1, HandOut
<1>18. TypeOK'
  <2>1. symrgtbl' \in [Rgid -> [rg_start : Addr, rg_end : Addr, vmaid : Vma]]
    BY <1>a, <1>1, <1>2, SymbolFacts
  <2>2. Bytes(v, x) \subseteq 0 .. BUSSZ - 1
    BY <1>2, Constants DEF Bytes
  <2>3. pgd' \subseteq 0 .. (BUSSZ \div PAGESZ) - 1
    BY <1>a, <1>1, <2>2, PagesRange DEF TypeOK
  <2> QED
    BY <1>a, <1>1, <1>6, <2>1, <2>3 DEF TypeOK, FreeRg
<1>19. ListInv'
  <2> SUFFICES ASSUME NEW u \in Vma
               PROVE  /\ Len(vm_freerg_list'[u]) >= 1
                      /\ \A k \in 1 .. Len(vm_freerg_list'[u]) :
                            Lo(u, vm_freerg_list'[u][k]) <= Hi(u, vm_freerg_list'[u][k])
    BY DEF ListInv
  <2>1. CASE u = v
    BY <1>4, <1>5, <1>6, <2>1
  <2>2. CASE u # v
    BY <1>a, <1>6, <2>2 DEF ListInv
  <2> QED
    BY <2>1, <2>2
<1>20. BorderInv' /\ StackReserved'
    BY <1>a, <1>1 DEF BorderInv, StackReserved, PageOf
<1> QED
    BY <1>17, <1>18, <1>19, <1>20 DEF IInv

\* The region handed out at the border is as long as the request and lies
\* beyond everything that was handed out before.
LEMMA CommitFacts ==
    ASSUME TypeOK, BorderInv, NEW v \in Vma, NEW r \in Rgid,
           NEW size \in Nat, size >= 2, ~OutOfVm(v, size), commit(v, r, size)
    PROVE  \E x \in FreeRg :
               /\ SetSymbol(r, v, x) /\ Ends(x)
               /\ Hi(v, x) = Lo(v, x) + size - 1
               /\ sbrk' \in [Vma -> 0 .. vmemsz]
               /\ \A u \in Vma : u # v => sbrk'[u] = sbrk[u]
               /\ v = 0 => sbrk'[0] = sbrk[0] + size /\ x.rg_start = sbrk[0]
                           /\ x.rg_end < sbrk'[0]
               /\ v = 1 => /\ sbrk[1] - size <= sbrk'[1] /\ sbrk'[1] < sbrk[1]
                           /\ sbrk'[1] <= x.rg_end
                           /\ x.rg_start < sbrk[1] \/ sbrk[1] = vmemsz - 1
<1> DEFINE start == IF v = 0 \/ sbrk[1] = vmemsz - 1 THEN sbrk[v] ELSE sbrk[1] - 1
           b == IF v = 0 THEN sbrk[0] + size ELSE start - size + 1
<1>x. PICK x : x = Region(start, Advance(v, start, size - 1))
    OBVIOUS
<1>1. SetSymbol(r, v, x) /\ sbrk' = [sbrk EXCEPT ![v] = b]
    BY <1>x DEF commit
<1>2. /\ sbrk \in [Vma -> 0 .. vmemsz]
      /\ sbrk[0] \in Nat /\ sbrk[1] \in Nat /\ sbrk[1] <= vmemsz - 1
      /\ vmemsz \in Nat /\ vmemsz >= 1
    BY BorderTypes, Constants DEF TypeOK
<1>3. x.rg_start = start /\ x.rg_end = Advance(v, start, size - 1)
    BY <1>x DEF Region
<1>4. CASE v = 0
  <2>1. start = sbrk[0] /\ b = sbrk[0] + size /\ sbrk[0] + size <= vmemsz
    BY <1>2, <1>4 DEF OutOfVm
  <2>2. x.rg_end = sbrk[0] + (size - 1)
    BY <1>3, <1>4, <2>1 DEF Advance
  <2> HIDE DEF start, b
  <2>3. x.rg_start \in Addr /\ x.rg_end \in Addr
    BY <1>2, <1>3, <2>1, <2>2, Constants
  <2>4. x \in FreeRg /\ Ends(x)
    BY <1>x, <1>3, <2>3, Constants DEF FreeRg, Ends, Region
  <2>5. sbrk' \in [Vma -> 0 .. vmemsz] /\ sbrk'[0] = b /\ sbrk'[1] = sbrk[1]
    BY <1>1, <1>2, <1>4, <2>1, Constants
  <2>6. Hi(v, x) = Lo(v, x) + size - 1
    BY <1>2, <1>3, <1>4, <2>1, <2>2 DEF Hi, Lo
  <2> QED
    BY <1>1, <1>2, <1>3, <1>4, <2>1, <2>2, <2>4, <2>5, <2>6, Constants
<1>5. CASE v = 1
  <2>1. /\ start \in Int /\ b = start - size + 1 /\ 0 <= sbrk[1] - size
        /\ start = sbrk[1] - 1 \/ (start = sbrk[1] /\ sbrk[1] = vmemsz - 1)
    BY <1>2, <1>5 DEF OutOfVm
  <2>2. x.rg_end = start - (size - 1)
    BY <1>3, <1>5, <2>1 DEF Advance
  <2> HIDE DEF start, b
  <2>3. x.rg_start \in Addr /\ x.rg_end \in Addr /\ b \in 0 .. vmemsz
    BY <1>2, <1>3, <2>1, <2>2, Constants
  <2>4. x \in FreeRg /\ Ends(x)
    BY <1>x, <1>3, <2>3, Constants DEF FreeRg, Ends, Region
  <2>5. sbrk' \in [Vma -> 0 .. vmemsz] /\ sbrk'[1] = b /\ sbrk'[0] = sbrk[0]
    BY <1>1, <1>2, <1>5, <2>3, Constants
  <2>6. Hi(v, x) = Lo(v, x) + size - 1
    BY <1>2, <1>3, <1>5, <2>1, <2>2 DEF Hi, Lo
  <2>7. /\ sbrk[1] - size <= b /\ b < sbrk[1] /\ b <= x.rg_end
        /\ x.rg_start < sbrk[1] \/ sbrk[1] = vmemsz - 1
    BY <1>2, <1>3, <2>1, <2>2
  <2> QED
    BY <1>1, <1>5, <2>4, <2>5, <2>6, <2>7, Constants
<1> QED
    BY <1>4, <1>5, Constants

\* No free region was found, and the space at the border is taken.
LEMMA CommitStep ==
    ASSUME IInv, NEW v \in Vma, NEW r \in Rgid, NEW size \in Sizes, size # 1,
           ~OutOfVm(v, size), commit(v, r, size),
           UNCHANGED vm_freerg_list
    PROVE  /\ ListInv' /\ LiveInv' /\ UsedInv' /\ ClearInv'
           /\ symrgtbl' \in [Rgid -> [rg_start : Addr, rg_end : Addr, vmaid : Vma]]
           /\ sbrk' \in [Vma -> 0 .. vmemsz]
<1>a. TypeOK /\ ListInv /\ LiveInv /\ UsedInv /\ ClearInv /\ BorderInv
    BY DEF IInv
<1>b. size \in Nat /\ size >= 2
    BY RequestFacts
<1>1. PICK x \in FreeRg :
               /\ SetSymbol(r, v, x) /\ Ends(x)
               /\ Hi(v, x) = Lo(v, x) + size - 1
               /\ sbrk' \in [Vma -> 0 .. vmemsz]
               /\ \A u \in Vma : u # v => sbrk'[u] = sbrk[u]
               /\ v = 0 => sbrk'[0] = sbrk[0] + size /\ x.rg_start = sbrk[0]
                           /\ x.rg_end < sbrk'[0]
               /\ v = 1 => /\ sbrk[1] - size <= sbrk'[1] /\ sbrk'[1] < sbrk[1]
                           /\ sbrk'[1] <= x.rg_end
                           /\ x.rg_start < sbrk[1] \/ sbrk[1] = vmemsz - 1
    BY <1>a, <1>b, CommitFacts
<1>2. /\ sbrk[0] \in Nat /\ sbrk[1] \in Nat /\ sbrk[1] <= vmemsz - 1
      /\ sbrk'[0] \in Int /\ sbrk'[1] \in Int
    BY <1>a, <1>1, BorderTypes, Constants
<1>3. /\ \A s \in Rgid : /\ Ends(symrgtbl[s])
                         /\ symrgtbl[s].rg_start \in Addr /\ symrgtbl[s].rg_end \in Addr
      /\ \A u \in Vma : \A k \in 1 .. Len(vm_freerg_list[u]) :
             /\ Ends(vm_freerg_list[u][k])
             /\ vm_freerg_list[u][k].rg_start \in Addr /\ vm_freerg_list[u][k].rg_end \in Addr
    BY <1>a, StateEnds, ListFacts
<1>4. \A u \in Vma : Free(u)' = Free(u)
    BY DEF Free
\* A region with two or more bytes behind the border is clear of the new one.
<1>5. ASSUME NEW y, Ends(y), y.rg_start \in Addr, y.rg_end \in Addr,
             Lo(v, y) < Hi(v, y), Used(v, y)
      PROVE  Clear(v, x, y)
  <2>1. CASE v = 0
    BY <1>1, <1>2, <1>5, <2>1 DEF Used, Clear, Lo, Hi, Ends
  <2>2. CASE v = 1
    BY <1>1, <1>2, <1>5, <2>2, Constants DEF Used, Clear, Lo, Hi, Ends
  <2> QED
    BY <2>1, <2>2, Constants
<1>6. ASSUME NEW u \in Vma, NEW y, Ends(y), Used(u, y)
      PROVE  IF u = 0 THEN y.rg_end < sbrk'[0] ELSE sbrk'[1] <= y.rg_end
  <2>1. sbrk[0] <= sbrk'[0] /\ sbrk'[1] <= sbrk[1]
    BY <1>b, <1>1, <1>2, Constants
  <2> QED
    BY <1>2, <1>6, <2>1, Constants DEF Used, Ends
<1>7. Lo(v, x) < Hi(v, x)
    BY <1>b, <1>1, LengthFacts DEF Ends
<1>8. Used(v, x)'
    BY <1>1, Constants DEF Used
<1>9. \A s \in Live(v) : Clear(v, x, symrgtbl[s])
  <2> SUFFICES ASSUME NEW s \in Live(v) PROVE Clear(v, x, symrgtbl[s])
    OBVIOUS
  <2>1. s \in Rgid /\ Lo(v, symrgtbl[s]) < Hi(v, symrgtbl[s]) /\ Used(v, symrgtbl[s])
    BY <1>a DEF LiveInv, UsedInv, Live
  <2> QED
    BY <1>3, <1>5, <2>1
<1>10. \A k \in Free(v)' : Clear(v, x, vm_freerg_list'[v][k])
  <2> SUFFICES ASSUME NEW k \in Free(v) PROVE Clear(v, x, vm_freerg_list[v][k])
    BY <1>4
  <2>1. /\ k \in 1 .. Len(vm_freerg_list[v]) /\ Length(v, vm_freerg_list[v][k]) > 1
        /\ Used(v, vm_freerg_list[v][k])
    BY <1>a DEF UsedInv, Free
  <2>2. Lo(v, vm_freerg_list[v][k]) < Hi(v, vm_freerg_list[v][k])
    BY <1>3, <2>1, LengthFacts DEF Ends
  <2> QED
    BY <1>3, <1>5, <2>1, <2>2
<1>11. \A u \in Vma, s \in Rgid :
           Used(u, symrgtbl[s]) /\ symrgtbl'[s] = symrgtbl[s] => Used(u, symrgtbl[s])'
    BY <1>3, <1>6 DEF Used
<1>12. ASSUME NEW u \in Vma
       PROVE  /\ \A s \in Live(u), k \in Free(u)' :
                    Clear(u, symrgtbl[s], vm_freerg_list'[u][k])
              /\ \A k, l \in Free(u)' :
                    k # l => Clear(u, vm_freerg_list'[u][k], vm_freerg_list'[u][l])
              /\ \A k \in Free(u)' : Used(u, vm_freerg_list[u][k])'
  <2>1. ASSUME NEW k \in Free(u) PROVE Used(u, vm_freerg_list[u][k])'
    <3>1. k \in 1 .. Len(vm_freerg_list[u]) /\ Used(u, vm_freerg_list[u][k])
      BY <1>a DEF UsedInv, Free
    <3> QED
      BY <1>3, <1>6, <3>1 DEF Used
  <2> QED
    BY <1>a, <1>4, <2>1 DEF ClearInv
<1>13. LiveInv' /\ ClearInv' /\ UsedInv'
    BY <1>a, <1>1, <1>7, <1>8, <1>9, <1>10, <1>11, <1>12, HandOut
<1>14. ListInv'
    BY <1>a DEF ListInv
<1> QED
    BY <1>a, <1>1, <1>13, <1>14, SymbolFacts

LEMMA AllocBorderStep ==
    ASSUME IInv, NEW v \in Vma, NEW r \in Rgid, NEW size \in Sizes, size # 1,
           alloc_border(v, r, size)
    PROVE  IInv'
<1>a. TypeOK /\ ListInv /\ LiveInv /\ UsedInv /\ ClearInv /\ BorderInv /\ StackReserved
    BY DEF IInv
<1>b. size \in Nat \ {0} /\ size >= 2
    BY RequestFacts
<1>1. CASE UNCHANGED vars
    BY <1>1 DEF vars, IInv, TypeOK, ListInv, LiveInv, UsedInv, ClearInv, BorderInv,
        StackReserved, Live, Free, Unused, Used, PageOf
<1>2. ASSUME ~OutOfVm(v, size), MustGrow(v, size), inc_vma_limit(v, size),
             commit(v, r, size), UNCHANGED <<vm_freerg_list, dirty, hung>>
      PROVE  IInv'
  <2>1. /\ ListInv' /\ LiveInv' /\ UsedInv' /\ ClearInv'
        /\ symrgtbl' \in [Rgid -> [rg_start : Addr, rg_end : Addr, vmaid : Vma]]
        /\ sbrk' \in [Vma -> 0 .. vmemsz]
    BY <1>2, CommitStep
  <2>2. vm_end' = [vm_end EXCEPT ![v] = NewEnd(v, size)] /\ pgd' = pgd \cup NewPages(v, size)
    BY <1>2 DEF inc_vma_limit
  <2>3. vm_end \in [Vma -> -PAGESZ .. vmemsz] /\ pgd \subseteq 0 .. (BUSSZ \div PAGESZ) - 1
    BY <1>a DEF TypeOK
  <2>4. CASE v = 0
    <3> DEFINE e == NewEnd(0, size)
    <3>1. /\ e \in Nat /\ e <= vmemsz /\ sbrk[0] + size <= e /\ e % PAGESZ = 0
          /\ NewPages(0, size) \subseteq 0 .. (BUSSZ \div PAGESZ) - 1
          /\ \A a \in 0 .. e - 1 : PageOf(a) \in pgd \cup NewPages(0, size)
      BY <1>a, <1>b, <1>2, <2>4, GrowStack
    <3> HIDE DEF e
    <3>2. vm_end' = [vm_end EXCEPT ![0] = e] /\ pgd' = pgd \cup NewPages(0, size)
      BY <2>2, <2>4 DEF e
    <3>3. vm_end' \in [Vma -> -PAGESZ .. vmemsz] /\ vm_end'[0] = e /\ vm_end'[1] = vm_end[1]
      BY <2>3, <3>1, <3>2, Constants
    <3>4. sbrk'[0] = sbrk[0] + size /\ sbrk'[1] = sbrk[1]
      BY <1>a, <1>b, <1>2, <2>4, CommitFacts, Constants
    <3>5. BorderInv'
      BY <1>a, <3>1, <3>3, <3>4 DEF BorderInv
    <3>6. StackReserved'
      BY <3>1, <3>2, <3>3 DEF StackReserved, PageOf
    <3>7. TypeOK'
      BY <1>a, <1>2, <2>1, <2>3, <3>1, <3>2, <3>3 DEF TypeOK
    <3> QED
      BY <2>1, <3>5, <3>6, <3>7 DEF IInv
  <2>5. CASE v = 1
    <3> DEFINE e == NewEnd(1, size)
    <3>1. /\ e \in Int /\ -PAGESZ <= e /\ e <= sbrk[1] - size /\ e % PAGESZ = 0
          /\ NewPages(1, size) \subseteq 0 .. (BUSSZ \div PAGESZ) - 1
      BY <1>a, <1>b, <1>2, <2>5, GrowHeap
    <3> HIDE DEF e
    <3>2. vm_end' = [vm_end EXCEPT ![1] = e] /\ pgd' = pgd \cup NewPages(1, size)
      BY <2>2, <2>5 DEF e
    <3>3. e \in -PAGESZ .. vmemsz
      <4>1. sbrk[1] \in Nat /\ sbrk[1] <= vmemsz - 1 /\ vmemsz \in Nat /\ PAGESZ \in Nat
        BY <1>a, BorderTypes, Constants
      <4> QED
        BY <1>b, <3>1, <4>1
    <3>4. vm_end' \in [Vma -> -PAGESZ .. vmemsz] /\ vm_end'[1] = e /\ vm_end'[0] = vm_end[0]
      BY <2>3, <3>2, <3>3, Constants
    <3>5. sbrk[1] - size <= sbrk'[1] /\ sbrk'[1] < sbrk[1] /\ sbrk'[0] = sbrk[0]
      BY <1>a, <1>b, <1>2, <2>5, CommitFacts, Constants
    <3>6. sbrk'[1] \in Int
      BY <2>1, Constants
    <3>7. BorderInv'
      <4>1. sbrk[1] \in Nat /\ sbrk[1] <= vmemsz - 1 /\ vmemsz \in Nat
        BY <1>a, BorderTypes, Constants
      <4>2. e <= sbrk'[1] /\ sbrk'[1] < vmemsz
        BY <1>b, <3>1, <3>5, <3>6, <4>1
      <4> QED
        BY <1>a, <3>1, <3>4, <3>5, <4>2 DEF BorderInv
    <3>8. StackReserved'
      BY <1>a, <3>2, <3>4 DEF StackReserved, PageOf
    <3>9. TypeOK'
      BY <1>a, <1>2, <2>1, <2>3, <3>1, <3>2, <3>4 DEF TypeOK
    <3> QED
      BY <2>1, <3>7, <3>8, <3>9 DEF IInv
  <2> QED
    BY <2>4, <2>5, Constants
<1>3. ASSUME ~OutOfVm(v, size), ~MustGrow(v, size), commit(v, r, size),
             UNCHANGED <<vm_end, vm_freerg_list, pgd, dirty, hung>>
      PROVE  IInv'
  <2>1. /\ ListInv' /\ LiveInv' /\ UsedInv' /\ ClearInv'
        /\ symrgtbl' \in [Rgid -> [rg_start : Addr, rg_end : Addr, vmaid : Vma]]
        /\ sbrk' \in [Vma -> 0 .. vmemsz]
    BY <1>3, CommitStep
  <2>2. TypeOK'
    BY <1>a, <1>3, <2>1 DEF TypeOK
  <2>3. StackReserved'
    BY <1>a, <1>3 DEF StackReserved, PageOf
  <2>4. CASE v = 0
    <3>1. sbrk'[0] = sbrk[0] + size /\ sbrk'[1] = sbrk[1]
      BY <1>a, <1>b, <1>3, <2>4, CommitFacts, Constants
    <3>2. sbrk[0] + size <= vm_end[0]
      BY <1>a, <1>b, <1>3, <2>4, BorderTypes DEF MustGrow
    <3>3. BorderInv'
      BY <1>a, <1>3, <3>1, <3>2 DEF BorderInv
    <3> QED
      BY <2>1, <2>2, <2>3, <3>3 DEF IInv
  <2>5. CASE v = 1
    <3>1. sbrk[1] - size <= sbrk'[1] /\ sbrk'[1] < sbrk[1] /\ sbrk'[0] = sbrk[0]
      BY <1>a, <1>b, <1>3, <2>5, CommitFacts, Constants
    <3>2. vm_end[1] <= sbrk[1] - size /\ sbrk'[1] \in Int
      <4>1. sbrk[1] \in Nat /\ vm_end[1] \in Int /\ sbrk'[1] \in Int
        BY <1>a, <2>1, BorderTypes, Constants
      <4>2. ~(sbrk[1] - size < vm_end[1])
        BY <1>3, <2>5 DEF MustGrow
      <4> QED
        BY <1>b, <4>1, <4>2
    <3>3. BorderInv'
      <4>1. sbrk[1] \in Nat /\ sbrk[1] <= vmemsz - 1 /\ vmemsz \in Nat /\ vm_end[1] \in Int
        BY <1>a, BorderTypes, Constants
      <4>2. vm_end[1] <= sbrk'[1] /\ sbrk'[1] < vmemsz
        BY <1>b, <3>1, <3>2, <4>1
      <4> QED
        BY <1>a, <1>3, <3>1, <4>2 DEF BorderInv
    <3> QED
      BY <2>1, <2>2, <2>3, <3>3 DEF IInv
  <2> QED
    BY <2>4, <2>5, Constants
<1> QED
    BY <1>1, <1>2, <1>3 DEF alloc_border

LEMMA AllocStep ==
    ASSUME IInv, NEW v \in Vma, NEW r \in Rgid, NEW size \in Sizes, alloc(v, r, size)
    PROVE  IInv'
<1>1. CASE LoopsForever(v, size)
  <2>1. /\ hung' = TRUE
        /\ UNCHANGED <<sbrk, vm_end, vm_freerg_list, symrgtbl, pgd, dirty>>
    BY <1>1 DEF alloc, alloc_hang
  <2> QED
    BY <2>1 DEF IInv, TypeOK, ListInv, LiveInv, UsedInv, ClearInv, BorderInv,
        StackReserved, Live, Free, Unused, Used, PageOf
<1>2. CASE ~LoopsForever(v, size)
  <2>1. size # 1
    BY <1>2 DEF LoopsForever
  <2>2. alloc_free(v, r, size) \/ alloc_border(v, r, size)
    BY <1>2 DEF alloc
  <2> QED
    BY <2>1, <2>2, AllocFreeStep, AllocBorderStep
<1> QED
    BY <1>1, <1>2

\* A live region goes to the head of the free list of its area.
LEMMA FreeStep ==
    ASSUME IInv, NEW r \in Rgid, free(r)
    PROVE  IInv'
<1>v. PICK v : v = symrgtbl[r].vmaid
    OBVIOUS
<1>x. PICK x : x = Region(symrgtbl[r].rg_start, symrgtbl[r].rg_end)
    OBVIOUS
<1>a. TypeOK /\ ListInv /\ LiveInv /\ UsedInv /\ ClearInv /\ BorderInv /\ StackReserved
    BY DEF IInv
<1>1. /\ ~Unused(r)
      /\ dirty' = dirty \ Zeroed(x)
      /\ pgd' = pgd \cup PagesOf(Zeroed(x))
      /\ symrgtbl' = [symrgtbl EXCEPT ![r].rg_start = 0, ![r].rg_end = 0]
      /\ vm_freerg_list' = [vm_freerg_list EXCEPT ![v] = <<x>> \o @]
      /\ sbrk' = sbrk /\ vm_end' = vm_end /\ hung' = hung
    BY <1>v, <1>x DEF free
<1>2. /\ x.rg_start = symrgtbl[r].rg_start /\ x.rg_end = symrgtbl[r].rg_end
    BY <1>x DEF Region
<1>3. /\ v \in Vma /\ symrgtbl[r].rg_start \in Addr /\ symrgtbl[r].rg_end \in Addr
      /\ \A s \in Rgid : Ends(symrgtbl[s])
    BY <1>a, <1>v, StateEnds
<1>4. x \in FreeRg /\ Ends(x)
    BY <1>2, <1>3, <1>x, Constants DEF FreeRg, Region, Ends
<1>5. /\ Lo(v, x) = Lo(v, symrgtbl[r]) /\ Hi(v, x) = Hi(v, symrgtbl[r])
      /\ Lo(v, x) < Hi(v, x)
    BY <1>a, <1>v, <1>1, <1>2 DEF LiveInv, Lo, Hi
<1>6. r \in Live(v)
    BY <1>1, <1>v DEF Live
<1>7. /\ symrgtbl' \in [Rgid -> [rg_start : Addr, rg_end : Addr, vmaid : Vma]]
      /\ symrgtbl'[r].rg_start = 0 /\ symrgtbl'[r].rg_end = 0
      /\ \A s \in Rgid : s # r => symrgtbl'[s] = symrgtbl[s]
  <2>1. 0 \in Addr
    BY Constants
  <2> QED
    BY <1>a, <1>1, <2>1 DEF TypeOK
<1>8. Unused(r)' /\ \A u \in Vma : Live(u)' \subseteq Live(u) \ {r}
  <2>1. Unused(r)'
    BY <1>7 DEF Unused
  <2>2. \A s \in Rgid : s # r => Unused(s)' = Unused(s)
    BY <1>7 DEF Unused
  <2> QED
    BY <1>7, <2>1, <2>2 DEF Live
<1>9. vm_freerg_list \in [Vma -> Seq(FreeRg)] /\ Len(vm_freerg_list[v]) \in Nat
    BY <1>a, <1>3, ListFacts DEF TypeOK, FreeRg
<1>10. /\ vm_freerg_list' \in [Vma -> Seq(FreeRg)]
       /\ \A u \in Vma : u # v => vm_freerg_list'[u] = vm_freerg_list[u]
       /\ vm_freerg_list'[v] = <<x>> \o vm_freerg_list[v]
  <2>1. <<x>> \o vm_freerg_list[v] \in Seq(FreeRg)
    BY <1>3, <1>4, <1>9
  <2> QED
    BY <1>1, <1>3, <1>9, <2>1
<1>11. /\ Len(vm_freerg_list'[v]) = Len(vm_freerg_list[v]) + 1
       /\ vm_freerg_list'[v][1] = x
       /\ \A k \in 2 .. Len(vm_freerg_list[v]) + 1 :
              k - 1 \in 1 .. Len(vm_freerg_list[v]) /\ vm_freerg_list'[v][k] = vm_freerg_list[v][k - 1]
    BY <1>3, <1>4, <1>9, <1>10
<1>12. ASSUME NEW k \in Free(v)', k # 1
       PROVE  k - 1 \in Free(v) /\ vm_freerg_list'[v][k] = vm_freerg_list[v][k - 1] /\ k \in Int
  <2>1. k \in 1 .. Len(vm_freerg_list'[v]) /\ Length(v, vm_freerg_list'[v][k]) > 1
    BY DEF Free
  <2>2. k \in 2 .. Len(vm_freerg_list[v]) + 1
    BY <1>9, <1>11, <1>12, <2>1
  <2> QED
    BY <1>11, <2>1, <2>2 DEF Free
<1>13. \A u \in Vma : u # v => Free(u)' = Free(u)
    BY <1>10 DEF Free
<1>14. LiveInv'
  <2> SUFFICES ASSUME NEW s \in Rgid, ~Unused(s)'
               PROVE  Lo(symrgtbl'[s].vmaid, symrgtbl'[s]) < Hi(symrgtbl'[s].vmaid, symrgtbl'[s])
    BY DEF LiveInv
  <2>1. s # r
    BY <1>8
  <2> QED
    BY <1>a, <1>7, <2>1 DEF LiveInv, Unused
<1>15. ListInv'
  <2> SUFFICES ASSUME NEW u \in Vma
               PROVE  /\ Len(vm_freerg_list'[u]) >= 1
                      /\ \A k \in 1 .. Len(vm_freerg_list'[u]) :
                            Lo(u, vm_freerg_list'[u][k]) <= Hi(u, vm_freerg_list'[u][k])
    BY DEF ListInv
  <2>1. CASE u # v
    BY <1>a, <1>10, <2>1 DEF ListInv
  <2>2. CASE u = v
    <3>1. ASSUME NEW k \in 1 .. Len(vm_freerg_list'[v])
          PROVE  Lo(v, vm_freerg_list'[v][k]) <= Hi(v, vm_freerg_list'[v][k])
      <4>1. CASE k = 1
        BY <1>3, <1>4, <1>5, <1>11, <4>1, LengthFacts DEF Ends
      <4>2. CASE k # 1
        <5>1. k \in 2 .. Len(vm_freerg_list[v]) + 1
          BY <1>9, <1>11, <4>2
        <5> QED
          BY <1>a, <1>3, <1>11, <5>1 DEF ListInv
      <4> QED
        BY <4>1, <4>2
    <3> QED
      BY <1>9, <1>11, <2>2, <3>1
  <2> QED
    BY <2>1, <2>2
<1>16. UsedInv'
  <2> SUFFICES ASSUME NEW u \in Vma
               PROVE  /\ \A s \in Live(u)' : Used(u, symrgtbl[s])'
                      /\ \A k \in Free(u)' : Used(u, vm_freerg_list[u][k])'
    BY DEF UsedInv
  <2>1. ASSUME NEW s \in Live(u)' PROVE Used(u, symrgtbl[s])'
    <3>1. s \in Live(u) /\ symrgtbl'[s] = symrgtbl[s]
      BY <1>7, <1>8 DEF Live
    <3> QED
      BY <1>a, <1>1, <3>1 DEF UsedInv, Used
  <2>2. ASSUME NEW k \in Free(u)' PROVE Used(u, vm_freerg_list[u][k])'
    <3>1. CASE u # v
      BY <1>a, <1>1, <1>10, <1>13, <3>1 DEF UsedInv, Used
    <3>2. CASE u = v /\ k # 1
      <4>1. Used(v, vm_freerg_list[v][k - 1])
        BY <1>a, <1>3, <1>12, <3>2 DEF UsedInv
      <4> QED
        BY <1>1, <1>12, <3>2, <4>1 DEF Used
    <3>3. CASE u = v /\ k = 1
      <4>1. Used(v, symrgtbl[r])
        BY <1>a, <1>3, <1>6 DEF UsedInv
      <4> QED
        BY <1>1, <1>2, <1>11, <3>3, <4>1 DEF Used
    <3> QED
      BY <3>1, <3>2, <3>3
  <2> QED
    BY <2>1, <2>2
<1>17. ASSUME NEW y, Clear(v, symrgtbl[r], y) PROVE Clear(v, x, y) /\ Clear(v, y, x)
    BY <1>5, <1>17 DEF Clear
<1>18. ClearInv'
  <2> SUFFICES ASSUME NEW u \in Vma
               PROVE  /\ \A s, t \in Live(u)' : s # t => Clear(u, symrgtbl'[s], symrgtbl'[t])
                      /\ \A s \in Live(u)', i \in Free(u)' :
                            Clear(u, symrgtbl'[s], vm_freerg_list'[u][i])
                      /\ \A i, j \in Free(u)' :
                            i # j => Clear(u, vm_freerg_list'[u][i], vm_freerg_list'[u][j])
    BY DEF ClearInv
  <2>0. \A s \in Live(u)' : s \in Live(u) /\ s # r /\ symrgtbl'[s] = symrgtbl[s]
    BY <1>7, <1>8 DEF Live
  <2>1. \A s, t \in Live(u)' : s # t => Clear(u, symrgtbl'[s], symrgtbl'[t])
    BY <1>a, <2>0 DEF ClearInv
  <2>2. CASE u # v
    BY <1>a, <1>10, <1>13, <2>0, <2>1, <2>2 DEF ClearInv
  <2>3. CASE u = v
    <3>1. ASSUME NEW s \in Live(v)', NEW i \in Free(v)'
          PROVE  Clear(v, symrgtbl'[s], vm_freerg_list'[v][i])
      <4>1. CASE i = 1
        <5>1. Clear(v, symrgtbl[r], symrgtbl[s])
          BY <1>a, <1>3, <1>6, <2>0, <2>3, <3>1 DEF ClearInv
        <5> QED
          BY <1>11, <1>17, <2>0, <2>3, <4>1, <5>1
      <4>2. CASE i # 1
        BY <1>a, <1>3, <1>12, <2>0, <2>3, <4>2 DEF ClearInv
      <4> QED
        BY <4>1, <4>2
    <3>2. ASSUME NEW i \in Free(v)', i # 1
          PROVE  Clear(v, x, vm_freerg_list'[v][i]) /\ Clear(v, vm_freerg_list'[v][i], x)
      <4>1. Clear(v, symrgtbl[r], vm_freerg_list[v][i - 1])
        BY <1>a, <1>3, <1>6, <1>12, <3>2 DEF ClearInv
      <4> QED
        BY <1>12, <1>17, <3>2, <4>1
    <3>3. ASSUME NEW i \in Free(v)', NEW j \in Free(v)', i # j, i # 1, j # 1
          PROVE  Clear(v, vm_freerg_list'[v][i], vm_freerg_list'[v][j])
      <4>1. i - 1 # j - 1
        BY <1>12, <3>3
      <4> QED
        BY <1>a, <1>3, <1>12, <3>3, <4>1 DEF ClearInv
    <3> QED
      BY <1>11, <2>1, <2>3, <3>1, <3>2, <3>3
  <2> QED
    BY <2>2, <2>3
<1>19. TypeOK'
  <2>1. Zeroed(x) \subseteq 0 .. BUSSZ - 1
    BY <1>2, <1>3, Constants DEF Zeroed
  <2>2. pgd' \subseteq 0 .. (BUSSZ \div PAGESZ) - 1
    BY <1>a, <1>1, <2>1, PagesRange DEF TypeOK
  <2> QED
    BY <1>a, <1>1, <1>7, <1>10, <2>2 DEF TypeOK, FreeRg
<1>20. BorderInv' /\ StackReserved'
    BY <1>a, <1>1 DEF BorderInv, StackReserved, PageOf
<1> QED
    BY <1>14, <1>15, <1>16, <1>18, <1>19, <1>20 DEF IInv

LEMMA TargetRange ==
    ASSUME TypeOK, NEW r \in Rgid, NEW off \in Offsets
    PROVE  /\ Advance(symrgtbl[r].vmaid, symrgtbl[r].rg_start, off) \in Int
           /\ Target(r, off) \in 0 .. BUSSZ - 1
           /\ Touched(r, off) \subseteq 0 .. (BUSSZ \div PAGESZ) - 1
<1>1. /\ symrgtbl[r].rg_start \in Addr /\ off \in Nat /\ Addr \subseteq Int
      /\ BUSSZ \in Nat \ {0}
    BY RequestAssumption, Constants DEF TypeOK
<1>2. Advance(symrgtbl[r].vmaid, symrgtbl[r].rg_start, off) \in Int
  <2>1. symrgtbl[r].rg_start \in Int
    BY <1>1, Zenon
  <2>2. off \in Int
    BY <1>1
  <2> QED
    BY <2>1, <2>2 DEF Advance
<1>3. Target(r, off) \in 0 .. BUSSZ - 1
    BY <1>1, <1>2 DEF Target
<1> QED
    BY <1>2, <1>3, PageRange DEF Touched

\* Reading and writing leaves the regions alone.
LEMMA AccessStep ==
    ASSUME IInv, NEW r \in Rgid, NEW off \in Offsets, pgread(r, off) \/ pgwrite(r, off)
    PROVE  IInv'
<1>a. TypeOK /\ ListInv /\ LiveInv /\ UsedInv /\ ClearInv /\ BorderInv /\ StackReserved
    BY DEF IInv
<1>1. /\ sbrk' = sbrk /\ vm_end' = vm_end /\ vm_freerg_list' = vm_freerg_list
      /\ symrgtbl' = symrgtbl /\ hung' = hung
      /\ pgd' = pgd \cup Touched(r, off)
      /\ dirty' \subseteq dirty \cup {Target(r, off)}
    BY DEF pgread, pgwrite
<1>2. TypeOK'
    BY <1>a, <1>1, TargetRange DEF TypeOK
<1>3. ListInv' /\ LiveInv' /\ UsedInv' /\ ClearInv' /\ BorderInv' /\ StackReserved'
    BY <1>a, <1>1 DEF ListInv, LiveInv, UsedInv, ClearInv, BorderInv, StackReserved,
        Live, Free, Unused, Used, PageOf
<1> QED
    BY <1>2, <1>3 DEF IInv

LEMMA StutterStep ==
    ASSUME IInv, UNCHANGED vars
    PROVE  IInv'
BY DEF vars, IInv, TypeOK, ListInv, LiveInv, UsedInv, ClearInv, BorderInv,
    StackReserved, Live, Free, Unused, Used, PageOf

LEMMA InitIInv ==
    ASSUME Init
    PROVE  IInv
<1>1. /\ sbrk = vm_start /\ vm_end = vm_start
      /\ vm_freerg_list = [v \in Vma |-> <<Region(vm_start[v], vm_start[v])>>]
      /\ symrgtbl = [r \in Rgid |-> [rg_start |-> 0, rg_end |-> 0, vmaid |-> 0]]
      /\ pgd = {} /\ dirty = {} /\ hung = FALSE
    BY DEF Init
<1>2. /\ vm_start[0] = 0 /\ vm_start[1] = vmemsz - 1 /\ vm_start \in [Vma -> Addr]
      /\ 0 \in Addr /\ vmemsz - 1 \in Addr
    BY Constants DEF vm_start
<1>3. ASSUME NEW v \in Vma
      PROVE  /\ vm_freerg_list[v] = <<Region(vm_start[v], vm_start[v])>>
             /\ vm_freerg_list[v] \in Seq(FreeRg)
             /\ Len(vm_freerg_list[v]) = 1
             /\ Lo(v, vm_freerg_list[v][1]) = vm_start[v]
             /\ Hi(v, vm_freerg_list[v][1]) = vm_start[v]
             /\ Length(v, vm_freerg_list[v][1]) = 1
  <2> DEFINE x == Region(vm_start[v], vm_start[v])
  <2>1. vm_freerg_list[v] = <<x>>
    BY <1>1
  <2>2. /\ vm_start[v] \in Addr /\ x \in FreeRg
        /\ x.rg_start = vm_start[v] /\ x.rg_end = vm_start[v]
    BY <1>2 DEF Region, FreeRg
  <2> HIDE DEF x
  <2>3. Lo(v, x) = vm_start[v] /\ Hi(v, x) = vm_start[v]
    BY <2>2 DEF Lo, Hi
  <2>4. Length(v, x) = 1
    BY <2>2, Constants DEF Length
  <2> QED
    BY <2>1, <2>2, <2>3, <2>4 DEF x
<1>4. \A r \in Rgid : Unused(r)
    BY <1>1 DEF Unused
<1>5. \A v \in Vma : Live(v) = {} /\ Free(v) = {}
  <2>1. \A v \in Vma : Live(v) = {}
    BY <1>4 DEF Live
  <2>2. ASSUME NEW v \in Vma, NEW i \in Free(v) PROVE FALSE
    <3>1. i \in 1 .. 1 /\ Length(v, vm_freerg_list[v][i]) > 1
      BY <1>3 DEF Free
    <3>2. i = 1
      BY <3>1
    <3> QED
      BY <1>3, <3>1, <3>2
  <2> QED
    BY <2>1, <2>2
<1>6. TypeOK
  <2>1. sbrk \in [Vma -> 0 .. vmemsz] /\ vm_end \in [Vma -> -PAGESZ .. vmemsz]
    BY <1>1, <1>2, Constants
  <2>2. vm_freerg_list \in [Vma -> Seq(FreeRg)]
    BY <1>1, <1>3
  <2>3. symrgtbl \in [Rgid -> [rg_start : Addr, rg_end : Addr, vmaid : Vma]]
    BY <1>1, <1>2, Constants
  <2> QED
    BY <1>1, <2>1, <2>2, <2>3 DEF TypeOK, FreeRg
<1>7. ListInv
  <2>1. ASSUME NEW v \in Vma, NEW i \in 1 .. Len(vm_freerg_list[v])
        PROVE  Lo(v, vm_freerg_list[v][i]) <= Hi(v, vm_freerg_list[v][i])
    <3>1. i = 1
      <4>1. i \in 1 .. 1
        BY <1>3
      <4> QED
        BY <4>1
    <3>2. vm_start[v] \in Int
      BY <1>2, Constants
    <3> QED
      BY <1>3, <3>1, <3>2
  <2> QED
    BY <1>3, <2>1 DEF ListInv
<1>8. LiveInv /\ UsedInv /\ ClearInv
    BY <1>4, <1>5 DEF LiveInv, UsedInv, ClearInv
<1>9. BorderInv
  <2>1. PAGESZ * 0 = 0 /\ (PAGESZ * 0) % PAGESZ = 0
    BY Constants, MultipleMod
  <2>2. vmemsz - 1 \in Int /\ vmemsz - 1 < vmemsz /\ vmemsz - 1 <= vmemsz - 1
    BY Constants
  <2> QED
    BY <1>1, <1>2, <2>1, <2>2 DEF BorderInv
<1>10. StackReserved
    BY <1>1, <1>2 DEF StackReserved
<1> QED
    BY <1>6, <1>7, <1>8, <1>9, <1>10 DEF IInv

LEMMA NextIInv ==
    ASSUME IInv, [Next]_vars
    PROVE  IInv'
<1>1. ASSUME NEW r \in Rgid, NEW size \in Sizes, pgalloc(r, size) \/ pgmalloc(r, size)
      PROVE  IInv'
  <2>1. \E v \in Vma : alloc(v, r, size)
    BY <1>1, Constants DEF pgalloc, pgmalloc
  <2> QED
    BY <2>1, AllocStep
<1>2. ASSUME NEW r \in Rgid, pgfree_data(r)
      PROVE  IInv'
  <2>1. CASE free(r)
    BY <2>1, FreeStep
  <2>2. CASE free_invalid(r)
    BY <2>2, StutterStep DEF free_invalid
  <2> QED
    BY <1>2, <2>1, <2>2 DEF pgfree_data
<1>3. ASSUME NEW r \in Rgid, NEW off \in Offsets, pgread(r, off) \/ pgwrite(r, off)
      PROVE  IInv'
    BY <1>3, AccessStep
<1>4. CASE Hung
    BY <1>4, StutterStep DEF Hung
<1>5. CASE UNCHANGED vars
    BY <1>5, StutterStep
<1> QED
    BY <1>1, <1>2, <1>3, <1>4, <1>5 DEF Next

-----------------------------------------------------------------------------
(* Theorems *)

(***************************************************************************)
(* The invariant of the areas of a process (mm-vm.c:439-765, 1081-1263)    *)
(* holds for every page size, size of the virtual memory and workload.     *)
(***************************************************************************)
THEOREM Invariance == Spec => []IInv
<1>1. Init => IInv
    BY InitIInv
<1>2. IInv /\ [Next]_vars => IInv'
    BY NextIInv
<1> QED
    BY <1>1, <1>2, PTL DEF Spec

(***************************************************************************)
(* The state of the areas keeps its type: addresses stay in the virtual    *)
(* memory and pages in the page table, also where get_free_vmrg_area       *)
(* (mm-vm.c:1166) cuts regions up and where inc_vma_limit (mm-vm.c:1081)   *)
(* rounds an end to pages.                                                 *)
(***************************************************************************)
THEOREM TypeCorrect == Spec => []TypeOK
BY Invariance, PTL DEF IInv

\* The bytes of a region are the addresses between its ends.
LEMMA BytesFacts ==
    ASSUME NEW v \in Vma, NEW x, NEW y, Ends(x), Ends(y)
    PROVE  /\ Bytes(v, x) = Lo(v, x) .. Hi(v, x)
           /\ Clear(v, x, y) => Bytes(v, x) \cap Bytes(v, y) = {}
<1>1. Bytes(v, x) = Lo(v, x) .. Hi(v, x) /\ Bytes(v, y) = Lo(v, y) .. Hi(v, y)
    BY DEF Bytes, Lo, Hi
<1>2. Lo(v, x) \in Int /\ Hi(v, x) \in Int /\ Lo(v, y) \in Int /\ Hi(v, y) \in Int
    BY LengthFacts DEF Ends
<1> QED
    BY <1>1, <1>2 DEF Clear

LEMMA LiveFacts ==
    ASSUME TypeOK, ListInv, NEW v \in Vma, NEW r \in Live(v)
    PROVE  /\ r \in Rgid /\ symrgtbl[r].vmaid = v /\ Ends(symrgtbl[r])
           /\ symrgtbl[r].rg_start \in Addr /\ symrgtbl[r].rg_end \in Addr
           /\ LiveBytes(r) = Bytes(v, symrgtbl[r])
BY StateEnds DEF Live, LiveBytes

LEMMA FreeFacts ==
    ASSUME TypeOK, ListInv, NEW v \in Vma, NEW i \in Free(v)
    PROVE  /\ i \in 1 .. Len(vm_freerg_list[v]) /\ Ends(vm_freerg_list[v][i])
           /\ vm_freerg_list[v][i].rg_start \in Addr
           /\ vm_freerg_list[v][i].rg_end \in Addr
           /\ FreeBytes(v, i) = Bytes(v, vm_freerg_list[v][i])
BY StateEnds, ListFacts DEF Free, FreeBytes

(***************************************************************************)
(* The allocator of an area hands no byte out twice, however regions are   *)
(* cut up, freed and reused (mm-vm.c:439-765, 1166-1263).                  *)
(***************************************************************************)
THEOREM RegionsDisjoint == Spec => []AreaDisjoint
<1>1. ASSUME IInv PROVE AreaDisjoint
  <2>a. TypeOK /\ ListInv /\ ClearInv
    BY <1>1 DEF IInv
  <2> SUFFICES ASSUME NEW v \in Vma
               PROVE  /\ \A r, s \in Live(v) : r # s => LiveBytes(r) \cap LiveBytes(s) = {}
                      /\ \A r \in Live(v), i \in Free(v) : LiveBytes(r) \cap FreeBytes(v, i) = {}
                      /\ \A i, j \in Free(v) : i # j => FreeBytes(v, i) \cap FreeBytes(v, j) = {}
    BY DEF AreaDisjoint
  <2>1. ASSUME NEW r \in Live(v), NEW s \in Live(v), r # s
        PROVE  LiveBytes(r) \cap LiveBytes(s) = {}
    <3>1. Clear(v, symrgtbl[r], symrgtbl[s])
      BY <2>a, <2>1 DEF ClearInv
    <3> QED
      BY <2>a, <3>1, LiveFacts, BytesFacts
  <2>2. ASSUME NEW r \in Live(v), NEW i \in Free(v)
        PROVE  LiveBytes(r) \cap FreeBytes(v, i) = {}
    <3>1. Clear(v, symrgtbl[r], vm_freerg_list[v][i])
      BY <2>a DEF ClearInv
    <3> QED
      BY <2>a, <3>1, LiveFacts, FreeFacts, BytesFacts
  <2>3. ASSUME NEW i \in Free(v), NEW j \in Free(v), i # j
        PROVE  FreeBytes(v, i) \cap FreeBytes(v, j) = {}
    <3>1. Clear(v, vm_freerg_list[v][i], vm_freerg_list[v][j])
      BY <2>a, <2>3 DEF ClearInv
    <3> QED
      BY <2>a, <3>1, FreeFacts, BytesFacts
  <2> QED
    BY <2>1, <2>2, <2>3
<1> QED
    BY <1>1, Invariance, PTL

(***************************************************************************)
(* Everything handed out is on the used side of the border that __alloc    *)
(* moves (mm-vm.c:627-645).                                                *)
(***************************************************************************)
THEOREM AlwaysBehindBorder == Spec => []BehindBorder
<1>1. ASSUME IInv PROVE BehindBorder
  <2>a. TypeOK /\ ListInv /\ UsedInv
    BY <1>1 DEF IInv
  <2> DEFINE used(v) == IF v = 0 THEN 0 .. sbrk[0] - 1 ELSE sbrk[1] .. vmemsz - 1
  <2>1. ASSUME NEW v \in Vma, NEW x, Ends(x), x.rg_start \in Addr, x.rg_end \in Addr, Used(v, x)
        PROVE  Bytes(v, x) \subseteq used(v)
    <3>1. sbrk[0] \in Int /\ sbrk[1] \in Int
      BY <2>a, StateEnds, Constants
    <3> QED
      BY <2>1, <3>1, Constants DEF Bytes, Used
  <2>2. ASSUME NEW v \in Vma, NEW r \in Live(v) PROVE LiveBytes(r) \subseteq used(v)
    <3>1. Used(v, symrgtbl[r])
      BY <2>a DEF UsedInv
    <3> HIDE DEF used
    <3> QED
      BY <2>a, <2>1, <3>1, LiveFacts
  <2>3. ASSUME NEW v \in Vma, NEW i \in Free(v) PROVE FreeBytes(v, i) \subseteq used(v)
    <3>1. Used(v, vm_freerg_list[v][i])
      BY <2>a DEF UsedInv
    <3> HIDE DEF used
    <3> QED
      BY <2>a, <2>1, <3>1, FreeFacts
  <2> QED
    BY <2>2, <2>3 DEF BehindBorder
<1> QED
    BY <1>1, Invariance, PTL

(***************************************************************************)
(* A byte of a stack variable is always on a mapped page (mm-vm.c:         *)
(* 1088-1107, mm.c:84-150): the stack ends where its mapped pages end.     *)
(***************************************************************************)
THEOREM StackAlwaysMapped == Spec => []StackMapped
<1>1. ASSUME IInv PROVE StackMapped
  <2>a. TypeOK /\ ListInv /\ UsedInv /\ BorderInv /\ StackReserved
    BY <1>1 DEF IInv
  <2> SUFFICES ASSUME NEW r \in Live(0), NEW a \in LiveBytes(r) PROVE PageOf(a) \in pgd
    BY DEF StackMapped
  <2>1. 0 \in Vma
    BY Constants
  <2>2. a \in Bytes(0, symrgtbl[r]) /\ symrgtbl[r].rg_start \in Addr /\ symrgtbl[r].rg_end \in Addr
    BY <2>a, <2>1, LiveFacts
  <2>3. symrgtbl[r].rg_end < sbrk[0]
    BY <2>a, <2>1 DEF UsedInv, Used
  <2>4. a \in 0 .. vm_end[0] - 1
    <3>1. a \in symrgtbl[r].rg_start .. symrgtbl[r].rg_end
      BY <2>2 DEF Bytes
    <3>2. sbrk[0] \in Nat /\ vm_end[0] \in Nat /\ sbrk[0] <= vm_end[0]
      BY <2>a, BorderTypes
    <3> QED
      BY <2>2, <2>3, <3>1, <3>2, Constants
  <2> QED
    BY <2>a, <2>4 DEF StackReserved
<1> QED
    BY <1>1, Invariance, PTL

\* __alloc leaves the symbol table alone or enters a region of the size asked for.
LEMMA AllocLength ==
    ASSUME IInv, NEW v \in Vma, NEW r \in Rgid, NEW size \in Sizes, alloc(v, r, size),
           symrgtbl' # symrgtbl
    PROVE  symrgtbl'[r].vmaid = v /\ Length(v, symrgtbl'[r]) = size
<1>a. TypeOK /\ ListInv /\ BorderInv
    BY DEF IInv
<1>1. ~LoopsForever(v, size)
    BY DEF alloc, alloc_hang
<1>2. size # 1 /\ (alloc_free(v, r, size) \/ alloc_border(v, r, size))
    BY <1>1 DEF alloc, LoopsForever
<1>3. size \in Nat /\ size >= 2
    BY <1>2, RequestFacts
<1>4. \E x \in FreeRg : SetSymbol(r, v, x) /\ Hi(v, x) = Lo(v, x) + size - 1
  <2>1. CASE alloc_free(v, r, size)
    BY <1>a, <1>3, <2>1, FoundFacts DEF alloc_free
  <2>2. CASE alloc_border(v, r, size)
    <3>1. ~OutOfVm(v, size) /\ commit(v, r, size)
      BY <2>2 DEF alloc_border, vars
    <3> QED
      BY <1>a, <1>3, <3>1, CommitFacts
  <2> QED
    BY <1>2, <2>1, <2>2
<1>5. PICK x \in FreeRg : SetSymbol(r, v, x) /\ Hi(v, x) = Lo(v, x) + size - 1
    BY <1>4
<1>6. /\ symrgtbl'[r].vmaid = v
      /\ symrgtbl'[r].rg_start = x.rg_start /\ symrgtbl'[r].rg_end = x.rg_end
    BY <1>a, <1>5, SymbolFacts
<1>7. x.rg_start \in Int /\ x.rg_end \in Int
    BY Constants DEF FreeRg
<1>8. Length(v, x) = size
  <2>1. Length(v, x) = Hi(v, x) - Lo(v, x) + 1 /\ Lo(v, x) \in Int
    BY <1>7, LengthFacts
  <2> QED
    BY <1>3, <1>5, <2>1
<1> QED
    BY <1>6, <1>8 DEF Length

(***************************************************************************)
(* A variable has exactly the length asked for, in both areas and from     *)
(* both sources (mm-vm.c:627-645, 1184-1185, 1222-1223; README.md:8).      *)
(***************************************************************************)
THEOREM LengthsExact == Spec => ExactLength
<1> DEFINE Exact == \A r \in Rgid, size \in Sizes, v \in Vma :
                        alloc(v, r, size) /\ symrgtbl' # symrgtbl =>
                            /\ symrgtbl'[r].vmaid = v
                            /\ Length(v, symrgtbl'[r]) = size
<1>1. IInv => Exact
    BY AllocLength
<1>2. ExactLength <=> [][Exact]_vars
    BY DEF ExactLength
<1> HIDE DEF Exact
<1> QED
    BY <1>1, <1>2, Invariance, PTL

\* A number less than the bus range below zero is masked to the top of it.
LEMMA WrapFacts ==
    ASSUME NEW x \in Int, x < 0, -BUSSZ <= x
    PROVE  x % BUSSZ = x + BUSSZ
<1>1. BUSSZ \in Nat \ {0} /\ BUSSZ * (-1) = -BUSSZ
    BY Constants
<1>2. x \div BUSSZ = -1
    BY <1>1, DivUnique
<1>3. ASSUME NEW y \in Int PROVE y = BUSSZ * (y \div BUSSZ) + (y % BUSSZ) /\ y % BUSSZ \in Int
    BY <1>1
<1>4. x = BUSSZ * (-1) + (x % BUSSZ) /\ x % BUSSZ \in Int
    BY <1>2, <1>3
<1> QED
    BY <1>1, <1>4

LEMMA SmallMod ==
    ASSUME NEW x \in 0 .. BUSSZ - 1
    PROVE  x % BUSSZ = x
BY Constants

\* An access that passes the range test hits the region, or misses the virtual
\* memory when the offset is less than what the bus has beyond it.
LEMMA TargetPlace ==
    ASSUME IInv, NEW r \in Rgid, NEW off \in Offsets, off <= BUSSZ - vmemsz, InRange(r, off)
    PROVE  Target(r, off) \in LiveBytes(r) \/ Target(r, off) >= vmemsz
<1>a. TypeOK /\ ListInv
    BY DEF IInv
<1>1. /\ symrgtbl[r].rg_start \in Addr /\ symrgtbl[r].rg_end \in Addr
      /\ symrgtbl[r].vmaid \in Vma
    BY <1>a, StateEnds
<1>2. off \in Nat
    BY RequestAssumption
<1>c. vmemsz \in Nat /\ BUSSZ \in Nat /\ vmemsz <= BUSSZ /\ Addr = 0 .. vmemsz - 1
    BY Constants
<1> DEFINE a == Advance(symrgtbl[r].vmaid, symrgtbl[r].rg_start, off)
<1>3. CASE symrgtbl[r].vmaid = 0
  <2>1. a = symrgtbl[r].rg_start + off /\ a <= symrgtbl[r].rg_end
    BY <1>3 DEF Advance, InRange
  <2>2. a \in 0 .. BUSSZ - 1 /\ a \in symrgtbl[r].rg_start .. symrgtbl[r].rg_end
    BY <1>1, <1>2, <1>c, <2>1
  <2>3. Target(r, off) = a
    BY <2>2, SmallMod DEF Target
  <2> QED
    BY <1>3, <2>2, <2>3 DEF LiveBytes, Bytes
<1>4. CASE symrgtbl[r].vmaid = 1
  <2>1. a = symrgtbl[r].rg_start - off /\ (a >= symrgtbl[r].rg_end \/ a < 0)
    BY <1>4 DEF Advance, InRange
  <2>2. CASE a >= symrgtbl[r].rg_end
    <3>1. a \in 0 .. BUSSZ - 1 /\ a \in symrgtbl[r].rg_end .. symrgtbl[r].rg_start
      BY <1>1, <1>2, <1>c, <2>1, <2>2
    <3>2. Target(r, off) = a
      BY <3>1, SmallMod DEF Target
    <3> QED
      BY <1>4, <3>1, <3>2 DEF LiveBytes, Bytes
  <2>3. CASE a < 0
    <3>1. a \in Int /\ -BUSSZ <= a /\ a + BUSSZ >= vmemsz
      BY <1>1, <1>2, <1>c, <2>1
    <3>2. Target(r, off) = a + BUSSZ
      BY <2>3, <3>1, WrapFacts DEF Target
    <3> QED
      BY <3>1, <3>2
  <2> QED
    BY <2>1, <2>2, <2>3
<1> QED
    BY <1>1, <1>3, <1>4, Constants

(***************************************************************************)
(* What is written through a variable changes no byte of another variable  *)
(* of the same area (mm-vm.c:935-959), as long as the offset is within the *)
(* part of the bus range that the virtual memory does not use: a larger    *)
(* one passes the heap's range test and wraps around into the memory.      *)
(***************************************************************************)
THEOREM WritesPrivate == Spec => WritePrivate
<1> DEFINE Private == \A r, s \in Rgid, off \in Offsets :
                          /\ pgwrite(r, off) /\ off <= BUSSZ - vmemsz
                          /\ r # s /\ {r, s} \subseteq Live(symrgtbl[r].vmaid)
                          => (dirty' \ dirty) \cap LiveBytes(s) = {}
<1>1. IInv => Private
  <2> SUFFICES ASSUME IInv, NEW r \in Rgid, NEW s \in Rgid, NEW off \in Offsets,
                      pgwrite(r, off), off <= BUSSZ - vmemsz,
                      r # s, {r, s} \subseteq Live(symrgtbl[r].vmaid)
               PROVE  (dirty' \ dirty) \cap LiveBytes(s) = {}
    OBVIOUS
  <2>a. TypeOK /\ ListInv /\ ClearInv
    BY DEF IInv
  <2>v. PICK v : v = symrgtbl[r].vmaid
    OBVIOUS
  <2>1. v \in Vma /\ r \in Live(v) /\ s \in Live(v)
    BY <2>a, <2>v, StateEnds
  <2>2. CASE ~Accepted(r, off)
    BY <2>2 DEF pgwrite
  <2>3. CASE Accepted(r, off)
    <3>1. dirty' \ dirty \subseteq {Target(r, off)} /\ InRange(r, off)
      BY <2>3 DEF pgwrite, Accepted
    <3>2. Target(r, off) \in LiveBytes(r) \/ Target(r, off) >= vmemsz
      BY <3>1, TargetPlace
    <3>3. Clear(v, symrgtbl[r], symrgtbl[s])
      BY <2>a, <2>1 DEF ClearInv
    <3>4. LiveBytes(r) \cap LiveBytes(s) = {}
      BY <2>a, <2>1, <3>3, LiveFacts, BytesFacts
    <3>5. LiveBytes(s) \subseteq Addr
      <4>1. /\ symrgtbl[s].rg_start \in Addr /\ symrgtbl[s].rg_end \in Addr
            /\ LiveBytes(s) = Bytes(v, symrgtbl[s])
        BY <2>a, <2>1, LiveFacts
      <4> QED
        BY <4>1, Constants DEF Bytes
    <3>6. Target(r, off) \notin LiveBytes(s)
      BY <3>2, <3>4, <3>5, Constants
    <3> QED
      BY <3>1, <3>6
  <2> QED
    BY <2>2, <2>3
<1>2. WritePrivate <=> [][Private]_vars
    BY DEF WritePrivate
<1> HIDE DEF Private
<1> QED
    BY <1>1, <1>2, Invariance, PTL
=============================================================================
