----------------------------- MODULE BootProofs -----------------------------
(***************************************************************************)
(* Theorems about the frame allocator and about initialize_paging, for     *)
(* every size of the memory, of the image, of the tables and of the heap   *)
(* that MemoryAssumption allows.                                           *)
(* The invariant follows the two orders in which frames are handed out:    *)
(* the identity loop gives page n frame n, and until the heap is first     *)
(* contracted its page n gets the frame n behind those, as long as the     *)
(* bytes that were reserved for the bitmap describe that frame.            *)
(***************************************************************************)
EXTENDS Boot, TLAPS

(***************************************************************************)
(* First the frame allocator alone, for every number of frames and pages.  *)
(***************************************************************************)
(* The bitmap functions divide an address by the size of a page.           *)
LEMMA FrameOfAddress ==
  ASSUME NEW n \in Nat, NEW d \in Nat \ {0}
  PROVE  (n * d) \div d = n
  OBVIOUS

(* A frame number is smaller than a page, so clear_frame clears bit 0.     *)
LEMMA ClearsFrameZero ==
  ASSUME NEW f \in Frames
  PROVE  ClearFrame(f) = used \ {0}
<1>1. f \div PageSize = 0
  BY FrameAssumption DEF Frames
<1> QED BY <1>1 DEF ClearFrame

LEMMA SetsItsFrame ==
  ASSUME NEW f \in Frames
  PROVE  SetFrame(f * PageSize) = used \cup {f}
<1>1. (f * PageSize) \div PageSize = f
  BY FrameAssumption, FrameOfAddress DEF Frames
<1> QED BY <1>1 DEF SetFrame

PInv == PagingTypeOK /\ MappedFramesUsed /\ NoSharedFrame

LEMMA PagingInitInv == PagingInit => PInv
<1> SUFFICES ASSUME PagingInit PROVE PInv
  OBVIOUS
<1>1. Unmapped \in [present : BOOLEAN, frame : Frames] /\ Unmapped.frame = 0
  BY FrameAssumption DEF Unmapped, Frames
<1>2. PagingTypeOK
  BY <1>1 DEF PagingInit, PagingTypeOK
<1>3. MappedFramesUsed /\ NoSharedFrame
  BY <1>1 DEF PagingInit, MappedFramesUsed, NoSharedFrame
<1> QED BY <1>2, <1>3 DEF PInv

LEMMA AllocFrameInv ==
  ASSUME PInv, NEW p \in Pages, AllocFrame(p) PROVE PInv'
<1>1. CASE UNCHANGED pagingVars
  BY <1>1 DEF PInv, PagingTypeOK, MappedFramesUsed, NoSharedFrame, pagingVars
<1>2. CASE ~UNCHANGED pagingVars
  <2>1. PICK idx \in Frames :
          /\ FirstFrame(idx)
          /\ panicked' = (idx = NoFrame)
          /\ used' = SetFrame(idx * PageSize)
          /\ entry' = [entry EXCEPT ![p] = [present |-> TRUE, frame |-> idx]]
    BY <1>2 DEF AllocFrame
  <2>2. exhausted' = (exhausted \/ Frames \subseteq used)
    BY <1>2 DEF AllocFrame
  <2>3. used' = used \cup {idx}
    BY <2>1, SetsItsFrame
  <2>4. PagingTypeOK'
    BY <2>1, <2>2, <2>3 DEF PInv, PagingTypeOK
  <2>5. MappedFramesUsed'
    BY <2>1, <2>3 DEF PInv, PagingTypeOK, MappedFramesUsed
  <2>6. NoSharedFrame'
    <3> SUFFICES ASSUME ~exhausted' PROVE NoSharedFrame'
      BY DEF NoSharedFrame
    <3>1. ~exhausted /\ ~(Frames \subseteq used)
      BY <2>2
    <3>2. idx \notin used
      BY <2>1, <3>1 DEF FirstFrame
    <3> QED BY <2>1, <3>1, <3>2
            DEF PInv, PagingTypeOK, MappedFramesUsed, NoSharedFrame
  <2> QED BY <2>4, <2>5, <2>6 DEF PInv
<1> QED BY <1>1, <1>2

LEMMA FreeFrameInv ==
  ASSUME PInv, NEW p \in Pages, FreeFrame(p) PROVE PInv'
<1>1. CASE UNCHANGED pagingVars
  BY <1>1 DEF PInv, PagingTypeOK, MappedFramesUsed, NoSharedFrame, pagingVars
<1>2. CASE ~UNCHANGED pagingVars
  <2>1. /\ entry' = [entry EXCEPT ![p].frame = 0]
        /\ used' = ClearFrame(entry[p].frame)
        /\ UNCHANGED <<exhausted, panicked>>
    BY <1>2 DEF FreeFrame
  <2>2. used' = used \ {0}
    BY <2>1, ClearsFrameZero DEF PInv, PagingTypeOK
  <2>3. 0 \in Frames
    BY FrameAssumption DEF Frames
  <2>4. PagingTypeOK'
    BY <2>1, <2>2, <2>3 DEF PInv, PagingTypeOK
  <2>5. MappedFramesUsed'
    BY <2>1, <2>2 DEF PInv, PagingTypeOK, MappedFramesUsed
  <2>6. NoSharedFrame'
    BY <2>1 DEF PInv, PagingTypeOK, NoSharedFrame
  <2> QED BY <2>4, <2>5, <2>6 DEF PInv
<1> QED BY <1>1, <1>2

(* As long as the bitmap has not run full, no two pages share a frame, and *)
(* every frame a page maps is marked in the bitmap: no order of alloc_frame *)
(* and free_frame breaks it, for any memory size.                          *)
THEOREM PagingSafe == PagingSpec => [](PagingTypeOK /\ MappedFramesUsed /\ NoSharedFrame)
<1>1. PInv /\ [PagingNext]_pagingVars => PInv'
  <2> SUFFICES ASSUME PInv, [PagingNext]_pagingVars PROVE PInv'
    OBVIOUS
  <2>1. CASE UNCHANGED pagingVars
    BY <2>1 DEF PInv, PagingTypeOK, MappedFramesUsed, NoSharedFrame, pagingVars
  <2>2. CASE PagingNext
    BY <2>2, AllocFrameInv, FreeFrameInv DEF PagingNext
  <2> QED BY <2>1, <2>2
<1> QED BY <1>1, PagingInitInv, PTL DEF PagingSpec, PInv
-----------------------------------------------------------------------------

(* Below the stale part of the bitmap, n frames are taken, the lowest ones.*)
InOrder(taken, n) == \A f \in Frames : f < BitmapReserved => (f \in taken <=> f < n)

Present(f) == [present |-> TRUE, frame |-> f]

(* k pages are mapped to themselves, and h pages of the heap behind them.  *)
(* Behind the reserved bits other bits may be set by chance, and frames    *)
(* may run out, so that all that is known of a page there is that it has   *)
(* a frame.                                                                *)
Identical(pte, k) == \A p \in Pages : p < HeapPage =>
    pte[p] = IF p < k THEN Present(p) ELSE Unmapped
Following(pte, k, h) == \A p \in Pages : p >= HeapPage =>
    /\ p < HeapPage + h /\ k + (p - HeapPage) < BitmapReserved =>
            pte[p] = Present(k + (p - HeapPage))
    /\ p < HeapPage + h => pte[p].present /\ pte[p].frame # 0
    /\ p < HeapPage + h \/ pte[p] = Unmapped
Mapped(pte, taken, k, h) ==
    Identical(pte, k) /\ Following(pte, k, h) /\ InOrder(taken, k + h)

(* What the placement allocator has given out for n page tables.           *)
GivenOut(memory, n) == \E m \in ImageEnds : memory <= m + Allocated(n)
TablesFrom(first, p) == IF p = first THEN 0 ELSE TableOf(p - 1) - TableOf(first) + 1
HaveTables(have, first, p) == \A q \in first..(p - 1) : TableOf(q) \in have

HeapLimit == HeapPage + HeapPages
AtBitmap == mem_ptr \in ImageEnds /\ used = {} /\ \A p \in Pages : entry[p] = Unmapped
AtDirectory ==
    /\ \E m \in ImageEnds : mem_ptr = m + BitmapSize
    /\ Mapped(entry, used, 0, 0)
AtHeapTables ==
    /\ build # "Dec 3" /\ cursor \in HeapPage..HeapLimit
    /\ HaveTables(tables, HeapPage, cursor)
    /\ GivenOut(mem_ptr, TablesFrom(HeapPage, cursor))
    /\ Mapped(entry, used, 0, 0)
AtIdentity ==
    /\ cursor \in 0..BootPages
    /\ build # "Dec 3" => HaveTables(tables, HeapPage, HeapLimit)
    /\ HaveTables(tables, 0, cursor)
    /\ GivenOut(mem_ptr, HeapTableCount + TablesFrom(0, cursor))
    /\ Mapped(entry, used, cursor, 0)
Reaches(k, memory) == memory <= k * PageSize
AtHeapMap ==
    /\ build # "Dec 3" /\ cursor \in HeapPage..HeapLimit
    /\ HaveTables(tables, HeapPage, HeapLimit)
    /\ \E k \in 1..BootPages :
         Reaches(k, mem_ptr + PageSize) /\ Mapped(entry, used, k, cursor - HeapPage)
AtHeap ==
    /\ build # "Dec 3"
    /\ \E k \in 1..BootPages : Reaches(k, mem_ptr + PageSize) /\ Mapped(entry, used, k, HeapPages)

(* Once initialize_paging has returned.  After the heap was contracted its *)
(* frames may be anywhere; its pages stay present.                         *)
Afterwards ==
    /\ heap_end \in 0..MaxHeapPages
    /\ pc = "giveback" => cursor \in 0..(MaxHeapPages - 1) /\ contracts > 0
    /\ build = "Dec 3" => heap_end = 0
    /\ \A p \in Pages : entry[p].frame # 0 => entry[p].present
    /\ \A p \in Pages : HeapPage <= p /\ p < HeapPage + heap_end => entry[p].present
    /\ \E k \in 1..BootPages :
         /\ Reaches(k, mem_ptr)
         /\ Identical(entry, k)
         /\ contracts = 0 => Mapped(entry, used, k, heap_end)

Returned == pc \in {"clone", "lost", "giveback", "done"}
Common ==
    /\ TypeOK /\ MappedFramesUsed /\ NoSharedFrame
    /\ mem_ptr >= PageSize
    /\ ~Returned => heap_end = 0 /\ contracts = 0
BootInv ==
    /\ Common
    /\ pc = "bitmap" => AtBitmap
    /\ pc = "directory" => AtDirectory
    /\ pc = "heaptables" => AtHeapTables
    /\ pc = "identity" => AtIdentity
    /\ pc = "heapmap" => AtHeapMap
    /\ pc = "heap" => AtHeap
    /\ Returned => Afterwards
-----------------------------------------------------------------------------
LEMMA Numbers ==
  /\ PagesPerTable \in Nat \ {0}
  /\ HeapPage \in Nat /\ HeapPages \in Nat /\ HeapPages >= 2 /\ MaxHeapPages \in Nat
  /\ HeapMin \in Nat
  /\ HeapSize \in Nat /\ HeapSize <= PageSize
  /\ \A m \in ImageEnds : m \in Nat /\ m >= PageSize
<1>1. HeapMin \in 2..HeapPages /\ HeapSize \in 1..PageSize
  BY BootAssumption
<1>2. HeapPages \in Nat /\ PageSize \in Nat
  BY BootAssumption, FrameAssumption
<1>3. HeapPages >= 2 /\ HeapMin \in Nat /\ HeapSize \in Nat /\ HeapSize <= PageSize
  BY <1>1, <1>2
<1> QED BY <1>3, BootAssumption

(* Tables, page by page: a page is in the table of the page before it or   *)
(* in the next one.                                                        *)
LEMMA TableOfBounds ==
  ASSUME NEW p \in Nat
  PROVE  /\ TableOf(p) \in Nat
         /\ TableOf(p) * PagesPerTable <= p
         /\ p < (TableOf(p) + 1) * PagesPerTable
  BY Numbers DEF TableOf

LEMMA TableOfMonotone ==
  ASSUME NEW p \in Nat, NEW q \in Nat, p <= q
  PROVE  TableOf(p) <= TableOf(q)
<1>1. /\ TableOf(p) \in Nat /\ TableOf(p) * PagesPerTable <= p
      /\ TableOf(q) \in Nat /\ q < (TableOf(q) + 1) * PagesPerTable
  BY TableOfBounds
<1> DEFINE a == TableOf(p)
           b == TableOf(q)
<1>2. SUFFICES ASSUME b + 1 <= a PROVE FALSE
  BY <1>1
<1>3. (b + 1) * PagesPerTable <= a * PagesPerTable
  <2> HIDE DEF a, b
  <2>1. a \in Nat /\ b \in Nat
    BY <1>1 DEF a, b
  <2>2. PICK d \in Nat : a = b + 1 + d
    BY <2>1, <1>2
  <2>3. a * PagesPerTable = (b + 1) * PagesPerTable + d * PagesPerTable
    BY <2>1, <2>2, Numbers
  <2>4. d * PagesPerTable \in Nat
    BY Numbers
  <2>5. (b + 1) * PagesPerTable \in Nat /\ a * PagesPerTable \in Nat
    BY <2>1, Numbers
  <2> QED BY <2>3, <2>4, <2>5
<1>4. (b + 1) * PagesPerTable \in Nat /\ a * PagesPerTable \in Nat
  BY <1>1, Numbers
<1> QED BY <1>1, <1>3, <1>4

LEMMA TableOfNext ==
  ASSUME NEW p \in Nat
  PROVE  TableOf(p + 1) \in {TableOf(p), TableOf(p) + 1}
<1> DEFINE a == TableOf(p)
           b == TableOf(p + 1)
<1>1. /\ a \in Nat /\ p < (a + 1) * PagesPerTable
      /\ b \in Nat /\ b * PagesPerTable <= p + 1 /\ a <= b
  BY TableOfBounds, TableOfMonotone
<1> HIDE DEF a, b
<1>2. SUFFICES ASSUME a + 2 <= b PROVE FALSE
  BY <1>1 DEF a, b
<1>3. PICK d \in Nat : b = a + 2 + d
  BY <1>1, <1>2
<1>4. b * PagesPerTable = (a + 1) * PagesPerTable + PagesPerTable + d * PagesPerTable
  BY <1>1, <1>3, Numbers
<1>5. d * PagesPerTable \in Nat /\ (a + 1) * PagesPerTable \in Nat /\ b * PagesPerTable \in Nat
  BY <1>1, Numbers
<1>6. CASE PagesPerTable > 1
  BY <1>1, <1>4, <1>5, <1>6, Numbers
<1>7. CASE PagesPerTable = 1
  BY <1>1, <1>2, <1>7
<1> QED BY <1>6, <1>7, Numbers

LEMMA AlignedBounds ==
  ASSUME NEW m \in Nat, m >= PageSize
  PROVE  Aligned(m) \in Nat /\ m < Aligned(m) /\ Aligned(m) <= m + PageSize
<1>1. PageSize \in Nat \ {0}
  BY FrameAssumption
<1>2. m \div PageSize \in Nat /\ (m \div PageSize) * PageSize <= m
      /\ m < (m \div PageSize) * PageSize + PageSize
  BY <1>1
<1>3. (m \div PageSize) * PageSize \in Nat
  BY <1>1, <1>2
<1> QED BY <1>1, <1>2, <1>3 DEF Aligned

LEMMA Sizes ==
  /\ BitmapSize \in Nat /\ BitmapReserved \in Nat /\ BitmapReserved <= NFrames
  /\ BootPages \in Nat \ {0} /\ BootPages + HeapPages = BitmapReserved
  /\ PageSize \in Nat \ {0} /\ PageSize >= NFrames
  /\ DirectorySize \in Nat /\ HeapTableCount \in Nat \ {0}
<1>1. /\ NFrames \in Nat \ {0} /\ WordBits \in Nat /\ WordBits >= 2
      /\ PageSize \in Nat \ {0} /\ PageSize >= NFrames
  BY FrameAssumption
<1>2. BitmapSize \in Nat /\ BitmapSize * WordBits <= NFrames
  BY <1>1 DEF BitmapSize
<1>3. WordBits \div 4 \in Nat /\ WordBits \div 4 <= WordBits
  BY <1>1
<1>4. PICK d \in Nat : WordBits = (WordBits \div 4) + d
  BY <1>1, <1>3
<1>5. BitmapSize * WordBits = BitmapSize * (WordBits \div 4) + BitmapSize * d
  BY <1>2, <1>3, <1>4
<1>6. BitmapSize * d \in Nat /\ BitmapSize * (WordBits \div 4) \in Nat
      /\ BitmapSize * WordBits \in Nat
  BY <1>1, <1>2, <1>3
<1>7. BitmapReserved \in Nat /\ BitmapReserved <= NFrames
  BY <1>1, <1>2, <1>5, <1>6 DEF BitmapReserved
<1>8. BootPages \in Nat \ {0} /\ BootPages + HeapPages = BitmapReserved
  BY <1>7, Numbers, MemoryAssumption DEF BootPages
<1>9. HeapPage \in Nat /\ HeapPage + HeapPages - 1 \in Nat /\ HeapPage <= HeapPage + HeapPages - 1
  BY Numbers
<1>10. HeapTableCount \in Nat \ {0}
  BY <1>9, TableOfBounds, TableOfMonotone DEF HeapTableCount
<1> QED BY <1>1, <1>2, <1>7, <1>8, <1>10 DEF DirectorySize

LEMMA AllocatedNext ==
  ASSUME NEW n \in Nat
  PROVE  /\ Allocated(n) \in Nat
         /\ Allocated(n + 1) = Allocated(n) + 2 * PageSize
<1>1. 2 * PageSize * (n + 1) = 2 * PageSize * n + 2 * PageSize
  BY Sizes
<1>2. 2 * PageSize * n \in Nat
  BY Sizes
<1> QED BY <1>1, <1>2, Sizes DEF Allocated

LEMMA AllocatedMonotone ==
  ASSUME NEW n \in Nat, NEW k \in Nat, n <= k
  PROVE  Allocated(n) <= Allocated(k)
<1>1. PICK d \in Nat : k = n + d
  OBVIOUS
<1>2. 2 * PageSize * k = 2 * PageSize * n + 2 * PageSize * d
  BY <1>1, Sizes
<1>3. 2 * PageSize * n \in Nat /\ 2 * PageSize * d \in Nat /\ 2 * PageSize * k \in Nat
  BY Sizes
<1> QED BY <1>2, <1>3, Sizes DEF Allocated
-----------------------------------------------------------------------------
(* get_page: at most one table is new, it costs at most two pages, and the *)
(* page asked for has a table afterwards.                                  *)
LEMMA GetPageStep ==
  ASSUME mem_ptr \in Nat, mem_ptr >= PageSize, NEW p \in Nat, GetPage(p)
  PROVE  /\ mem_ptr' \in Nat /\ mem_ptr' >= mem_ptr
         /\ tables' = tables \cup {TableOf(p)}
         /\ TableOf(p) \in tables => mem_ptr' = mem_ptr
         /\ mem_ptr' <= mem_ptr + 2 * PageSize
<1>1. CASE TableOf(p) \in tables
  BY <1>1, Sizes DEF GetPage
<1>2. CASE TableOf(p) \notin tables
  BY <1>2, Sizes, AlignedBounds DEF GetPage, KmallocAligned, TableSize
<1> QED BY <1>1, <1>2

LEMMA TablesFromNat ==
  ASSUME NEW first \in Nat, NEW p \in Nat, first <= p
  PROVE  TablesFrom(first, p) \in Nat
<1>1. CASE p = first
  BY <1>1 DEF TablesFrom
<1>2. CASE p # first
  <2>1. p - 1 \in Nat /\ first <= p - 1
    BY <1>2
  <2> QED BY <1>2, <2>1, TableOfBounds, TableOfMonotone DEF TablesFrom
<1> QED BY <1>1, <1>2

LEMMA TablesFromNext ==
  ASSUME NEW first \in Nat, NEW p \in Nat, first <= p
  PROVE  /\ TablesFrom(first, p) <= TablesFrom(first, p + 1)
         /\ TablesFrom(first, p + 1) <= TablesFrom(first, p) + 1
         /\ TablesFrom(first, p + 1) = TablesFrom(first, p) + 1
            \/ (p # first /\ TableOf(p) = TableOf(p - 1))
<1>1. TablesFrom(first, p + 1) = TableOf(p) - TableOf(first) + 1
  BY DEF TablesFrom
<1>2. TableOf(p) \in Nat /\ TableOf(first) \in Nat
  BY TableOfBounds
<1>3. CASE p = first
  BY <1>1, <1>2, <1>3 DEF TablesFrom
<1>4. CASE p # first
  <2>1. p - 1 \in Nat /\ (p - 1) + 1 = p
    BY <1>4
  <2>2. TableOf(p - 1) \in Nat /\ TableOf(p) \in {TableOf(p - 1), TableOf(p - 1) + 1}
    BY <2>1, TableOfBounds, TableOfNext
  <2> QED BY <1>1, <1>2, <1>4, <2>2 DEF TablesFrom
<1> QED BY <1>3, <1>4

(* A loop that asks for the pages one after the other allocates no more    *)
(* tables than its pages lie in.                                           *)
LEMMA NextPage ==
  ASSUME mem_ptr \in Nat, mem_ptr >= PageSize,
         NEW base \in Nat, NEW first \in Nat, NEW p \in Nat, first <= p,
         HaveTables(tables, first, p), GivenOut(mem_ptr, base + TablesFrom(first, p)), GetPage(p)
  PROVE  /\ HaveTables(tables', first, p + 1)
         /\ GivenOut(mem_ptr', base + TablesFrom(first, p + 1))
<1>1. HaveTables(tables', first, p + 1)
  <2> SUFFICES ASSUME NEW q \in first..p PROVE TableOf(q) \in tables'
    BY DEF HaveTables
  <2> QED BY GetPageStep DEF HaveTables
<1>2. PICK m \in ImageEnds : mem_ptr <= m + Allocated(base + TablesFrom(first, p))
  BY DEF GivenOut
<1> DEFINE s == TablesFrom(first, p)
           t == TablesFrom(first, p + 1)
<1>3. s \in Nat /\ t \in Nat /\ s <= t /\ t <= s + 1
  BY TablesFromNat, TablesFromNext
<1>4. /\ Allocated(base + s) \in Nat
      /\ Allocated(base + s + 1) = Allocated(base + s) + 2 * PageSize
      /\ Allocated(base + t) \in Nat /\ Allocated(base + s) <= Allocated(base + t)
  <2> HIDE DEF s, t
  <2>1. base + s \in Nat /\ base + t \in Nat /\ base + s <= base + t
    BY <1>3
  <2> QED BY <2>1, AllocatedNext, AllocatedMonotone
<1>5. mem_ptr' \in Nat /\ mem_ptr' <= m + Allocated(base + t)
  <2>1. CASE t = s + 1
    <3> HIDE DEF s, t
    <3>1. base + t = base + s + 1
      BY <1>3, <2>1
    <3>2. mem_ptr' \in Nat /\ mem_ptr' <= mem_ptr + 2 * PageSize
      BY GetPageStep
    <3>3. mem_ptr <= m + Allocated(base + s)
      BY <1>2 DEF s
    <3> QED BY <1>4, <3>1, <3>2, <3>3, Numbers, Sizes
  <2>2. CASE t # s + 1
    <3>1. p # first /\ TableOf(p) = TableOf(p - 1)
      BY <2>2, TablesFromNext
    <3>2. TableOf(p) \in tables
      BY <3>1 DEF HaveTables
    <3>3. mem_ptr' = mem_ptr
      BY <3>2, GetPageStep
    <3>4. mem_ptr <= m + Allocated(base + s)
      BY <1>2
    <3> HIDE DEF s, t
    <3> QED BY <1>4, <3>3, <3>4, Numbers
  <2> QED BY <2>1, <2>2
<1> QED BY <1>1, <1>5 DEF GivenOut

(* Where the first n frames are taken the next one is frame n.             *)
LEMMA NextFrame ==
  ASSUME NEW n \in Nat, n < BitmapReserved, InOrder(used, n), NEW idx \in Frames, FirstFrame(idx)
  PROVE  idx = n /\ ~(Frames \subseteq used)
<1>1. n \in Frames /\ BitmapReserved \in Nat /\ NFrames \in Nat
  BY Sizes, FrameAssumption DEF Frames
<1>2. n \notin used
  BY <1>1 DEF InOrder
<1>3. idx \notin used /\ \A f \in Frames : f < idx => f \in used
  BY <1>1, <1>2 DEF FirstFrame
<1>4. ~(n < idx)
  BY <1>1, <1>2, <1>3
<1>5. ~(idx < n)
  BY <1>1, <1>3 DEF InOrder, Frames
<1> QED BY <1>1, <1>2, <1>4, <1>5 DEF Frames

LEMMA AllocInOrder ==
  ASSUME NEW n \in Nat, n < BitmapReserved, InOrder(used, n),
         NEW p \in Pages, entry[p] = Unmapped, PagingTypeOK, AllocFrame(p)
  PROVE  /\ entry' = [entry EXCEPT ![p] = Present(n)]
         /\ used' = used \cup {n}
         /\ InOrder(used', n + 1)
<1>1. entry[p].frame = 0
  BY DEF Unmapped
<1>2. PICK idx \in Frames :
        /\ FirstFrame(idx)
        /\ used' = SetFrame(idx * PageSize)
        /\ entry' = [entry EXCEPT ![p] = Present(idx)]
  BY <1>1 DEF AllocFrame, Present
<1>3. idx = n
  BY <1>2, NextFrame
<1>4. used' = used \cup {n}
  BY <1>2, <1>3, SetsItsFrame
<1>5. InOrder(used', n + 1)
  BY <1>4, Sizes DEF InOrder, Frames
<1> QED BY <1>2, <1>3, <1>4, <1>5
-----------------------------------------------------------------------------
(* What follows a statement, in each state of the sources.                 *)
LEMMA StatementAfter ==
  ASSUME build \in Builds, NextStatement
  PROVE  /\ pc = "bitmap" => pc' = "directory"
         /\ pc = "directory" => pc' = IF build = "Dec 3" THEN "identity" ELSE "heaptables"
         /\ pc = "heaptables" => pc' = "identity"
         /\ pc = "identity" => pc' = IF build = "Dec 3" THEN "done" ELSE "heapmap"
         /\ pc = "heapmap" => pc' = "heap"
         /\ pc = "heap" => pc' = IF build = "Dec 7" THEN "clone" ELSE "done"
         /\ pc = "clone" => pc' = "done"
<1>1. CASE build = "Dec 3"
  <2>1. Steps = StepsDec3 /\ Len(StepsDec3) = 4
    BY <1>1 DEF Steps, StepsDec3
  <2>2. PICK i \in 1..3 : StepsDec3[i] = pc /\ pc' = StepsDec3[i + 1]
    BY <2>1 DEF NextStatement
  <2>3. \/ (pc = "bitmap" /\ pc' = "directory")
        \/ (pc = "directory" /\ pc' = "identity")
        \/ (pc = "identity" /\ pc' = "done")
    <3>1. i = 1 \/ i = 2 \/ i = 3
      OBVIOUS
    <3> QED BY <2>2, <3>1 DEF StepsDec3
  <2> QED BY <1>1, <2>3
<1>2. CASE build = "Dec 7"
  <2>1. Steps = StepsDec7 /\ Len(StepsDec7) = 8
    BY <1>2 DEF Steps, StepsDec7
  <2>2. PICK i \in 1..7 : StepsDec7[i] = pc /\ pc' = StepsDec7[i + 1]
    BY <2>1 DEF NextStatement
  <2>3. \/ (pc = "bitmap" /\ pc' = "directory")
        \/ (pc = "directory" /\ pc' = "heaptables")
        \/ (pc = "heaptables" /\ pc' = "identity")
        \/ (pc = "identity" /\ pc' = "heapmap")
        \/ (pc = "heapmap" /\ pc' = "heap")
        \/ (pc = "heap" /\ pc' = "clone")
        \/ (pc = "clone" /\ pc' = "done")
    <3>1. i = 1 \/ i = 2 \/ i = 3 \/ i = 4 \/ i = 5 \/ i = 6 \/ i = 7
      OBVIOUS
    <3> QED BY <2>2, <3>1 DEF StepsDec7
  <2> QED BY <1>2, <2>3
<1>3. CASE build = "current"
  <2>1. Steps = StepsNow /\ Len(StepsNow) = 7
    BY <1>3 DEF Steps, StepsNow
  <2>2. PICK i \in 1..6 : StepsNow[i] = pc /\ pc' = StepsNow[i + 1]
    BY <2>1 DEF NextStatement
  <2>3. \/ (pc = "bitmap" /\ pc' = "directory")
        \/ (pc = "directory" /\ pc' = "heaptables")
        \/ (pc = "heaptables" /\ pc' = "identity")
        \/ (pc = "identity" /\ pc' = "heapmap")
        \/ (pc = "heapmap" /\ pc' = "heap")
        \/ (pc = "heap" /\ pc' = "done")
    <3>1. i = 1 \/ i = 2 \/ i = 3 \/ i = 4 \/ i = 5 \/ i = 6
      OBVIOUS
    <3> QED BY <2>2, <3>1 DEF StepsNow
  <2> QED BY <1>3, <2>3
<1> QED BY <1>1, <1>2, <1>3, BootAssumption

LEMMA MappedUnchanged ==
  ASSUME NEW k \in Nat, NEW h \in Nat, Mapped(entry, used, k, h), UNCHANGED <<used, entry>>
  PROVE  Mapped(entry', used', k, h)
  BY DEF Mapped, Identical, Following, InOrder

LEMMA GivenOutMore ==
  ASSUME NEW n \in Nat, NEW k \in Nat, n <= k, NEW memory \in Nat, GivenOut(memory, n)
  PROVE  GivenOut(memory, k)
<1>1. PICK m \in ImageEnds : memory <= m + Allocated(n)
  BY DEF GivenOut
<1>2. Allocated(n) <= Allocated(k) /\ Allocated(n) \in Nat /\ Allocated(k) \in Nat
  BY AllocatedMonotone, AllocatedNext
<1>3. memory <= m + Allocated(k)
  BY <1>1, <1>2, Numbers
<1> QED BY <1>3 DEF GivenOut

LEMMA BootInitInv == Init => BootInv
<1> SUFFICES ASSUME Init PROVE BootInv
  OBVIOUS
<1>1. PInv
  BY PagingInitInv DEF Init
<1>2. Common
  <2>1. HeapPage \in Nat /\ mem_ptr \in Nat /\ mem_ptr >= PageSize
    BY Numbers DEF Init
  <2> QED BY <1>1, <2>1 DEF Init, Common, TypeOK, PInv, Returned
<1>3. AtBitmap
  BY DEF AtBitmap, Init, PagingInit
<1> QED BY <1>2, <1>3 DEF BootInv, Init, Returned


(* The bitmap is cleared up to the bytes that were asked for.              *)
LEMMA BitmapStep ==
  ASSUME BootInv, Bitmap PROVE BootInv'
<1>1. /\ pc = "bitmap" /\ pc' = "directory"
      /\ Common /\ AtBitmap
      /\ mem_ptr' = mem_ptr + BitmapSize
      /\ UNCHANGED <<build, entry, exhausted, panicked, cursor, tables, heap_end, contracts>>
  BY StatementAfter DEF Bitmap, Here, BootInv, Common, TypeOK, Kmalloc
<1>2. PICK stale \in StaleFrames : used' = {f \in stale : f >= BitmapReserved}
  BY DEF Bitmap
<1>3. stale \subseteq Frames
  BY BootAssumption
<1>4. \A p \in Pages : entry[p].frame = 0
  <2> SUFFICES ASSUME NEW p \in Pages PROVE entry[p].frame = 0
    OBVIOUS
  <2> QED BY <1>1 DEF AtBitmap, Unmapped
<1>5. Common'
  <2>1. TypeOK'
    BY <1>1, <1>2, <1>3, Sizes DEF Common, TypeOK, PagingTypeOK
  <2>2. MappedFramesUsed' /\ NoSharedFrame'
    BY <1>1, <1>4 DEF MappedFramesUsed, NoSharedFrame
  <2> QED BY <1>1, <2>1, <2>2, Sizes DEF Common, TypeOK, Returned
<1>6. InOrder(used', 0)
  BY <1>2, <1>3, Sizes DEF InOrder, Frames
<1>7. Identical(entry', 0) /\ Following(entry', 0, 0)
  <2>1. \A p \in Pages : p \in Nat /\ entry'[p] = Unmapped
    BY <1>1, MemoryAssumption DEF AtBitmap
  <2> QED BY <2>1, Numbers DEF Identical, Following
<1>8. AtDirectory'
  BY <1>1, <1>6, <1>7 DEF AtDirectory, AtBitmap, Mapped
<1> QED BY <1>1, <1>5, <1>8 DEF BootInv, Returned

LEMMA DirectoryStep ==
  ASSUME BootInv, Directory PROVE BootInv'
<1>1. /\ pc = "directory" /\ Common /\ AtDirectory
      /\ pc' = IF build = "Dec 3" THEN "identity" ELSE "heaptables"
      /\ cursor' = IF build = "Dec 3" THEN 0 ELSE HeapPage
      /\ mem_ptr' = Aligned(mem_ptr) + DirectorySize
      /\ UNCHANGED <<pagingVars, build, tables, heap_end, contracts>>
  BY StatementAfter DEF Directory, Here, BootInv, Common, TypeOK, KmallocAligned
<1>2. /\ Aligned(mem_ptr) \in Nat /\ mem_ptr < Aligned(mem_ptr)
      /\ Aligned(mem_ptr) <= mem_ptr + PageSize
  BY <1>1, AlignedBounds DEF Common, TypeOK
<1>9. /\ mem_ptr' \in Nat /\ mem_ptr \in Nat /\ mem_ptr' >= PageSize
      /\ mem_ptr' <= mem_ptr + PageSize + DirectorySize
  <2>1. mem_ptr \in Nat /\ mem_ptr >= PageSize /\ mem_ptr' = Aligned(mem_ptr) + DirectorySize
    BY <1>1 DEF Common, TypeOK
  <2>2. DirectorySize \in Nat /\ PageSize \in Nat
    BY Sizes
  <2> QED BY <1>2, <2>1, <2>2
<1>10. cursor' \in Nat
  BY <1>1, Numbers
<1>3. Common'
  <2>1. TypeOK'
    BY <1>1, <1>9, <1>10 DEF Common, TypeOK, PagingTypeOK, pagingVars
  <2>2. MappedFramesUsed' /\ NoSharedFrame'
    BY <1>1 DEF Common, MappedFramesUsed, NoSharedFrame, pagingVars
  <2>3. ~Returned /\ ~Returned'
    BY <1>1 DEF Returned
  <2> QED BY <1>1, <1>9, <2>1, <2>2, <2>3 DEF Common
<1>4. GivenOut(mem_ptr', 0)
  <2>1. PICK m \in ImageEnds : mem_ptr = m + BitmapSize
    BY <1>1 DEF AtDirectory
  <2>2. Allocated(0) = BitmapSize + PageSize + DirectorySize
    BY Sizes DEF Allocated
  <2>3. mem_ptr' <= m + Allocated(0)
    BY <1>9, <2>1, <2>2, Sizes, Numbers
  <2> QED BY <2>3 DEF GivenOut
<1>5. Mapped(entry', used', 0, 0)
  BY <1>1, MappedUnchanged DEF AtDirectory, pagingVars
<1>6. CASE build = "Dec 3"
  <2>1. AtIdentity'
    <3>1. TablesFrom(0, 0) = 0
      BY DEF TablesFrom
    <3>2. GivenOut(mem_ptr', HeapTableCount + 0)
      BY <1>4, <1>9, GivenOutMore, Sizes
    <3>3. HaveTables(tables', 0, 0) /\ 0 \in 0..BootPages
      BY Sizes DEF HaveTables
    <3> QED BY <1>1, <1>5, <1>6, <3>1, <3>2, <3>3 DEF AtIdentity
  <2> QED BY <1>1, <1>3, <1>6, <2>1 DEF BootInv, Returned
<1>7. CASE build # "Dec 3"
  <2>1. AtHeapTables'
    <3>1. TablesFrom(HeapPage, HeapPage) = 0 /\ HeapPage \in HeapPage..HeapLimit
      BY Numbers DEF TablesFrom, HeapLimit
    <3>2. HaveTables(tables', HeapPage, HeapPage)
      BY Numbers DEF HaveTables
    <3> QED BY <1>1, <1>4, <1>5, <1>7, <3>1, <3>2 DEF AtHeapTables
  <2> QED BY <1>1, <1>3, <1>7, <2>1 DEF BootInv, Returned
<1> QED BY <1>6, <1>7

LEMMA HeapTablesStep ==
  ASSUME BootInv, HeapTables PROVE BootInv'
<1>1. /\ pc = "heaptables" /\ Common /\ AtHeapTables
      /\ UNCHANGED <<pagingVars, build, heap_end, contracts>>
  BY DEF HeapTables, Here, BootInv
<1>2. /\ mem_ptr \in Nat /\ mem_ptr >= PageSize /\ build \in Builds
      /\ HeapPage \in Nat /\ HeapLimit = HeapPage + HeapPages /\ HeapPages \in Nat
      /\ cursor \in Nat /\ HeapPage <= cursor /\ cursor <= HeapLimit
      /\ PageSize \in Nat
  <2>1. mem_ptr \in Nat /\ mem_ptr >= PageSize /\ build \in Builds /\ cursor \in Nat
    BY <1>1 DEF Common, TypeOK
  <2>2. HeapPage \in Nat /\ HeapLimit = HeapPage + HeapPages /\ HeapPages \in Nat /\ PageSize \in Nat
    BY Numbers, Sizes DEF HeapLimit
  <2>3. cursor \in HeapPage..HeapLimit
    BY <1>1 DEF AtHeapTables
  <2> QED BY <2>1, <2>2, <2>3
<1>3. Mapped(entry', used', 0, 0)
  BY <1>1, MappedUnchanged DEF AtHeapTables, pagingVars
<1>4. MappedFramesUsed' /\ NoSharedFrame' /\ PagingTypeOK'
  BY <1>1 DEF Common, TypeOK, PagingTypeOK, MappedFramesUsed, NoSharedFrame, pagingVars
<1>5. CASE UNCHANGED pc
  <2>1. InHeap(cursor) /\ GetPage(cursor) /\ cursor' = cursor + 1
    <3>1. ~(InHeap(cursor)) => pc' = "identity"
      BY <1>1, <1>2, StatementAfter DEF HeapTables
    <3> QED BY <1>1, <1>5, <3>1 DEF HeapTables
  <2>2. /\ mem_ptr' \in Nat /\ mem_ptr' >= mem_ptr
        /\ tables' = tables \cup {TableOf(cursor)}
    BY <1>2, <2>1, GetPageStep
  <2>3. HaveTables(tables', HeapPage, cursor + 1)
        /\ GivenOut(mem_ptr', 0 + TablesFrom(HeapPage, cursor + 1))
    <3>1. GivenOut(mem_ptr, 0 + TablesFrom(HeapPage, cursor))
      <4>1. 0 + TablesFrom(HeapPage, cursor) = TablesFrom(HeapPage, cursor)
        BY <1>2, TablesFromNat
      <4> QED BY <1>1, <4>1 DEF AtHeapTables
    <3>2. HaveTables(tables, HeapPage, cursor)
      BY <1>1 DEF AtHeapTables
    <3> QED BY <1>2, <2>1, <3>1, <3>2, NextPage
  <2>4. 0 + TablesFrom(HeapPage, cursor + 1) = TablesFrom(HeapPage, cursor + 1)
    BY <1>2, TablesFromNat
  <2>5. cursor + 1 \in HeapPage..HeapLimit
    BY <1>2, <2>1 DEF InHeap
  <2>6. AtHeapTables'
    <3>1. HaveTables(tables', HeapPage, cursor')
      BY <2>1, <2>3
    <3>2. GivenOut(mem_ptr', TablesFrom(HeapPage, cursor'))
      BY <2>1, <2>3, <2>4
    <3> QED BY <1>1, <1>3, <2>1, <2>5, <3>1, <3>2 DEF AtHeapTables
  <2>7. Common'
    <3>1. TableOf(cursor) \in {TableOf(p) : p \in Pages}
      <4>1. cursor \in 0..(HeapPage + MaxHeapPages - 1)
        BY <1>2, <2>1, Numbers, MemoryAssumption DEF InHeap
      <4> QED BY <4>1, MemoryAssumption
    <3>2. TypeOK'
      BY <1>1, <1>2, <1>4, <1>5, <2>1, <2>2, <3>1 DEF Common, TypeOK
    <3>3. mem_ptr' >= PageSize
      BY <1>2, <2>2
    <3> QED BY <1>1, <1>4, <1>5, <3>2, <3>3 DEF Common, Returned
  <2> QED BY <1>1, <1>5, <2>6, <2>7 DEF BootInv, Returned
<1>6. CASE ~UNCHANGED pc
  <2>1. /\ ~InHeap(cursor) /\ pc' = "identity" /\ cursor' = 0
        /\ UNCHANGED <<mem_ptr, tables>>
    BY <1>1, <1>2, <1>6, StatementAfter DEF HeapTables
  <2>2. cursor = HeapLimit
    BY <1>2, <2>1 DEF InHeap
  <2>3. Common'
    BY <1>1, <1>4, <2>1 DEF Common, TypeOK, Returned
  <2>4. TablesFrom(HeapPage, HeapLimit) = HeapTableCount /\ TablesFrom(0, 0) = 0
    BY <1>2, Numbers DEF TablesFrom, HeapTableCount
  <2>5. GivenOut(mem_ptr', HeapTableCount + 0)
    <3>1. HeapTableCount + 0 = HeapTableCount
      BY Sizes
    <3> QED BY <1>1, <2>1, <2>2, <2>4, <3>1 DEF AtHeapTables
  <2>6. HaveTables(tables', HeapPage, HeapLimit) /\ HaveTables(tables', 0, 0)
    <3>1. \A q \in 0..(0 - 1) : FALSE
      OBVIOUS
    <3> QED BY <1>1, <2>1, <2>2, <3>1 DEF AtHeapTables, HaveTables
  <2>7. AtIdentity'
    BY <1>3, <2>1, <2>4, <2>5, <2>6, Sizes DEF AtIdentity
  <2> QED BY <2>1, <2>3, <2>7 DEF BootInv, Returned
<1> QED BY <1>5, <1>6

LEMMA BootPage ==
  ASSUME NEW p \in Nat, p < HeapPage + MaxHeapPages
  PROVE  p \in Pages
<1>1. p \in 0..(HeapPage + MaxHeapPages - 1)
  BY Numbers
<1> QED BY <1>1, MemoryAssumption

(* The next page of the identity loop gets the frame of its number.        *)
LEMMA MapIdentical ==
  ASSUME PagingTypeOK, NEW k \in Nat, k < BootPages, Mapped(entry, used, k, 0), AllocFrame(k)
  PROVE  Mapped(entry', used', k + 1, 0)
<1>1. /\ k < BitmapReserved /\ k < HeapPage /\ HeapPage \in Nat /\ Pages \subseteq Nat
      /\ k \in Pages
  BY Sizes, Numbers, MemoryAssumption, BootPage
<1>2. entry[k] = Unmapped
  BY <1>1 DEF Mapped, Identical
<1>3. InOrder(used, k)
  BY DEF Mapped
<1>4. /\ entry' = [entry EXCEPT ![k] = Present(k)]
      /\ InOrder(used', k + 1)
  BY <1>1, <1>2, <1>3, AllocInOrder
<1>5. /\ entry'[k] = Present(k)
      /\ \A p \in Pages : p # k => entry'[p] = entry[p]
  BY <1>1, <1>4 DEF PagingTypeOK
<1>6. Identical(entry', k + 1)
  <2> SUFFICES ASSUME NEW p \in Pages, p < HeapPage
               PROVE  entry'[p] = IF p < k + 1 THEN Present(p) ELSE Unmapped
    BY DEF Identical
  <2>1. CASE p = k
    BY <1>1, <1>5, <2>1
  <2>2. CASE p # k
    <3>1. entry'[p] = IF p < k THEN Present(p) ELSE Unmapped
      BY <1>5, <2>2 DEF Mapped, Identical
    <3>2. p \in Nat /\ (p < k <=> p < k + 1)
      BY <1>1, <2>2
    <3> QED BY <3>1, <3>2
  <2> QED BY <2>1, <2>2
<1>7. Following(entry', k + 1, 0)
  <2> SUFFICES ASSUME NEW p \in Pages, p >= HeapPage PROVE entry'[p] = Unmapped
    BY <1>1 DEF Following
  <2>1. p # k /\ p \in Nat
    BY <1>1
  <2>2. entry[p] = Unmapped
    BY <1>1, <2>1 DEF Mapped, Following
  <2> QED BY <1>5, <2>1, <2>2
<1> QED BY <1>4, <1>6, <1>7 DEF Mapped

(* The next page of the heap gets the frame behind the others, or one      *)
(* whose bit is not in the reserved bytes, or the one that first_frame     *)
(* names when there is none.                                               *)
LEMMA AllocBeyond ==
  ASSUME NEW n \in Nat, n >= BitmapReserved, InOrder(used, n),
         NEW p \in Pages, entry[p] = Unmapped, PagingTypeOK, AllocFrame(p)
  PROVE  /\ \E f \in Frames \ {0} : entry' = [entry EXCEPT ![p] = Present(f)]
         /\ InOrder(used', n + 1)
<1>1. entry[p].frame = 0
  BY DEF Unmapped
<1>2. PICK idx \in Frames :
        /\ FirstFrame(idx)
        /\ used' = SetFrame(idx * PageSize)
        /\ entry' = [entry EXCEPT ![p] = Present(idx)]
  BY <1>1 DEF AllocFrame, Present
<1>3. used' = used \cup {idx}
  BY <1>2, SetsItsFrame
<1>4. BitmapReserved \in Nat \ {0} /\ NFrames \in Nat /\ NFrames \div WordBits # 0
  <2>1. BitmapReserved # 0
    BY Sizes, Numbers
  <2>2. NFrames \in Nat /\ WordBits \in Nat /\ 0 < WordBits /\ WordBits <= NFrames
    BY FrameAssumption
  <2>3. NFrames \div WordBits # 0
    BY <2>2
  <2> QED BY <2>1, <2>2, <2>3, Sizes
<1>5. \A f \in Frames : f < BitmapReserved => f \in used
  BY <1>4 DEF InOrder, Frames
<1>6. 0 \in used
  <2>1. 0 \in Frames
    BY FrameAssumption DEF Frames
  <2> QED BY <1>4, <1>5, <2>1
<1>7. idx # 0
  BY <1>2, <1>4, <1>6 DEF FirstFrame
<1>8. InOrder(used', n + 1)
  BY <1>3, <1>4, <1>5 DEF InOrder, Frames
<1> QED BY <1>2, <1>7, <1>8

LEMMA MapHeapPage ==
  ASSUME PagingTypeOK, NEW k \in 1..BootPages, NEW h \in Nat, h < MaxHeapPages,
         Mapped(entry, used, k, h), AllocFrame(HeapPage + h)
  PROVE  Mapped(entry', used', k, h + 1)
<1> DEFINE q == HeapPage + h
<1>1. /\ k \in Nat /\ BitmapReserved \in Nat /\ HeapPage \in Nat /\ Pages \subseteq Nat
      /\ q \in Nat /\ k < HeapPage
  <2>1. /\ BootPages \in Nat /\ BootPages + HeapPages = BitmapReserved
        /\ BitmapReserved \in Nat /\ HeapPages \in Nat /\ HeapPages >= 2 /\ HeapPage \in Nat
    BY Sizes, Numbers
  <2>2. BitmapReserved <= HeapPage /\ Pages \subseteq Nat
    BY MemoryAssumption
  <2> QED BY <2>1, <2>2
<1>2. q \in Pages
  BY <1>1, BootPage, Numbers
<1>3. entry[q] = Unmapped
  <2>1. q >= HeapPage /\ ~(q < HeapPage + h)
    BY <1>1
  <2> QED BY <1>2, <2>1 DEF Mapped, Following
<1>4. InOrder(used, k + h)
  BY DEF Mapped
<1>5. \E f \in Nat \ {0} : /\ entry' = [entry EXCEPT ![q] = Present(f)]
                           /\ (k + h < BitmapReserved => f = k + h)
  <2>1. CASE k + h < BitmapReserved
    <3>1. entry' = [entry EXCEPT ![q] = Present(k + h)]
      BY <1>1, <1>2, <1>3, <1>4, <2>1, AllocInOrder
    <3>2. k + h \in Nat \ {0}
      BY <1>1
    <3> HIDE DEF q
    <3> QED BY <3>1, <3>2
  <2>2. CASE ~(k + h < BitmapReserved)
    <3>1. PICK f \in Frames \ {0} : entry' = [entry EXCEPT ![q] = Present(f)]
      BY <1>1, <1>2, <1>3, <1>4, <2>2, AllocBeyond
    <3>2. f \in Nat \ {0}
      BY FrameAssumption DEF Frames
    <3> QED BY <2>2, <3>1, <3>2
  <2> QED BY <2>1, <2>2
<1>6. InOrder(used', k + (h + 1))
  <2>1. k + h \in Nat /\ k + h + 1 = k + (h + 1)
    BY <1>1
  <2>2. CASE k + h < BitmapReserved
    BY <1>2, <1>3, <1>4, <2>1, <2>2, AllocInOrder
  <2>3. CASE ~(k + h < BitmapReserved)
    <3>1. k + h >= BitmapReserved
      BY <1>1, <2>1, <2>3
    <3> QED BY <1>2, <1>3, <1>4, <2>1, <3>1, AllocBeyond
  <2> QED BY <2>2, <2>3
<1>7. PICK f \in Nat \ {0} : /\ entry' = [entry EXCEPT ![q] = Present(f)]
                             /\ (k + h < BitmapReserved => f = k + h)
  BY <1>5
<1>8. /\ entry'[q] = Present(f)
      /\ \A p \in Pages : p # q => entry'[p] = entry[p]
  <2>1. entry' = [entry EXCEPT ![q] = Present(f)]
    BY <1>7
  <2>2. DOMAIN entry = Pages
    BY DEF PagingTypeOK
  <2> HIDE DEF q
  <2> QED BY <1>2, <2>1, <2>2
<1>9. Identical(entry', k)
  <2> SUFFICES ASSUME NEW p \in Pages, p < HeapPage
               PROVE  entry'[p] = IF p < k THEN Present(p) ELSE Unmapped
    BY DEF Identical
  <2>1. p # q
    BY <1>1
  <2>2. entry'[p] = entry[p]
    BY <1>8, <2>1
  <2> HIDE DEF q
  <2> QED BY <2>2 DEF Mapped, Identical
<1>10. Following(entry', k, h + 1)
  <2> SUFFICES ASSUME NEW p \in Pages, p >= HeapPage
               PROVE  /\ p < HeapPage + (h + 1) /\ k + (p - HeapPage) < BitmapReserved =>
                            entry'[p] = Present(k + (p - HeapPage))
                      /\ p < HeapPage + (h + 1) => entry'[p].present /\ entry'[p].frame # 0
                      /\ p < HeapPage + (h + 1) \/ entry'[p] = Unmapped
    BY DEF Following
  <2>1. CASE p = q
    <3>1. p < HeapPage + (h + 1) /\ k + (p - HeapPage) = k + h
      BY <1>1, <2>1
    <3>2. entry'[p].present /\ entry'[p].frame # 0
      BY <1>7, <1>8, <2>1 DEF Present
    <3>3. k + (p - HeapPage) < BitmapReserved => entry'[p] = Present(k + (p - HeapPage))
      <4> HIDE DEF q
      <4> QED BY <1>7, <1>8, <2>1, <3>1
    <3> QED BY <3>1, <3>2, <3>3
  <2>2. CASE p # q
    <3>1. entry'[p] = entry[p]
      BY <1>8, <2>2
    <3>2. p < HeapPage + h <=> p < HeapPage + (h + 1)
      BY <1>1, <2>2
    <3> HIDE DEF q
    <3> QED BY <3>1, <3>2 DEF Mapped, Following
  <2> QED BY <2>1, <2>2
<1> QED BY <1>6, <1>9, <1>10 DEF Mapped

(* The loop catches up: where BootPages pages are mapped, mem_ptr cannot   *)
(* be beyond them.                                                         *)
LEMMA CatchesUp ==
  ASSUME NEW memory \in Nat, GivenOut(memory, HeapTableCount + TablesFrom(0, BootPages))
  PROVE  memory + PageSize <= BootPages * PageSize
<1>1. BootPages # 0 /\ BootPages - 1 \in Nat /\ 0 \in Nat /\ PageSize \in Nat
      /\ HeapTableCount \in Nat
  BY Sizes
<1>2. TableOf(0) = 0 /\ TableOf(BootPages - 1) \in Nat
  BY <1>1, TableOfBounds, Numbers DEF TableOf
<1>3. HeapTableCount + TablesFrom(0, BootPages) = HeapTableCount + TableOf(BootPages - 1) + 1
  BY <1>1, <1>2 DEF TablesFrom
<1> DEFINE n == HeapTableCount + TableOf(BootPages - 1) + 1
<1>4. PICK m \in ImageEnds : memory <= m + Allocated(n)
  BY <1>3 DEF GivenOut
<1>5. m + Allocated(n) + PageSize <= BootPages * PageSize
  BY MemoryAssumption
<1>6. Allocated(n) \in Nat /\ m \in Nat /\ BootPages * PageSize \in Nat
  BY <1>1, <1>2, AllocatedNext, Numbers, Sizes
<1> HIDE DEF n
<1> QED BY <1>1, <1>4, <1>5, <1>6

LEMMA StillBelowMeans ==
  ASSUME mem_ptr \in Nat, NEW p \in Nat
  PROVE  /\ StillBelow(p) => p * PageSize < mem_ptr + PageSize
         /\ ~StillBelow(p) => mem_ptr <= p * PageSize
         /\ ~StillBelow(p) /\ build # "Dec 3" => mem_ptr + PageSize <= p * PageSize
         /\ p * PageSize \in Nat
<1>1. p * PageSize \in Nat /\ PageSize \in Nat \ {0}
  BY Sizes
<1>2. CASE build = "Dec 3"
  <2>1. StillBelow(p) <=> p * PageSize < mem_ptr
    BY <1>2 DEF StillBelow, BelowMemPtrDec3
  <2>2. \A x \in Nat :
            (x < mem_ptr => x < mem_ptr + PageSize) /\ (~(x < mem_ptr) => mem_ptr <= x)
    BY <1>1
  <2> QED BY <1>1, <1>2, <2>1, <2>2, Zenon
<1>3. CASE build # "Dec 3"
  <2>1. StillBelow(p) <=> p * PageSize < mem_ptr + PageSize
    BY <1>3 DEF StillBelow, BelowMemPtr
  <2>2. \A x \in Nat : ~(x < mem_ptr + PageSize) => mem_ptr <= x /\ mem_ptr + PageSize <= x
    BY <1>1
  <2> QED BY <1>1, <1>3, <2>1, <2>2, Zenon
<1> QED BY <1>2, <1>3

LEMMA IdentityStep ==
  ASSUME BootInv, Identity PROVE BootInv'
<1>1. /\ pc = "identity" /\ Common /\ AtIdentity
      /\ UNCHANGED <<build, heap_end, contracts>>
  BY DEF Identity, Here, BootInv
<1>2. mem_ptr \in Nat /\ mem_ptr >= PageSize /\ build \in Builds /\ PagingTypeOK /\ PInv
  BY <1>1 DEF Common, TypeOK, PInv
<1>3. /\ HeapPage \in Nat /\ cursor \in Nat /\ cursor <= BootPages
      /\ PageSize \in Nat \ {0} /\ BootPages \in Nat /\ BootPages <= HeapPage
  <2>1. cursor \in 0..BootPages
    BY <1>1 DEF AtIdentity
  <2>2. BootPages \in Nat /\ PageSize \in Nat \ {0} /\ HeapPage \in Nat /\ HeapPages \in Nat
        /\ BootPages + HeapPages = BitmapReserved /\ BitmapReserved <= HeapPage
    BY Sizes, Numbers, MemoryAssumption
  <2> QED BY <2>1, <2>2
<1>4. StillBelow(cursor) => cursor < BootPages
  <2> SUFFICES ASSUME StillBelow(cursor), cursor = BootPages PROVE FALSE
    BY <1>3
  <2>1. cursor * PageSize < mem_ptr + PageSize
    BY <1>2, <1>3, StillBelowMeans
  <2>2. mem_ptr + PageSize <= cursor * PageSize
    BY <1>1, <1>2, CatchesUp DEF AtIdentity
  <2>3. cursor * PageSize \in Nat
    BY <1>3
  <2> QED BY <1>2, <1>3, <2>1, <2>2, <2>3
<1>5. CASE /\ StillBelow(cursor) /\ GetPage(cursor) /\ AllocFrame(cursor)
           /\ cursor' = cursor + 1 /\ UNCHANGED pc
  <2>1. /\ mem_ptr' \in Nat /\ mem_ptr' >= mem_ptr
        /\ tables' = tables \cup {TableOf(cursor)}
    BY <1>2, <1>3, <1>5, GetPageStep
  <2>2. cursor < BootPages /\ cursor + 1 \in 0..BootPages /\ cursor \in Pages
    <3>1. cursor < HeapPage + MaxHeapPages
      BY <1>3, <1>4, <1>5, Numbers
    <3> QED BY <1>3, <1>4, <1>5, <3>1, BootPage
  <2>3. Mapped(entry', used', cursor + 1, 0)
    BY <1>1, <1>2, <1>3, <1>5, <2>2, MapIdentical DEF AtIdentity
  <2>4. PInv'
    BY <1>2, <1>5, <2>2, AllocFrameInv
  <2>5. HaveTables(tables', 0, cursor + 1)
        /\ GivenOut(mem_ptr', HeapTableCount + TablesFrom(0, cursor + 1))
    <3>1. HaveTables(tables, 0, cursor) /\ GivenOut(mem_ptr, HeapTableCount + TablesFrom(0, cursor))
      BY <1>1 DEF AtIdentity
    <3>2. HeapTableCount \in Nat /\ 0 \in Nat /\ 0 <= cursor
      BY <1>3, Sizes
    <3> QED BY <1>2, <1>3, <1>5, <3>1, <3>2, NextPage
  <2>6. build # "Dec 3" => HaveTables(tables', HeapPage, HeapLimit)
    BY <1>1, <2>1 DEF AtIdentity, HaveTables
  <2>7. AtIdentity'
    BY <1>1, <1>5, <2>2, <2>3, <2>5, <2>6 DEF AtIdentity
  <2>8. Common'
    <3>1. tables' \subseteq {TableOf(p) : p \in Pages}
      BY <1>1, <2>1, <2>2 DEF Common, TypeOK
    <3>2. TypeOK'
      BY <1>1, <1>3, <1>5, <2>1, <2>4, <3>1 DEF Common, TypeOK, PInv
    <3>3. mem_ptr' >= PageSize
      BY <1>2, <1>3, <2>1
    <3> QED BY <1>1, <1>5, <2>4, <3>2, <3>3 DEF Common, Returned, PInv
  <2> QED BY <1>1, <1>5, <2>7, <2>8 DEF BootInv, Returned
<1>6. CASE /\ ~StillBelow(cursor) /\ NextStatement /\ cursor' = HeapPage
           /\ UNCHANGED <<pagingVars, mem_ptr, tables>>
  <2>1. pc' = IF build = "Dec 3" THEN "done" ELSE "heapmap"
    BY <1>1, <1>2, <1>6, StatementAfter
  <2>2. Mapped(entry', used', cursor, 0)
    BY <1>1, <1>3, <1>6, MappedUnchanged DEF AtIdentity, pagingVars
  <2>3. Common'
    <3>1. TypeOK'
      BY <1>1, <1>3, <1>6, <2>1 DEF Common, TypeOK, PagingTypeOK, pagingVars
    <3>2. MappedFramesUsed' /\ NoSharedFrame'
      BY <1>1, <1>6 DEF Common, MappedFramesUsed, NoSharedFrame, pagingVars
    <3>3. heap_end' = 0 /\ contracts' = 0 /\ mem_ptr' >= PageSize
      BY <1>1, <1>6 DEF Common, Returned
    <3> QED BY <3>1, <3>2, <3>3 DEF Common
  <2>4. cursor \in 1..BootPages /\ Reaches(cursor, mem_ptr)
        /\ (build # "Dec 3" => Reaches(cursor, mem_ptr + PageSize))
    <3>1. cursor * PageSize \in Nat /\ mem_ptr <= cursor * PageSize
          /\ (build # "Dec 3" => mem_ptr + PageSize <= cursor * PageSize)
      BY <1>2, <1>3, <1>6, StillBelowMeans
    <3>2. cursor # 0
      <4>1. mem_ptr > 0 /\ 0 * PageSize = 0
        BY <1>2, <1>3
      <4>2. SUFFICES ASSUME cursor = 0 PROVE FALSE
        OBVIOUS
      <4>3. mem_ptr <= 0
        BY <3>1, <4>1, <4>2
      <4> QED BY <1>2, <4>1, <4>3
    <3>3. cursor \in 1..BootPages
      BY <1>3, <3>2
    <3> QED BY <3>1, <3>3 DEF Reaches
  <2>5. CASE build = "Dec 3"
    <3>1. Afterwards'
      <4>1. heap_end' = 0 /\ contracts' = 0 /\ pc' = "done" /\ build' = "Dec 3"
        BY <1>1, <2>1, <2>5 DEF Common, Returned
      <4>2. \A p \in Pages : entry'[p].frame # 0 => entry'[p].present
        <5> SUFFICES ASSUME NEW p \in Pages PROVE entry'[p] = Unmapped \/ entry'[p].present
          BY DEF Unmapped
        <5>1. p \in Nat
          BY MemoryAssumption
        <5>2. CASE p < HeapPage
          <6>1. entry'[p] = Unmapped \/ entry'[p] = Present(p)
            BY <2>2, <5>2 DEF Mapped, Identical
          <6> QED BY <6>1 DEF Present
        <5>3. CASE p >= HeapPage
          <6>1. entry'[p] = Unmapped
            BY <1>3, <2>2, <5>1, <5>3 DEF Mapped, Following
          <6> QED BY <6>1
        <5> QED BY <1>3, <5>1, <5>2, <5>3
      <4>3. \A p \in Pages : ~(HeapPage <= p /\ p < HeapPage + 0)
        BY <1>3, MemoryAssumption
      <4>4. Identical(entry', cursor) /\ 0 \in 0..MaxHeapPages
        BY <2>2, Numbers DEF Mapped
      <4> QED BY <1>6, <2>2, <2>4, <4>1, <4>2, <4>3, <4>4 DEF Afterwards
    <3> QED BY <2>1, <2>3, <2>5, <3>1 DEF BootInv, Returned
  <2>6. CASE build # "Dec 3"
    <3>1. HeapPage \in HeapPage..HeapLimit /\ HeapPage - HeapPage = 0
      BY <1>3, Numbers DEF HeapLimit
    <3>2. AtHeapMap'
      BY <1>1, <1>6, <2>2, <2>4, <2>6, <3>1 DEF AtHeapMap, AtIdentity
    <3> QED BY <2>1, <2>3, <2>6, <3>2 DEF BootInv, Returned
  <2> QED BY <2>5, <2>6
<1>7. (StillBelow(cursor) /\ cursor < HeapPage /\ GetPage(cursor) /\ AllocFrame(cursor)
       /\ cursor' = cursor + 1 /\ UNCHANGED pc)
      \/ (~StillBelow(cursor) /\ NextStatement /\ cursor' = HeapPage
          /\ UNCHANGED <<pagingVars, mem_ptr, tables>>)
  BY DEF Identity
<1> QED BY <1>5, <1>6, <1>7

LEMMA PInvUnchanged ==
  ASSUME PInv, UNCHANGED pagingVars PROVE PInv'
  BY DEF PInv, PagingTypeOK, MappedFramesUsed, NoSharedFrame, pagingVars

LEMMA CommonStep ==
  ASSUME Common, PInv', UNCHANGED <<build, tables>>,
         pc' \in {"bitmap", "directory", "heaptables", "identity", "heapmap", "heap",
                  "clone", "lost", "giveback", "done"},
         mem_ptr' \in Nat, mem_ptr' >= mem_ptr,
         cursor' \in Nat, heap_end' \in Nat, contracts' \in Nat,
         ~Returned' => heap_end' = 0 /\ contracts' = 0
  PROVE  Common'
<1>1. mem_ptr' >= PageSize
  BY Sizes DEF Common, TypeOK
<1> QED BY <1>1 DEF Common, TypeOK, PInv

LEMMA HeapMapStep ==
  ASSUME BootInv, HeapMap PROVE BootInv'
<1>1. /\ pc = "heapmap" /\ Common /\ AtHeapMap /\ PInv
      /\ heap_end = 0 /\ contracts = 0
      /\ UNCHANGED <<build, heap_end, contracts>>
  BY DEF HeapMap, Here, BootInv, Common, TypeOK, PInv, Returned
<1>2. PICK k \in 1..BootPages :
        Reaches(k, mem_ptr + PageSize) /\ Mapped(entry, used, k, cursor - HeapPage)
  BY <1>1 DEF AtHeapMap
<1>3. /\ mem_ptr \in Nat /\ mem_ptr >= PageSize /\ build \in Builds
      /\ HeapPage \in Nat /\ HeapPages \in Nat /\ MaxHeapPages \in Nat /\ HeapPages <= MaxHeapPages
      /\ cursor \in Nat /\ HeapPage <= cursor /\ cursor <= HeapPage + HeapPages
  <2>1. mem_ptr \in Nat /\ mem_ptr >= PageSize /\ build \in Builds /\ cursor \in Nat
    BY <1>1 DEF Common, TypeOK
  <2>2. /\ HeapPage \in Nat /\ HeapPages \in Nat /\ MaxHeapPages \in Nat
        /\ HeapPages <= MaxHeapPages
    BY Numbers, MemoryAssumption
  <2>3. cursor \in HeapPage..(HeapPage + HeapPages)
    BY <1>1 DEF AtHeapMap, HeapLimit
  <2> QED BY <2>1, <2>2, <2>3
<1>4. CASE /\ InHeap(cursor) /\ GetPage(cursor) /\ AllocFrame(cursor)
           /\ cursor' = cursor + 1 /\ UNCHANGED pc
  <2>0. PICK h \in Nat : cursor = HeapPage + h
    BY <1>3
  <2>1. /\ h < MaxHeapPages /\ cursor - HeapPage = h /\ cursor' = cursor + 1
        /\ cursor' - HeapPage = h + 1 /\ cursor' \in HeapPage..HeapLimit
        /\ cursor < HeapPage + MaxHeapPages /\ cursor < HeapLimit
    BY <1>3, <1>4, <2>0 DEF InHeap, HeapLimit
  <2>2. TableOf(cursor) \in tables
    <3>1. cursor \in HeapPage..(HeapLimit - 1)
      BY <1>3, <2>1 DEF HeapLimit
    <3> QED BY <1>1, <3>1 DEF AtHeapMap, HaveTables
  <2>3. UNCHANGED <<mem_ptr, tables>>
    BY <1>4, <2>2 DEF GetPage
  <2>4. Mapped(entry', used', k, h + 1)
    <3>1. PagingTypeOK /\ Mapped(entry, used, k, h) /\ AllocFrame(HeapPage + h)
      BY <1>1, <1>2, <1>4, <2>0, <2>1 DEF PInv
    <3> QED BY <2>1, <3>1, MapHeapPage
  <2>5. PInv'
    BY <1>1, <1>3, <1>4, <2>1, BootPage, AllocFrameInv
  <2>6. Common'
    BY <1>1, <1>3, <1>4, <2>3, <2>5, CommonStep DEF Common, TypeOK
  <2>7. AtHeapMap'
    <3>2. Mapped(entry', used', k, cursor' - HeapPage) /\ Reaches(k, mem_ptr' + PageSize)
      BY <1>2, <2>1, <2>3, <2>4
    <3>3. HaveTables(tables', HeapPage, HeapLimit) /\ build' # "Dec 3"
      BY <1>1, <2>3 DEF AtHeapMap
    <3> QED BY <2>1, <3>2, <3>3 DEF AtHeapMap
  <2> QED BY <1>1, <1>4, <2>6, <2>7 DEF BootInv, Returned
<1>5. CASE /\ ~InHeap(cursor) /\ NextStatement
           /\ UNCHANGED <<pagingVars, cursor, mem_ptr, tables>>
  <2>1. pc' = "heap" /\ cursor = HeapPage + HeapPages
    BY <1>1, <1>3, <1>5, StatementAfter DEF InHeap
  <2>2. Mapped(entry', used', k, HeapPages)
    <3>1. cursor - HeapPage = HeapPages
      BY <1>3, <2>1
    <3> QED BY <1>2, <1>3, <1>5, <3>1 DEF pagingVars
  <2>3. AtHeap'
    BY <1>1, <1>2, <1>5, <2>2 DEF AtHeap, AtHeapMap
  <2>4. Common'
    BY <1>1, <1>3, <1>5, <2>1, PInvUnchanged, CommonStep DEF Common, TypeOK
  <2> QED BY <2>1, <2>3, <2>4 DEF BootInv, Returned
<1> QED BY <1>4, <1>5 DEF HeapMap

(* Whatever the first frames are given to, a page with a frame is present. *)
LEMMA MappedPresent ==
  ASSUME NEW k \in Nat, NEW h \in Nat, Mapped(entry, used, k, h), NEW p \in Pages
  PROVE  /\ entry[p].frame # 0 => entry[p].present
         /\ HeapPage <= p /\ p < HeapPage + h => entry[p].present
<1>1. p \in Nat /\ HeapPage \in Nat
  BY MemoryAssumption, Numbers
<1>2. CASE p < HeapPage
  <2>1. entry[p] = Unmapped \/ entry[p] = Present(p)
    BY <1>2 DEF Mapped, Identical
  <2> QED BY <1>1, <1>2, <2>1 DEF Present, Unmapped
<1>3. CASE p >= HeapPage
  <2>1. p < HeapPage + h => entry[p].present
    BY <1>3 DEF Mapped, Following
  <2>2. p < HeapPage + h \/ entry[p] = Unmapped
    BY <1>3 DEF Mapped, Following
  <2> QED BY <2>1, <2>2 DEF Unmapped
<1> QED BY <1>1, <1>2, <1>3

LEMMA CreateHeapStep ==
  ASSUME BootInv, CreateHeap PROVE BootInv'
<1>1. /\ pc = "heap" /\ Common /\ AtHeap /\ PInv /\ contracts = 0
      /\ mem_ptr' = mem_ptr + HeapSize /\ heap_end' = HeapPages
      /\ NextStatement
      /\ UNCHANGED <<pagingVars, build, cursor, tables, contracts>>
  BY DEF CreateHeap, Kmalloc, Here, BootInv, Common, TypeOK, PInv, Returned
<1>2. PICK k \in 1..BootPages :
        Reaches(k, mem_ptr + PageSize) /\ Mapped(entry, used, k, HeapPages)
  BY <1>1 DEF AtHeap
<1>3. /\ mem_ptr \in Nat /\ PageSize \in Nat /\ HeapSize \in Nat /\ HeapSize <= PageSize
      /\ HeapPages \in 0..MaxHeapPages /\ HeapPages \in Nat /\ BootPages \in Nat /\ k \in Nat
  <2>1. mem_ptr \in Nat
    BY <1>1 DEF Common, TypeOK
  <2> QED BY <2>1, Numbers, Sizes, MemoryAssumption
<1>4. pc' \in {"clone", "done"}
  BY <1>1, StatementAfter DEF Common, TypeOK
<1>5. mem_ptr' \in Nat /\ mem_ptr' >= mem_ptr /\ Reaches(k, mem_ptr')
  <2>1. k * PageSize \in Nat
    BY <1>3
  <2> QED BY <1>1, <1>2, <1>3, <2>1 DEF Reaches
<1>6. Common'
  <2>1. PInv'
    BY <1>1, PInvUnchanged
  <2>2. cursor' \in Nat /\ contracts' \in Nat /\ Returned'
    BY <1>1, <1>4 DEF Common, TypeOK, Returned
  <2> QED BY <1>1, <1>3, <1>4, <1>5, <2>1, <2>2, CommonStep
<1>7. Mapped(entry', used', k, HeapPages)
  BY <1>1, <1>2, <1>3, MappedUnchanged DEF pagingVars
<1>8. Afterwards'
  <2>1. build' # "Dec 3" /\ pc' # "giveback"
    BY <1>1, <1>4 DEF AtHeap
  <2>2. \A p \in Pages : /\ entry'[p].frame # 0 => entry'[p].present
                         /\ HeapPage <= p /\ p < HeapPage + HeapPages => entry'[p].present
    BY <1>1, <1>2, <1>3, MappedPresent DEF pagingVars
  <2>3. Identical(entry', k)
    BY <1>7 DEF Mapped
  <2> QED BY <1>1, <1>3, <1>5, <1>7, <2>1, <2>2, <2>3 DEF Afterwards
<1> QED BY <1>4, <1>6, <1>8 DEF BootInv, Returned

(* Afterwards does not depend on which of the last statements is next.     *)
LEMMA AfterwardsStep ==
  ASSUME Afterwards, UNCHANGED <<entry, used, mem_ptr, build, heap_end, contracts>>,
         pc' # "giveback"
  PROVE  Afterwards'
<1>1. heap_end' \in 0..MaxHeapPages /\ (build' = "Dec 3" => heap_end' = 0)
  BY DEF Afterwards
<1>2. \A p \in Pages : /\ entry'[p].frame # 0 => entry'[p].present
                       /\ HeapPage <= p /\ p < HeapPage + heap_end' => entry'[p].present
  BY DEF Afterwards
<1>3. \E k \in 1..BootPages : /\ Reaches(k, mem_ptr') /\ Identical(entry', k)
                              /\ contracts' = 0 => Mapped(entry', used', k, heap_end')
  BY DEF Afterwards
<1> QED BY <1>1, <1>2, <1>3 DEF Afterwards

LEMMA CloneDirectoryStep ==
  ASSUME BootInv, CloneDirectory PROVE BootInv'
<1>1. /\ pc = "clone" /\ Common /\ PInv /\ Afterwards
      /\ NextStatement \/ pc' = "lost"
      /\ UNCHANGED <<pagingVars, build, cursor, mem_ptr, tables, heap_end, contracts>>
  BY DEF CloneDirectory, Here, BootInv, Common, TypeOK, PInv, Returned
<1>2. pc' \in {"done", "lost"}
  BY <1>1, StatementAfter DEF Common, TypeOK
<1>3. Common'
  <2>1. PInv' /\ Returned'
    BY <1>1, <1>2, PInvUnchanged DEF Returned
  <2> QED BY <1>1, <1>2, <2>1, CommonStep DEF Common, TypeOK
<1>4. Afterwards'
  BY <1>1, <1>2, AfterwardsStep DEF pagingVars
<1> QED BY <1>2, <1>3, <1>4 DEF BootInv, Returned

LEMMA ContractStep ==
  ASSUME BootInv, Contract PROVE BootInv'
<1>1. /\ pc = "done" /\ Common /\ PInv /\ Afterwards
      /\ pc' = "giveback" /\ contracts' = contracts + 1
      /\ UNCHANGED <<pagingVars, build, mem_ptr, tables>>
  BY DEF Contract, Here, BootInv, Common, TypeOK, PInv, Returned
<1>2. PICK pages \in 1..(heap_end - 1) :
        /\ ContractTo(pages) < heap_end
        /\ cursor' = heap_end - 1
        /\ heap_end' = ContractTo(pages)
  BY DEF Contract
<1>3. heap_end \in Nat /\ heap_end \in 0..MaxHeapPages /\ contracts \in Nat /\ MaxHeapPages \in Nat
      /\ mem_ptr \in Nat /\ HeapPage \in Nat
  BY <1>1, Numbers DEF Common, TypeOK, Afterwards
<1>4. pages \in Nat /\ ContractTo(pages) \in Nat
  <2>1. pages \in Nat
    BY <1>3
  <2> QED BY <2>1, Numbers DEF ContractTo
<1>5. /\ heap_end' \in Nat /\ heap_end' < heap_end /\ heap_end' \in 0..MaxHeapPages
      /\ cursor' \in Nat /\ cursor' \in 0..(MaxHeapPages - 1)
      /\ contracts' \in Nat /\ contracts' > 0
  BY <1>1, <1>2, <1>3, <1>4
<1>6. Common'
  <2>1. PInv' /\ Returned'
    BY <1>1, PInvUnchanged DEF Returned
  <2> QED BY <1>1, <1>3, <1>5, <2>1, CommonStep
<1>7. Afterwards'
  <2>1. build' # "Dec 3" /\ contracts' # 0
    <3>1. build = "Dec 3" => heap_end = 0
      BY <1>1 DEF Afterwards
    <3>2. heap_end # 0 /\ contracts' # 0
      BY <1>3, <1>5
    <3> QED BY <1>1, <3>1, <3>2
  <2>2. \A p \in Pages : entry'[p].frame # 0 => entry'[p].present
    BY <1>1 DEF Afterwards, pagingVars
  <2>3. ASSUME NEW p \in Pages, HeapPage <= p, p < HeapPage + heap_end' PROVE entry'[p].present
    <3>1. p < HeapPage + heap_end
      <4>1. p \in Nat
        BY MemoryAssumption
      <4>2. heap_end' \in Nat /\ heap_end' < heap_end /\ heap_end \in Nat /\ HeapPage \in Nat
        BY <1>3, <1>5
      <4>3. \A a, b, c, d \in Nat : a < c + b /\ b < d => a < c + d
        OBVIOUS
      <4>4. p < HeapPage + heap_end'
        BY <2>3
      <4> QED BY <4>1, <4>2, <4>3, <4>4
    <3> QED BY <1>1, <2>3, <3>1 DEF Afterwards, pagingVars
  <2>4. \E k \in 1..BootPages : Reaches(k, mem_ptr') /\ Identical(entry', k)
    BY <1>1 DEF Afterwards, pagingVars
  <2> QED BY <1>5, <2>1, <2>2, <2>3, <2>4 DEF Afterwards
<1> QED BY <1>1, <1>6, <1>7 DEF BootInv, Returned

(* An entry outside the identity part changes: that part stays.            *)
LEMMA IdenticalStep ==
  ASSUME NEW k \in Nat, Identical(entry, k), PagingTypeOK, NEW q \in Pages, q >= HeapPage,
         AllocFrame(q) \/ FreeFrame(q)
  PROVE  Identical(entry', k)
<1>1. \A p \in Pages : p # q => entry'[p] = entry[p]
  BY DEF AllocFrame, FreeFrame, PagingTypeOK, pagingVars
<1>2. \A p \in Pages : p < HeapPage => p # q
  BY Numbers, MemoryAssumption
<1> QED BY <1>1, <1>2 DEF Identical

LEMMA PresentStep ==
  ASSUME PagingTypeOK, NEW q \in Pages, AllocFrame(q) \/ FreeFrame(q),
         \A p \in Pages : entry[p].frame # 0 => entry[p].present
  PROVE  /\ \A p \in Pages : entry'[p].frame # 0 => entry'[p].present
         /\ \A p \in Pages : entry[p].present => entry'[p].present
         /\ AllocFrame(q) => entry'[q].present
<1>1. CASE UNCHANGED pagingVars
  <2>1. AllocFrame(q) => entry[q].present
    <3> SUFFICES ASSUME AllocFrame(q), entry[q].frame = 0 PROVE entry[q].present
      OBVIOUS
    <3>1. entry' = entry /\ \E idx \in Frames :
             entry' = [entry EXCEPT ![q] = [present |-> TRUE, frame |-> idx]]
      BY <1>1 DEF AllocFrame, pagingVars
    <3> QED BY <3>1 DEF PagingTypeOK
  <2> QED BY <1>1, <2>1 DEF pagingVars
<1>2. CASE AllocFrame(q) /\ ~UNCHANGED pagingVars
  <2>1. PICK idx \in Frames : entry' = [entry EXCEPT ![q] = [present |-> TRUE, frame |-> idx]]
    BY <1>2 DEF AllocFrame
  <2> QED BY <2>1 DEF PagingTypeOK
<1>3. CASE FreeFrame(q) /\ ~UNCHANGED pagingVars
  <2>1. entry' = [entry EXCEPT ![q].frame = 0] /\ entry[q].frame # 0
    BY <1>3 DEF FreeFrame
  <2>2. ~AllocFrame(q)
    <3>1. entry'[q].frame = 0
      BY <2>1 DEF PagingTypeOK
    <3> QED BY <1>3, <2>1 DEF AllocFrame
  <2> QED BY <2>1, <2>2 DEF PagingTypeOK
<1> QED BY <1>1, <1>2, <1>3

LEMMA ExpandStep ==
  ASSUME BootInv, Expand PROVE BootInv'
<1>1. /\ pc = "done" /\ Common /\ PInv /\ Afterwards
      /\ heap_end > 0 /\ heap_end < MaxHeapPages /\ AllocFrame(HeapPage + heap_end)
      /\ heap_end' = heap_end + 1
      /\ UNCHANGED <<build, pc, mem_ptr, cursor, tables, contracts>>
  BY DEF Expand, Here, BootInv, Common, TypeOK, PInv, Returned
<1> DEFINE q == HeapPage + heap_end
<1>2. heap_end \in Nat /\ MaxHeapPages \in Nat /\ HeapPage \in Nat /\ mem_ptr \in Nat
  BY <1>1, Numbers DEF Common, TypeOK
<1>3. q \in Pages /\ q >= HeapPage /\ heap_end' \in 0..MaxHeapPages /\ heap_end' \in Nat
  BY <1>1, <1>2, BootPage
<1>4. PInv' /\ PagingTypeOK
  BY <1>1, <1>3, AllocFrameInv DEF PInv
<1>5. Common'
  <2>1. Returned'
    BY <1>1 DEF Returned
  <2> QED BY <1>1, <1>2, <1>3, <1>4, <2>1, CommonStep DEF Common, TypeOK
<1>6. PICK k \in 1..BootPages :
        /\ Reaches(k, mem_ptr) /\ Identical(entry, k)
        /\ contracts = 0 => Mapped(entry, used, k, heap_end)
  BY <1>1 DEF Afterwards
<1>7. Identical(entry', k)
  BY <1>1, <1>3, <1>4, <1>6, IdenticalStep, Sizes
<1>8. contracts' = 0 => Mapped(entry', used', k, heap_end + 1)
  BY <1>1, <1>2, <1>4, <1>6, MapHeapPage
<1>9. /\ \A p \in Pages : entry'[p].frame # 0 => entry'[p].present
      /\ \A p \in Pages : entry[p].present => entry'[p].present
      /\ entry'[q].present
  BY <1>1, <1>3, <1>4, PresentStep DEF Afterwards
<1>10. ASSUME NEW p \in Pages, HeapPage <= p, p < HeapPage + heap_end' PROVE entry'[p].present
  <2>1. p < HeapPage + heap_end \/ p = q
    BY <1>1, <1>2, <1>10, MemoryAssumption
  <2> QED BY <1>1, <1>9, <1>10, <2>1 DEF Afterwards
<1>11. Afterwards'
  <2>1. build' # "Dec 3" /\ pc' # "giveback" /\ Reaches(k, mem_ptr')
    <3>1. build = "Dec 3" => heap_end = 0
      BY <1>1 DEF Afterwards
    <3>2. heap_end # 0
      BY <1>1, <1>2
    <3> QED BY <1>1, <1>6, <3>1, <3>2
  <2>2. contracts' = 0 => Mapped(entry', used', k, heap_end')
    BY <1>1, <1>8
  <2> QED BY <1>3, <1>7, <1>9, <1>10, <2>1, <2>2 DEF Afterwards
<1> QED BY <1>1, <1>5, <1>11 DEF BootInv, Returned

LEMMA GiveBackStep ==
  ASSUME BootInv, GiveBack PROVE BootInv'
<1>1. /\ pc = "giveback" /\ Common /\ PInv /\ Afterwards
      /\ UNCHANGED <<build, mem_ptr, tables, heap_end, contracts>>
  BY DEF GiveBack, Here, BootInv, Common, TypeOK, PInv, Returned
<1>2. /\ heap_end \in Nat /\ MaxHeapPages \in Nat /\ HeapPage \in Nat /\ mem_ptr \in Nat
      /\ cursor \in 0..(MaxHeapPages - 1) /\ contracts \in Nat /\ contracts > 0
  BY <1>1, Numbers DEF Common, TypeOK, Afterwards
<1>3. CASE heap_end < cursor /\ FreeFrame(HeapPage + cursor) /\ cursor' = cursor - 1 /\ UNCHANGED pc
  <2> DEFINE q == HeapPage + cursor
  <2>1. /\ q \in Pages /\ q >= HeapPage
        /\ cursor' \in 0..(MaxHeapPages - 1) /\ cursor' \in Nat
    BY <1>2, <1>3, BootPage
  <2>2. PInv' /\ PagingTypeOK
    BY <1>1, <1>3, <2>1, FreeFrameInv DEF PInv
  <2>3. Common'
    <3>1. Returned'
      BY <1>1, <1>3 DEF Returned
    <3> QED BY <1>1, <1>2, <1>3, <2>1, <2>2, <3>1, CommonStep DEF Common, TypeOK
  <2>4. PICK k \in 1..BootPages : Reaches(k, mem_ptr) /\ Identical(entry, k)
    BY <1>1 DEF Afterwards
  <2>5. Identical(entry', k)
    BY <1>3, <2>1, <2>2, <2>4, IdenticalStep, Sizes
  <2>6. /\ \A p \in Pages : entry'[p].frame # 0 => entry'[p].present
        /\ \A p \in Pages : entry[p].present => entry'[p].present
    BY <1>1, <1>3, <2>1, <2>2, PresentStep DEF Afterwards
  <2>7. \A p \in Pages : HeapPage <= p /\ p < HeapPage + heap_end' => entry'[p].present
    BY <1>1, <2>6 DEF Afterwards
  <2>8. heap_end' \in 0..MaxHeapPages /\ (build' = "Dec 3" => heap_end' = 0)
        /\ contracts' # 0 /\ contracts' > 0 /\ Reaches(k, mem_ptr')
    <3>1. heap_end \in 0..MaxHeapPages /\ (build = "Dec 3" => heap_end = 0)
      BY <1>1 DEF Afterwards
    <3>2. contracts # 0
      BY <1>2
    <3> QED BY <1>1, <1>2, <2>4, <3>1, <3>2
  <2>9. Afterwards'
    BY <2>1, <2>5, <2>6, <2>7, <2>8 DEF Afterwards
  <2> QED BY <1>1, <1>3, <2>3, <2>9 DEF BootInv, Returned
<1>4. CASE heap_end >= cursor /\ pc' = "done" /\ UNCHANGED <<pagingVars, cursor>>
  <2>1. PInv' /\ Returned'
    BY <1>1, <1>4, PInvUnchanged DEF Returned
  <2>2. Common'
    BY <1>1, <1>2, <1>4, <2>1, CommonStep DEF Common, TypeOK
  <2>3. Afterwards'
    BY <1>1, <1>4, AfterwardsStep DEF pagingVars
  <2> QED BY <1>4, <2>2, <2>3 DEF BootInv, Returned
<1> QED BY <1>3, <1>4 DEF GiveBack
-----------------------------------------------------------------------------
LEMMA BootNextInv ==
  ASSUME BootInv, [Next]_vars PROVE BootInv'
<1>1. CASE Next
  BY <1>1, BitmapStep, DirectoryStep, HeapTablesStep, IdentityStep, HeapMapStep,
     CreateHeapStep, CloneDirectoryStep, ExpandStep, ContractStep, GiveBackStep DEF Next
<1>2. CASE UNCHANGED vars
  <2>1. UNCHANGED <<used, entry, exhausted, panicked>>
        /\ UNCHANGED <<build, pc, mem_ptr, cursor, tables, heap_end, contracts>>
    BY <1>2 DEF vars, pagingVars, bootVars
  <2>2. Common'
    BY <2>1 DEF BootInv, Common, TypeOK, PagingTypeOK, MappedFramesUsed, NoSharedFrame, Returned
  <2>3. pc' = "bitmap" => AtBitmap'
    BY <2>1 DEF BootInv, AtBitmap
  <2>4. pc' = "directory" => AtDirectory'
    BY <2>1 DEF BootInv, AtDirectory
  <2>5. pc' = "heaptables" => AtHeapTables'
    BY <2>1 DEF BootInv, AtHeapTables
  <2>6. pc' = "identity" => AtIdentity'
    BY <2>1 DEF BootInv, AtIdentity
  <2>7. pc' = "heapmap" => AtHeapMap'
    BY <2>1 DEF BootInv, AtHeapMap
  <2>8. pc' = "heap" => AtHeap'
    BY <2>1 DEF BootInv, AtHeap
  <2>9. Returned' => Afterwards'
    BY <2>1 DEF BootInv, Afterwards, Returned
  <2> QED BY <2>2, <2>3, <2>4, <2>5, <2>6, <2>7, <2>8, <2>9 DEF BootInv
<1> QED BY <1>1, <1>2

LEMMA PageBelow ==
  ASSUME NEW memory \in Nat, memory >= 1, NEW k \in Nat, Reaches(k, memory),
         NEW n \in 0..((memory - 1) \div PageSize)
  PROVE  n \in Nat /\ n < k
<1>1. PageSize \in Nat \ {0} /\ memory - 1 \in Nat
  BY Sizes
<1> DEFINE d == (memory - 1) \div PageSize
<1>2. d \in Nat /\ d * PageSize <= memory - 1
  BY <1>1
<1> HIDE DEF d
<1>3. n \in Nat /\ n <= d
  BY <1>2 DEF d
<1>4. SUFFICES ASSUME k <= n PROVE FALSE
  BY <1>3
<1>5. PICK c \in Nat : d = k + c
  BY <1>2, <1>3, <1>4
<1>6. d * PageSize = k * PageSize + c * PageSize
  BY <1>1, <1>5
<1>7. c * PageSize \in Nat /\ k * PageSize \in Nat
  BY <1>1
<1> QED BY <1>1, <1>2, <1>6, <1>7 DEF Reaches

LEMMA InvIdentityMapped == BootInv => IdentityMapped
<1> SUFFICES ASSUME BootInv, PagingOn, NEW n \in 0..((mem_ptr - 1) \div PageSize)
             PROVE  n \in Pages /\ entry[n] = [present |-> TRUE, frame |-> n]
  BY DEF IdentityMapped
<1>1. mem_ptr \in Nat /\ mem_ptr >= 1 /\ PageSize \in Nat
  BY Sizes DEF BootInv, Common, TypeOK
<1>2. PICK k \in 1..BootPages : Reaches(k, mem_ptr) /\ Identical(entry, k)
  <2>1. CASE pc = "heap"
    <3>1. PICK k \in 1..BootPages : Reaches(k, mem_ptr + PageSize) /\ Mapped(entry, used, k, HeapPages)
      BY <2>1 DEF BootInv, AtHeap
    <3>2. Reaches(k, mem_ptr)
      <4>1. k * PageSize \in Nat
        BY <1>1, Sizes
      <4> QED BY <1>1, <3>1, <4>1 DEF Reaches
    <3> QED BY <3>1, <3>2 DEF Mapped
  <2>2. CASE Returned
    BY <2>2 DEF BootInv, Afterwards
  <2> QED BY <2>1, <2>2 DEF PagingOn, Returned
<1>3. n \in Nat /\ n < k
  BY <1>1, <1>2, Sizes, PageBelow
<1>4. k <= HeapPage /\ k \in Nat /\ HeapPage \in Nat /\ MaxHeapPages \in Nat
  <2>1. BootPages \in Nat /\ BootPages <= HeapPage
    BY Sizes, Numbers, MemoryAssumption
  <2> QED BY <2>1, Numbers
<1>5. n \in Pages /\ n < HeapPage
  BY <1>3, <1>4, BootPage
<1> QED BY <1>2, <1>3, <1>5 DEF Identical, Present

(* A page that is mapped before the heap is contracted, to a frame whose   *)
(* bit is not in the bytes that were reserved, is one that the heap has    *)
(* grown by, and the pages before it have taken all frames they describe.  *)
LEMMA MappedBelow ==
  ASSUME NEW k \in Nat, NEW h \in Nat, k <= BootPages, h <= MaxHeapPages,
         Mapped(entry, used, k, h),
         NEW p \in Pages, entry[p].present, entry[p].frame >= BitmapReserved
  PROVE  /\ p >= HeapPage + HeapPages
         /\ \A f \in 0..(BitmapReserved - 1) : \E q \in Pages : entry[q] = Present(f)
<1>1. /\ p \in Nat /\ HeapPage \in Nat /\ BootPages \in Nat /\ HeapPages \in Nat
      /\ BitmapReserved \in Nat /\ BootPages + HeapPages = BitmapReserved
      /\ BitmapReserved <= HeapPage /\ MaxHeapPages \in Nat
  BY Sizes, Numbers, MemoryAssumption
<1>2. p >= HeapPage
  <2> SUFFICES ASSUME p < HeapPage PROVE FALSE
    BY <1>1
  <2>1. p < k /\ entry[p] = Present(p)
    BY DEF Mapped, Identical, Unmapped
  <2>2. entry[p].frame = p
    BY <2>1 DEF Present
  <2> QED BY <1>1, <2>1, <2>2
<1>3. p < HeapPage + h
  BY <1>2 DEF Mapped, Following, Unmapped
<1>4. k + (p - HeapPage) >= BitmapReserved
  <2> SUFFICES ASSUME k + (p - HeapPage) < BitmapReserved PROVE FALSE
    BY <1>1
  <2>1. entry[p] = Present(k + (p - HeapPage))
    BY <1>2, <1>3 DEF Mapped, Following
  <2>2. entry[p].frame = k + (p - HeapPage)
    BY <2>1 DEF Present
  <2> QED BY <1>1, <2>2
<1>5. p >= HeapPage + HeapPages
  BY <1>1, <1>4
<1>6. ASSUME NEW f \in 0..(BitmapReserved - 1) PROVE \E q \in Pages : entry[q] = Present(f)
  <2>1. CASE f < k
    <3>1. f < HeapPage /\ f \in Pages
      BY <1>1, <2>1, BootPage
    <3>2. entry[f] = Present(f)
      BY <2>1, <3>1 DEF Mapped, Identical
    <3> QED BY <3>1, <3>2
  <2>2. CASE f >= k
    <3> DEFINE q == HeapPage + (f - k)
    <3>1. /\ q \in Nat /\ q >= HeapPage /\ q < HeapPage + h /\ k + (q - HeapPage) = f
          /\ f < BitmapReserved /\ q < HeapPage + MaxHeapPages
      BY <1>1, <1>3, <1>4, <2>2
    <3>2. q \in Pages
      BY <3>1, BootPage
    <3> HIDE DEF q
    <3>3. k + (q - HeapPage) < BitmapReserved
      BY <3>1
    <3>4. entry[q] = Present(k + (q - HeapPage))
      BY <3>1, <3>2, <3>3 DEF Mapped, Following
    <3> QED BY <3>1, <3>2, <3>4
  <2> QED BY <1>1, <2>1, <2>2
<1> QED BY <1>5, <1>6

LEMMA InvBitmapInBounds == BootInv => BitmapInBounds
<1> SUFFICES ASSUME BootInv, pc # "bitmap", contracts = 0,
                    NEW p \in Pages, entry[p].present, entry[p].frame >= BitmapReserved
             PROVE  /\ p >= HeapPage + HeapPages
                    /\ \A f \in 0..(BitmapReserved - 1) :
                         \E q \in Pages : entry[q] = Present(f)
  BY DEF BitmapInBounds, Present
<1>1. BootPages \in Nat /\ MaxHeapPages \in Nat /\ HeapPages \in Nat /\ HeapPages <= MaxHeapPages
      /\ HeapPage \in Nat /\ 0 \in Nat /\ 0 <= MaxHeapPages /\ 0 <= BootPages
  BY Sizes, Numbers, MemoryAssumption
<1>2. \E k \in 0..BootPages, h \in 0..MaxHeapPages : Mapped(entry, used, k, h)
  <2>1. CASE pc \in {"directory", "heaptables"}
    <3>1. Mapped(entry, used, 0, 0)
      BY <2>1 DEF BootInv, AtDirectory, AtHeapTables
    <3> QED BY <1>1, <3>1
  <2>2. CASE pc = "identity"
    <3>1. cursor \in 0..BootPages /\ Mapped(entry, used, cursor, 0)
      BY <2>2 DEF BootInv, AtIdentity
    <3> QED BY <1>1, <3>1
  <2>3. CASE pc = "heapmap"
    <3>1. PICK k \in 1..BootPages : Mapped(entry, used, k, cursor - HeapPage)
      BY <2>3 DEF BootInv, AtHeapMap
    <3>2. cursor \in HeapPage..(HeapPage + HeapPages)
      BY <2>3 DEF BootInv, AtHeapMap, HeapLimit
    <3>3. cursor - HeapPage \in 0..MaxHeapPages /\ k \in 0..BootPages
      BY <1>1, <3>2
    <3> QED BY <3>1, <3>3
  <2>4. CASE pc = "heap"
    <3>1. PICK k \in 1..BootPages : Mapped(entry, used, k, HeapPages)
      BY <2>4 DEF BootInv, AtHeap
    <3>2. HeapPages \in 0..MaxHeapPages /\ k \in 0..BootPages
      BY <1>1
    <3> QED BY <3>1, <3>2
  <2>5. CASE Returned
    <3>1. PICK k \in 1..BootPages : Mapped(entry, used, k, heap_end)
      BY <2>5 DEF BootInv, Afterwards
    <3>2. heap_end \in 0..MaxHeapPages
      BY <2>5 DEF BootInv, Afterwards
    <3>3. k \in 0..BootPages
      BY <1>1
    <3> QED BY <3>1, <3>2, <3>3
  <2> QED BY <2>1, <2>2, <2>3, <2>4, <2>5 DEF BootInv, Common, TypeOK, Returned
<1>3. PICK k \in 0..BootPages, h \in 0..MaxHeapPages : Mapped(entry, used, k, h)
  BY <1>2
<1> QED BY <1>1, <1>3, MappedBelow

LEMMA InvHeapBacked == BootInv => HeapBacked
<1> SUFFICES ASSUME BootInv, ~exhausted, NEW p \in HeapMapped
             PROVE  /\ entry[p].present
                    /\ entry[p].frame \notin IdentityPages \/ (entry[p].frame = 0 /\ contracts > 0)
  BY DEF HeapBacked
<1> DEFINE h == IF pc = "heap" THEN HeapPages ELSE heap_end
<1>1. /\ build # "Dec 3" /\ PagingOn /\ p \in HeapPage..(HeapPage + h - 1)
      /\ (pc = "heap" \/ Returned)
  <2>1. build # "Dec 3" /\ PagingOn
    <3>1. PagingOn
      <4> SUFFICES ASSUME ~PagingOn PROVE FALSE
        OBVIOUS
      <4>1. pc # "heap" /\ HeapMapped = {}
        BY DEF PagingOn, HeapMapped
      <4> QED BY <4>1
    <3>2. build # "Dec 3"
      <4> SUFFICES ASSUME build = "Dec 3" PROVE FALSE
        OBVIOUS
      <4>1. pc # "heap"
        BY DEF BootInv, AtHeap
      <4>2. HeapMapped = {}
        BY <4>1 DEF HeapMapped
      <4> QED BY <4>2
    <3> QED BY <3>1, <3>2
  <2>2. pc = "heap" \/ Returned
    BY <2>1 DEF PagingOn, Returned
  <2>3. CASE pc = "heap"
    BY <2>1, <2>2, <2>3 DEF HeapMapped
  <2>4. CASE pc # "heap"
    BY <2>1, <2>2, <2>4 DEF HeapMapped
  <2> QED BY <2>1, <2>2, <2>3, <2>4
<1>2. /\ Common /\ PagingTypeOK /\ contracts \in Nat /\ heap_end \in Nat
      /\ HeapPage \in Nat /\ HeapPages \in Nat /\ MaxHeapPages \in Nat /\ HeapPages <= MaxHeapPages
      /\ BootPages \in Nat
  BY Numbers, Sizes, MemoryAssumption DEF BootInv, Common, TypeOK
<1>3. h \in Nat /\ h <= MaxHeapPages
  <2>1. Returned => heap_end \in 0..MaxHeapPages
    BY DEF BootInv, Afterwards
  <2>2. CASE pc = "heap"
    BY <1>2, <2>2
  <2>3. CASE pc # "heap"
    <3>1. heap_end \in 0..MaxHeapPages
      BY <1>1, <2>1, <2>3
    <3> QED BY <1>2, <2>3, <3>1
  <2> QED BY <2>2, <2>3
<1> HIDE DEF h
<1>4. p \in Nat /\ HeapPage <= p /\ p < HeapPage + h /\ p \in Pages
  <2>1. p \in Nat /\ HeapPage <= p /\ p < HeapPage + h
    <3>1. p \in HeapPage..(HeapPage + h - 1)
      BY <1>1
    <3> QED BY <1>2, <1>3, <3>1
  <2>2. p < HeapPage + MaxHeapPages
    BY <1>2, <1>3, <2>1
  <2> QED BY <2>1, <2>2, BootPage
<1>5. PICK k \in 1..BootPages :
        Identical(entry, k) /\ (contracts = 0 => Mapped(entry, used, k, h))
  <2>1. CASE pc = "heap"
    BY <2>1 DEF BootInv, AtHeap, Mapped, h
  <2>2. CASE pc # "heap"
    BY <1>1, <2>2 DEF BootInv, Afterwards, h
  <2> QED BY <2>1, <2>2
<1>6. entry[p].present
  <2>1. CASE pc = "heap"
    <3>1. Mapped(entry, used, k, h)
      BY <1>5, <2>1 DEF BootInv, Common, Returned
    <3> QED BY <1>3, <1>4, <3>1, MappedPresent
  <2>2. CASE pc # "heap"
    BY <1>1, <1>4, <2>2 DEF BootInv, Afterwards, h
  <2> QED BY <2>1, <2>2
<1>7. ASSUME entry[p].frame \in IdentityPages PROVE entry[p].frame = 0 /\ contracts > 0
  <2> DEFINE f == entry[p].frame
  <2>1. f \in Pages /\ f < HeapPage /\ entry[f].present
    BY <1>7 DEF IdentityPages
  <2>2. entry[f] = Present(f)
    BY <1>5, <2>1 DEF Identical, Unmapped
  <2>3. f = 0
    <3> SUFFICES ASSUME f # 0 PROVE FALSE
      OBVIOUS
    <3>1. entry[f].frame = entry[p].frame
      BY <2>2 DEF Present
    <3>2. p = f
      BY <1>2, <1>4, <2>1, <3>1 DEF Common, NoSharedFrame
    <3>3. f \in Nat
      BY <2>1, MemoryAssumption
    <3> QED BY <1>2, <1>4, <2>1, <3>2, <3>3
  <2>4. ASSUME contracts = 0 PROVE FALSE
    <3>1. entry[p].frame # 0
      BY <1>4, <1>5, <2>4 DEF Mapped, Following
    <3> QED BY <2>3, <3>1
  <2> QED BY <1>2, <2>3, <2>4
<1> QED BY <1>6, <1>7

(* Whatever the sizes of image, tables and heap that memory has room for,  *)
(* and in all three states of the sources: what the placement allocator    *)
(* hands out is mapped to itself although the loop that maps it allocates  *)
(* more, the heap's pages take no frame of the kernel's, boot writes no    *)
(* bit behind the bytes reserved for the bitmap and growth none before     *)
(* they are full, and no two pages share a frame until frames run out.     *)
THEOREM BootSafe ==
  Spec => [](TypeOK /\ IdentityMapped /\ HeapBacked /\ BitmapInBounds /\ NoSharedFrame)
<1>1. BootInv /\ [Next]_vars => BootInv'
  BY BootNextInv
<1>2. BootInv => TypeOK /\ IdentityMapped /\ HeapBacked /\ BitmapInBounds /\ NoSharedFrame
  BY InvIdentityMapped, InvHeapBacked, InvBitmapInBounds DEF BootInv, Common
<1> QED BY <1>1, <1>2, BootInitInv, PTL DEF Spec
=============================================================================
