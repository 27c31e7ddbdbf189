-------------------------------- MODULE Boot --------------------------------
(***************************************************************************)
(* initialize_paging, statement by statement, with what it calls: the      *)
(* placement allocator of kmalloc, which moves mem_ptr while the kernel is *)
(* mapping everything below mem_ptr, get_page, which calls it for a new    *)
(* page table, alloc_frame, and the part of create_heap that allocates.    *)
(* After it, expand's loop, which backs new heap pages with frames, and    *)
(* contract's, which gives frames back.  A loop body is a step.            *)
(* The repository keeps three states of this function: "Dec 3" has no heap *)
(* and "Dec 7" clones the directory at the end; build says which one runs. *)
(* Addresses count bytes, pages and frames are numbers.                    *)
(***************************************************************************)
EXTENDS Paging, Sequences

CONSTANTS
    Builds,         \* which of "Dec 3", "Dec 7" and "current" are looked at
    ImageEnds,      \* where the initrd may end: the first mem_ptr
    StaleFrames,    \* bits that may be set in the part memset leaves alone
    PagesPerTable,  \* 1024 in the kernel
    HeapPage,       \* the page of KHEAP_START
    HeapPages,      \* pages in KHEAP_INITIAL_SIZE
    HeapMin,        \* pages in HEAP_MIN_SIZE
    HeapSize,       \* sizeof(heap_t)
    IndexPages,     \* pages that the heap's index takes, 128 in the kernel
    HeaderSize,     \* sizeof(header_t)
    FooterSize,     \* sizeof(footer_t)
    MaxHeapPages,   \* pages from KHEAP_START to the heap's max_address
    MaxContracts    \* bound: calls of contract

ASSUME BootAssumption ==
    /\ Builds \subseteq {"Dec 3", "Dec 7", "current"}
    /\ PagesPerTable \in Nat \ {0}
    /\ HeapMin \in 2..HeapPages /\ MaxContracts \in Nat
    /\ HeapPage \in Nat /\ HeapPages \in Nat /\ MaxHeapPages \in Nat
    /\ HeapSize \in 1..PageSize /\ IndexPages \in 1..(HeapPages - 1)
    /\ HeaderSize \in Nat /\ FooterSize \in Nat
    /\ StaleFrames \subseteq SUBSET Frames
    /\ \A m \in ImageEnds : m \in Nat /\ m >= PageSize

VARIABLES
    build,     \* the state of the sources that is running
    pc,        \* the statement of initialize_paging about to run
    mem_ptr,   \* the end of what the placement allocator has given out
    cursor,    \* the loop variable, as a page number
    tables,    \* indices of the directory that have a page table
    heap_end,  \* pages in the heap once it exists
    contracts  \* history: how often contract was called

bootVars == <<build, pc, mem_ptr, cursor, tables, heap_end, contracts>>
vars == <<pagingVars, bootVars>>

(* What the three states of initialize_paging do, one after the other.     *)
StepsDec3 == <<"bitmap", "directory", "identity", "done">>
StepsDec7 == <<"bitmap", "directory", "heaptables", "identity", "heapmap", "heap",
               "clone", "done">>
StepsNow == <<"bitmap", "directory", "heaptables", "identity", "heapmap", "heap", "done">>
Steps == CASE build = "Dec 3" -> StepsDec3
           [] build = "Dec 7" -> StepsDec7
           [] build = "current" -> StepsNow

Here(statement) == pc = statement /\ ~panicked
NextStatement == \E i \in 1..(Len(Steps) - 1) : Steps[i] = pc /\ pc' = Steps[i + 1]

BitmapSize == NFrames \div WordBits       \* bytes asked for, a quarter of the need
BitmapReserved == BitmapSize * (WordBits \div 4)     \* bits that fit in them
DirectorySize == 2 * PageSize + 4
TableSize == PageSize
-----------------------------------------------------------------------------
(* kmalloc before there is a heap: rounding goes to the next boundary, and *)
(* one page further when mem_ptr is already on one.                        *)
Aligned(m) == IF m >= PageSize THEN (m \div PageSize) * PageSize + PageSize ELSE m
Kmalloc(size) == mem_ptr' = mem_ptr + size
KmallocAligned(size) == mem_ptr' = Aligned(mem_ptr) + size

(* get_page(p, 1): a missing page table is allocated, and not cleared.     *)
TableOf(p) == p \div PagesPerTable
GetPageUnrecorded(p) ==   \* a variant: the directory entry is not written
    /\ KmallocAligned(TableSize)
    /\ UNCHANGED tables
GetPage(p) ==
    \/ TableOf(p) \in tables /\ UNCHANGED <<tables, mem_ptr>>
    \/ /\ TableOf(p) \notin tables
       /\ KmallocAligned(TableSize)
       /\ tables' = tables \cup {TableOf(p)}

(* The frames that the reserved part of the bitmap describes hold the      *)
(* image, what is allocated here, and the heap that boot makes: 4 MB in    *)
(* the kernel, which comes from a floppy and is loaded at 1 MB.  A page    *)
(* table costs at most two pages.  What the heap grows by later need not   *)
(* fit there.  All other pages are the heap's or nobody's.                 *)
Allocated(tableCount) ==
    BitmapSize + PageSize + DirectorySize + 2 * PageSize * tableCount
HeapTableCount == TableOf(HeapPage + HeapPages - 1) - TableOf(HeapPage) + 1
BootPages == BitmapReserved - HeapPages
ASSUME MemoryAssumption ==
    /\ Pages \subseteq Nat /\ 0..(HeapPage + MaxHeapPages - 1) \subseteq Pages
    /\ HeapPages <= MaxHeapPages /\ HeapPages < BitmapReserved
    /\ BitmapReserved <= HeapPage
    /\ \A m \in ImageEnds :
         m + Allocated(HeapTableCount + TableOf(BootPages - 1) + 1) + PageSize
            <= BootPages * PageSize

(* Main sets mem_ptr to the end of the initrd; memory behind it is not     *)
(* cleared by anyone, the page tables are taken to come out clear.         *)
Init ==
    /\ PagingInit
    /\ build \in Builds
    /\ pc = "bitmap"
    /\ mem_ptr \in ImageEnds
    /\ cursor = HeapPage
    /\ tables = {}
    /\ heap_end = 0
    /\ contracts = 0

Bitmap ==
    /\ Here("bitmap")
    /\ Kmalloc(BitmapSize)
    /\ \E stale \in StaleFrames : used' = {f \in stale : f >= BitmapReserved}
    /\ NextStatement
    /\ UNCHANGED <<build, entry, exhausted, panicked, cursor, tables, heap_end, contracts>>

Directory ==
    /\ Here("directory")
    /\ KmallocAligned(DirectorySize)
    /\ cursor' = IF build = "Dec 3" THEN 0 ELSE HeapPage
    /\ NextStatement
    /\ UNCHANGED <<pagingVars, build, tables, heap_end, contracts>>

(* The page tables of the heap are made before anything is mapped, so that *)
(* mapping the heap allocates nothing more.                                *)
InHeapShort(p) == p < HeapPage + HeapPages - 1   \* a variant: one page short
InHeap(p) == p < HeapPage + HeapPages

HeapTables ==
    /\ Here("heaptables")
    /\ UNCHANGED <<pagingVars, build, heap_end, contracts>>
    /\ \/ /\ InHeap(cursor)
          /\ GetPage(cursor)
          /\ cursor' = cursor + 1
          /\ UNCHANGED pc
       \/ /\ ~InHeap(cursor)
          /\ NextStatement /\ cursor' = 0
          /\ UNCHANGED <<mem_ptr, tables>>

(* The condition reads mem_ptr anew in every round; since there is a heap  *)
(* one page beyond it is mapped, for what create_heap still allocates.     *)
(* The pages below the heap are the bound of the model: a loop that        *)
(* reached it would stop there.                                            *)
BelowImageEnd(p) == p * PageSize < mem_ptr   \* a variant: without the spare page
BelowPageNumber(p) == p < mem_ptr + PageSize  \* a variant: counts pages, not bytes
BelowMemPtrDec3(p) == p * PageSize < mem_ptr
BelowMemPtr(p) == p * PageSize < mem_ptr + PageSize
StillBelow(p) == IF build = "Dec 3" THEN BelowMemPtrDec3(p) ELSE BelowMemPtr(p)

Identity ==
    /\ Here("identity")
    /\ UNCHANGED <<build, heap_end, contracts>>
    /\ \/ /\ StillBelow(cursor) /\ cursor < HeapPage
          /\ GetPage(cursor)
          /\ AllocFrame(cursor)
          /\ cursor' = cursor + 1
          /\ UNCHANGED pc
       \/ /\ ~StillBelow(cursor)
          /\ NextStatement /\ cursor' = HeapPage
          /\ UNCHANGED <<pagingVars, mem_ptr, tables>>

HeapMap ==
    /\ Here("heapmap")
    /\ UNCHANGED <<build, heap_end, contracts>>
    /\ \/ /\ InHeap(cursor)
          /\ GetPage(cursor)
          /\ AllocFrame(cursor)
          /\ cursor' = cursor + 1
          /\ UNCHANGED pc
       \/ /\ ~InHeap(cursor)
          /\ NextStatement
          /\ UNCHANGED <<pagingVars, cursor, mem_ptr, tables>>

(* switch_page_directory turns paging on; from here memory is reached      *)
(* through the tables.  create_heap takes its heap_t from mem_ptr.         *)
CreateHeap ==
    /\ Here("heap")
    /\ Kmalloc(HeapSize)
    /\ heap_end' = HeapPages
    /\ NextStatement
    /\ UNCHANGED <<pagingVars, build, cursor, tables, contracts>>
-----------------------------------------------------------------------------
(* What the heap of Dec 7 has for its first client: behind the index, one  *)
(* hole.  The words that page alignment costs come out as 0, see Heap.     *)
HoleAt == (HeapPage + IndexPages) * PageSize
HoleSize == (HeapPages - IndexPages) * PageSize
FindSmallestHole(size) == {hole \in {HoleAt} : HoleSize >= size}

(* alloc puts a page-aligned block behind the next page boundary, writes   *)
(* headers and footers of the block and of the holes around it, and        *)
(* returns where the block's contents begin.                               *)
AlignedBlock(hole) == hole + PageSize - (hole % PageSize)
Written(hole, size) ==
    LET block == AlignedBlock(hole)
    IN  {hole, block - HeaderSize - FooterSize, block - HeaderSize, block + size,
         block + size + FooterSize, hole + HoleSize - FooterSize}
Alloc(size) ==
    {AlignedBlock(hole) : hole \in
        {h \in FindSmallestHole(size + HeaderSize + FooterSize) :
            \A a \in Written(h, size) : entry[a \div PageSize].present}}

(* clone_dir asks kmalloc, which now has a heap and no return on that      *)
(* path.  The caller finds in the result register what the compiler left   *)
(* there: the address of its own local variable, or the block's address.   *)
OnStack == -1
CloneReturns(size) == {OnStack} \cup Alloc(size)

(* switch_page_directory gives the processor the address of                *)
(* physical_tables, a page behind the start, as a physical one: they are   *)
(* found there if that page maps the frame of the same number.             *)
FoundByProcessor(dir) ==
    LET page == dir \div PageSize + 1
    IN  page \in Pages /\ entry[page].frame = page

(* Cleared on the stack, the directory takes the return addresses with it. *)
CloneDirectory ==
    /\ Here("clone")
    /\ \E dir \in CloneReturns(DirectorySize) :
         IF dir # OnStack /\ FoundByProcessor(dir) THEN NextStatement ELSE pc' = "lost"
    /\ UNCHANGED <<pagingVars, build, cursor, mem_ptr, tables, heap_end, contracts>>
-----------------------------------------------------------------------------
(* The body of expand's loop: one more page at the end of the heap, up to  *)
(* max_address.  The model ends where the page has no table: get_page      *)
(* would take one from the heap that is being expanded.                    *)
Expand ==
    /\ Here("done") /\ heap_end > 0
    /\ heap_end < MaxHeapPages
    /\ TableOf(HeapPage + heap_end) \in tables
    /\ AllocFrame(HeapPage + heap_end)
    /\ heap_end' = heap_end + 1
    /\ UNCHANGED <<build, pc, mem_ptr, cursor, tables, contracts>>

(* contract tests one bit where it means to round, and falls back to the   *)
(* least size when the bit is set.                                         *)
ContractTo(pages) == IF pages % 2 = 1 \/ pages < HeapMin THEN HeapMin ELSE pages
Contract ==
    /\ Here("done")
    /\ contracts < MaxContracts
    /\ \E pages \in 1..(heap_end - 1) :
         /\ ContractTo(pages) < heap_end
         /\ cursor' = heap_end - 1
         /\ heap_end' = ContractTo(pages)
    /\ pc' = "giveback"
    /\ contracts' = contracts + 1
    /\ UNCHANGED <<pagingVars, build, mem_ptr, tables>>

(* Its loop, down to the new end.                                          *)
GiveBack ==
    /\ Here("giveback")
    /\ UNCHANGED <<build, mem_ptr, tables, heap_end, contracts>>
    /\ \/ /\ heap_end < cursor
          /\ FreeFrame(HeapPage + cursor)
          /\ cursor' = cursor - 1
          /\ UNCHANGED pc
       \/ /\ heap_end >= cursor
          /\ pc' = "done"
          /\ UNCHANGED <<pagingVars, cursor>>

Next ==
    \/ Bitmap \/ Directory \/ HeapTables \/ Identity \/ HeapMap \/ CreateHeap
    \/ CloneDirectory \/ Expand \/ Contract \/ GiveBack

(* The boot processor runs the statements one after the other.             *)
Spec == Init /\ [][Next]_vars /\ WF_vars(Next)
-----------------------------------------------------------------------------
TypeOK ==
    /\ PagingTypeOK
    /\ build \in Builds
    /\ pc \in {"bitmap", "directory", "heaptables", "identity", "heapmap", "heap",
               "clone", "lost", "giveback", "done"}
    /\ mem_ptr \in Nat /\ cursor \in Nat /\ heap_end \in Nat /\ contracts \in Nat
    /\ tables \subseteq {TableOf(p) : p \in Pages}

PagingOn == pc \in {"heap", "clone", "giveback", "done"}
HeapMapped ==
    CASE build = "Dec 3" \/ ~PagingOn -> {}
      [] pc = "heap" -> HeapPage..(HeapPage + HeapPages - 1)
      [] OTHER -> HeapPage..(HeapPage + heap_end - 1)
IdentityPages == {p \in Pages : p < HeapPage /\ entry[p].present}

(* From the moment paging is on, every byte the placement allocator has    *)
(* given out, page tables and the heap's own record included, is reached   *)
(* at its physical address.                                                *)
IdentityMapped ==
    PagingOn => \A n \in 0..((mem_ptr - 1) \div PageSize) :
        n \in Pages /\ entry[n] = [present |-> TRUE, frame |-> n]

(* Until frames run out the pages of the heap are backed by frames that    *)
(* neither the kernel image nor the page tables use.  The exception is     *)
(* what contract makes of frame 0: giving any frame back marks frame 0     *)
(* free, and the heap may then grow onto the firmware's memory.            *)
HeapBacked ==
    ~exhausted => \A p \in HeapMapped :
        /\ entry[p].present
        /\ entry[p].frame \notin IdentityPages \/ (entry[p].frame = 0 /\ contracts > 0)

(* The bytes reserved for the bitmap are a quarter of what it needs.  Boot *)
(* writes no bit behind them, and the growth of a heap that was never      *)
(* contracted does not until every frame they describe is in use; then it  *)
(* does, with nothing to stop it.  contract loses the frames it gives      *)
(* back, so growth after it gets there sooner.                             *)
BitmapInBounds == pc # "bitmap" /\ contracts = 0 =>
    \A p \in Pages : entry[p].present /\ entry[p].frame >= BitmapReserved =>
        /\ p >= HeapPage + HeapPages
        /\ \A f \in 0..(BitmapReserved - 1) :
              \E q \in Pages : entry[q] = [present |-> TRUE, frame |-> f]

(* The loop that chases mem_ptr catches up with it, and initialize_paging  *)
(* returns; the Dec 7 sources never get past their cloned directory.       *)
BootEnds == <>(IF build = "Dec 7" THEN pc = "lost" ELSE pc = "done")
=============================================================================
