-------------------------------- MODULE Heap --------------------------------
(***************************************************************************)
(* kmem.c: the kernel heap.  A chunk of the heap is a header, a payload    *)
(* and a footer; the index is the ordered array of the headers of holes.   *)
(* Memory is modelled word by word, because the allocator finds its way    *)
(* by reading headers and footers back: addresses and sizes count words    *)
(* (every request of the kernel is a multiple of a word), a header is the  *)
(* three words magic, is_hole, size, a footer the two words magic, header. *)
(* alloc calls itself after it has expanded the heap, so a request stays   *)
(* pending between Grow and Place.                                         *)
(***************************************************************************)
EXTENDS Integers, FiniteSets, SequencesExt, FiniteSetsExt

CONSTANTS
    PageSize,     \* 0x1000
    Start,        \* heap->start_address, the word behind the index
    InitialEnd,   \* heap->end_address when the heap is created
    MaxAddress,   \* heap->max_address
    MinSize,      \* HEAP_MIN_SIZE
    WordLimit,    \* unsigned arithmetic is modulo this
    Magic,        \* HEAP_MAGIC, a number that is no address and no size
    Sizes,        \* what is asked of alloc
    Aligns,       \* the values of page_align, a subset of BOOLEAN
    AnyOrder,     \* whether blocks are freed and the heap grows in any order,
                  \* see Harmless and HarmlessGrowth
    MaxLive,      \* bound: blocks that clients hold at a time
    MaxFrees      \* bound: calls of free

ASSUME HeapAssumption ==
    /\ PageSize \in Nat /\ PageSize > 5
    /\ {Start, InitialEnd, MaxAddress, MinSize, WordLimit, Magic, MaxLive, MaxFrees} \subseteq Nat
    /\ Start % PageSize = 0 /\ InitialEnd % PageSize = 0 /\ MaxAddress % PageSize = 0
    /\ Start > 0 /\ Start + 5 <= InitialEnd /\ InitialEnd <= MaxAddress /\ MaxAddress < Magic
    /\ Magic < WordLimit \div 2
    /\ Sizes \subseteq Nat \ {0} /\ Aligns \subseteq BOOLEAN /\ AnyOrder \in BOOLEAN

(* What contract leaves, 0x70000 and at least two pages, is less than what *)
(* the heap begins with.                                                   *)
ASSUME LeastSizeAssumption ==
    MaxFrees > 0 =>
        MinSize % PageSize = 0 /\ 2 * PageSize <= MinSize /\ Start + MinSize <= InitialEnd

VARIABLES
    mem,      \* the words of the heap, and the last two of its index
    index,    \* heap->index, as the list that OrderedArray implements
    end,      \* heap->end_address
    backed,   \* pages of the heap that have a frame of their own
    request,  \* the alloc in progress, or << >>
    status,   \* "ok", "assert" (kassert spins), "unbacked" (reached a lost page)
    live,     \* ghost: payload address and requested size of the blocks held
    frees     \* ghost: calls of free so far

vars == <<mem, index, end, backed, request, status, live, frees>>

Words == (Start - 2)..(MaxAddress - 1)
Header(is_hole, size) == <<Magic, is_hole, size>>
Footer(header) == <<Magic, header>>
OverheadNoFooter == 3   \* a variant: the footer is not counted
Overhead == 5

At(m, a) == IF a \in Words THEN m[a] ELSE 0
SizeAt(m, h) == At(m, h + 2)
Put(m, a, words) ==
    [x \in Words |-> IF x \in a..(a + Len(words) - 1) THEN words[x - a + 1] ELSE m[x]]

Add(a, b) == (a + b) % WordLimit
Sub(a, b) == (a - b) % WordLimit

(* Whether the n words at a lie in the given pages of the heap, or in the  *)
(* index in front of it.                                                   *)
PageOf(a) == a \div PageSize
Reach(a, n, pages) ==
    \A x \in a..(a + n - 1) : x \in (Start - 2)..(Start - 1) \/ PageOf(x) \in pages
-----------------------------------------------------------------------------
(* insert_ordered_array with header_t_less_than, which reads the sizes of  *)
(* the headers as they are now.                                            *)
Inserted(m, idx, h) ==
    LET stop == SelectInSeq(idx, LAMBDA x : ~(SizeAt(m, x) < SizeAt(m, h)))
    IN  InsertAt(idx, IF stop = 0 THEN Len(idx) + 1 ELSE stop, h)

(* find_smallest_hole, 0 for its -1.  The words that page alignment costs  *)
(* are computed under a mask that is 0 for every even address, and so come *)
(* out as 0; with page_align the sizes are compared as signed numbers.     *)
Signed(a) == IF a < WordLimit \div 2 THEN a ELSE a - WordLimit
SizeFound(h) == IF request.page_align THEN Signed(SizeAt(mem, h)) ELSE SizeAt(mem, h)

FindPayload(size) ==   \* a variant: header and footer of the chunk forgotten
    SelectInSeq(index, LAMBDA h : SizeFound(h) + Overhead >= size)
FindSmallestHole(size) == SelectInSeq(index, LAMBDA h : SizeFound(h) >= size)

(* create_heap: one hole that is the whole heap, and no footer for it.     *)
Init ==
    /\ mem = Put([x \in Words |-> 0], Start, Header(1, InitialEnd - Start))
    /\ index = <<Start>>
    /\ end = InitialEnd
    /\ backed = PageOf(Start)..(PageOf(InitialEnd) - 1)
    /\ request = << >>
    /\ status = "ok"
    /\ live = {}
    /\ frees = 0

Alloc(size, page_align) ==
    /\ status = "ok" /\ request = << >> /\ Cardinality(live) < MaxLive
    /\ request' = [size |-> size, page_align |-> page_align]
    /\ UNCHANGED <<mem, index, end, backed, status, live, frees>>

(* A failed assertion and a page fault both leave the kernel spinning.     *)
Halt(reason) ==
    /\ status' = reason
    /\ UNCHANGED <<mem, index, end, backed, request, live, frees>>

(* expand.  Its loop steps a page at a time from the old end, wherever in  *)
(* its page that is; the rounding of new_size tests the same empty mask.   *)
FitsAlways(new_end) ==   \* a variant: the assertion is missing
    TRUE
Fits(new_end) == new_end <= MaxAddress

Expanded(new_end) ==
    backed \cup {PageOf(a) : a \in {x \in end..(new_end - 1) : (x - end) % PageSize = 0}}

(* No hole is large enough: expand by the size of the chunk, and give the  *)
(* new words to the hole at the highest address, wherever that is, or make *)
(* a hole of them when there is none.                                      *)
Grown == IF index = << >> THEN end ELSE Max(ToSet(index))

Grow ==
    /\ status = "ok" /\ request # << >>
    /\ FindSmallestHole(request.size + Overhead) = 0
    /\ LET new_end == end + request.size + Overhead
           size == IF index = << >> THEN new_end - end
                   ELSE Add(SizeAt(mem, Grown), new_end - end)
           m1 == IF index = << >> THEN Put(mem, Grown, Header(1, size))
                 ELSE Put(mem, Grown + 2, <<size>>)
           m2 == Put(m1, Grown + size - 2, Footer(Grown))
           touched == /\ Reach(Grown, 3, Expanded(new_end))
                      /\ Reach(Grown + size - 2, 2, Expanded(new_end))
       IN  \/ ~Fits(new_end) /\ Halt("assert")
           \/ Fits(new_end) /\ ~touched /\ Halt("unbacked")
           \/ /\ Fits(new_end) /\ touched
              /\ end' = new_end
              /\ backed' = Expanded(new_end)
              /\ mem' = m2
              /\ index' = IF index = << >> THEN Inserted(m2, index, Grown) ELSE index
              /\ UNCHANGED <<request, status, live, frees>>

(* A remainder too small for a chunk goes to the block.                    *)
SlackNone(remainder) ==   \* a variant: the remainder is dropped
    0
Slack(remainder) == IF remainder < Overhead THEN remainder ELSE 0

(* A hole is large enough.  With page_align the words in front of the      *)
(* block stay a hole, in its old place in the index.  What lies behind the *)
(* block becomes a hole.  The client then overwrites what it got, or not.  *)
Place ==
    /\ status = "ok" /\ request # << >>
    /\ FindSmallestHole(request.size + Overhead) # 0
    /\ LET aligned == request.page_align
           asked == request.size + Overhead
           i == FindSmallestHole(asked)
           hole == index[i]
           hole_size == SizeAt(mem, hole)
           slack == Slack(hole_size - asked)
           size == request.size + slack
           block == IF aligned THEN hole + PageSize - (hole % PageSize) - 3 ELSE hole
           m1 == IF aligned
                 THEN Put(Put(mem, hole, Header(1, Sub(block, hole))), block - 2, Footer(hole))
                 ELSE mem
           rest == IF aligned THEN Sub(hole_size, SizeAt(m1, hole)) ELSE hole_size
           m2 == Put(Put(m1, block, Header(0, asked + slack)), block + 3 + size, Footer(block))
           left == Sub(rest, asked + slack)
           behind == block + Overhead + size
           tail == (behind + left - 2) % WordLimit
           m3 == IF left = 0 THEN m2
                 ELSE LET m == Put(m2, behind, Header(1, left))
                      IN  IF tail < end THEN Put(m, tail, Footer(behind)) ELSE m
           index1 == IF aligned THEN index ELSE RemoveAt(index, i)
           touched == /\ Reach(hole, 3, backed)
                      /\ aligned => Reach(block - 2, 2, backed)
                      /\ Reach(block, 3, backed) /\ Reach(block + 3 + size, 2, backed)
                      /\ left # 0 => Reach(behind, 3, backed)
                      /\ left # 0 /\ tail < end => Reach(tail, 2, backed)
       IN  \/ ~touched /\ Halt("unbacked")
           \/ /\ touched
              /\ \E m \in {m3, Put(m3, block + 3, [x \in 1..request.size |-> 0])} : mem' = m
              /\ index' = IF left = 0 THEN index1 ELSE Inserted(m3, index1, behind)
              /\ live' = live \cup {[at |-> block + 3, size |-> request.size]}
              /\ request' = << >>
              /\ UNCHANGED <<end, backed, status, frees>>
-----------------------------------------------------------------------------
(* contract: what it makes of the size it is given, a single bit of which  *)
(* it looks at, and the pages whose frames it gives back.                  *)
Contracted(new_size) ==
    Max({MinSize, IF PageOf(new_size) % 2 = 1 THEN 2 * PageSize ELSE new_size})
GivenBack(new_size) ==
    {PageOf(Start + i) : i \in {j \in (new_size + 1)..(end - Start - PageSize) :
                                    (end - Start - PageSize - j) % PageSize = 0}}

(* Whether free merges a block with the chunk in front of it, whose footer *)
(* ends where the block starts, and with the chunk that follows.           *)
Joins(m, own) == At(m, own - 2) = Magic /\ At(m, At(m, own - 1) + 1) = 1
EatsHole(m, behind) == At(m, behind) = Magic /\ At(m, behind + 1) # 0

(* A merged hole behind the block leaves the index.                        *)
UnlistedNever(idx, eats, behind) ==   \* a variant: it stays
    idx
Unlisted(idx, eats, behind) == IF eats THEN RemoveFirst(idx, behind) ELSE idx

(* free: merge with a hole in front, then with a hole behind, then give    *)
(* the end of the heap back.  A merge with a hole behind does not write    *)
(* the footer of what it makes.                                            *)
Free(p) ==
    /\ status = "ok" /\ request = << >> /\ frees < MaxFrees
    /\ LET own == p - 3
           footer == own + SizeAt(mem, own) - 2
           front == At(mem, own - 1)
           m1 == Put(mem, own + 1, <<1>>)
           joins == Joins(m1, own)
           header == IF joins THEN front ELSE own
           m2 == IF joins
                 THEN Put(Put(m1, footer + 1, <<front>>), front + 2,
                          <<Add(SizeAt(m1, front), SizeAt(m1, own))>>)
                 ELSE m1
           behind == footer + 2
           eats == EatsHole(m2, behind)
           m3 == IF eats THEN Put(m2, header + 2, <<Add(SizeAt(m2, header), SizeAt(m2, behind))>>)
                 ELSE m2
           chunk_end == IF eats THEN behind + SizeAt(m3, behind) ELSE behind
           index3 == Unlisted(index, eats, behind)
           at_end == chunk_end = end
           length == IF at_end THEN Contracted(header - Start) ELSE end - Start
           size == Sub(SizeAt(m3, header), (end - Start) - length)
           m4 == IF at_end /\ size # 0
                 THEN Put(Put(m3, header + 2, <<size>>), header + size - 2, Footer(header))
                 ELSE m3
           index4 == Unlisted(index3, at_end /\ size = 0, behind)
           pages == IF at_end THEN backed \ GivenBack(length) ELSE backed
           touched == /\ Reach(own - 2, 5, backed) /\ Reach(footer, 2, backed)
                      /\ At(mem, own - 2) = Magic => Reach(front, 3, backed)
                      /\ Reach(behind, 1, backed) /\ (eats => Reach(behind, 3, backed))
                      /\ at_end /\ size # 0 => Reach(header + size - 2, 2, pages)
           asserts == /\ At(mem, own) = Magic /\ At(mem, footer) = Magic
                      /\ eats => behind \in ToSet(index)
                      /\ at_end => header \in Start..(end - 1)
       IN  \/ ~touched /\ Halt("unbacked")
           \/ touched /\ ~asserts /\ Halt("assert")
           \/ /\ touched /\ asserts
              /\ mem' = m4
              /\ end' = Start + length
              /\ backed' = pages
              /\ index' = IF joins THEN index4 ELSE Inserted(m4, index4, header)
              /\ live' = {b \in live : b.at # p}
              /\ frees' = frees + 1
              /\ UNCHANGED <<request, status>>

(* The frees after which every footer names the header of its chunk: those *)
(* of a block with no hole behind it, other than one that ends the heap.   *)
(* A contraction is harmless when it leaves room for a hole at the end.    *)
Harmless(p) ==
    LET own == p - 3
        behind == own + SizeAt(mem, own)
        header == IF Joins(mem, own) THEN At(mem, own - 1) ELSE own
        ends == IF behind \in ToSet(index) THEN behind + SizeAt(mem, behind) ELSE behind
    IN  /\ behind \in ToSet(index) => ends = end
        /\ ends = end => Contracted(header - Start) >= header - Start + Overhead

(* The growth that gives the new words to the chunk in front of them.      *)
HarmlessGrowth == index # << >> => Grown + SizeAt(mem, Grown) = end

Next ==
    \/ \E size \in Sizes, page_align \in Aligns : Alloc(size, page_align)
    \/ (AnyOrder \/ HarmlessGrowth) /\ Grow
    \/ Place
    \/ \E b \in live : (AnyOrder \/ Harmless(b.at)) /\ Free(b.at)

Spec == Init /\ [][Next]_vars
-----------------------------------------------------------------------------
TypeOK ==
    /\ mem \in [Words -> 0..(WordLimit - 1)]
    /\ index \in Seq(Words) /\ end \in Start..MaxAddress
    /\ backed \subseteq PageOf(Start)..(PageOf(MaxAddress) - 1)
    /\ request = << >> \/ request \in [size : Sizes, page_align : Aligns]
    /\ status \in {"ok", "assert", "unbacked"}
    /\ live \subseteq [at : Words, size : Sizes]
    /\ frees \in 0..MaxFrees

Payload(b) == b.at..(b.at + b.size - 1)
Chunk(h) == h..(h + SizeAt(mem, h) - 1)

(* Every block that a client holds is still framed by the header and the   *)
(* footer that free will look for, the footer naming the header, whatever  *)
(* was allocated and freed around it.                                      *)
HeadersIntact ==
    \A b \in live :
        LET h == b.at - 3
        IN  /\ At(mem, h) = Magic /\ At(mem, h + 1) = 0 /\ SizeAt(mem, h) >= b.size + 5
            /\ At(mem, h + SizeAt(mem, h) - 2) = Magic
            /\ At(mem, h + SizeAt(mem, h) - 1) = h

(* Blocks and holes divide the heap.  The chunk of a block that a client   *)
(* holds lies inside the heap, in pages with frames of their own, which    *)
(* neither a short expand nor an overeager contract takes away, and does   *)
(* not overlap another one.  What the index lists, which best fit hands    *)
(* out blindly, are holes inside the heap that overlap neither each other  *)
(* nor a chunk in use.                                                     *)
SpaceDivided ==
    /\ \A b \in live :
          LET h == b.at - 3
          IN  Payload(b) \subseteq Chunk(h) /\ Chunk(h) \subseteq Start..(end - 1)
              /\ Reach(h, SizeAt(mem, h), backed)
              /\ \A c \in live : b # c => Chunk(h) \cap Chunk(c.at - 3) = {}
    /\ \A i \in 1..Len(index) :
          /\ At(mem, index[i]) = Magic /\ At(mem, index[i] + 1) = 1
          /\ Chunk(index[i]) \subseteq Start..(end - 1)
          /\ \A b \in live : Chunk(index[i]) \cap Chunk(b.at - 3) = {}
          /\ \A j \in 1..Len(index) : i # j => Chunk(index[i]) \cap Chunk(index[j]) = {}

(* The holes of the index and the chunks in use add up to the heap: alloc, *)
(* expand and free lose no word of it.                                     *)
Conserved ==
    \A x \in Start..(end - 1) :
        (\E h \in ToSet(index) : x \in Chunk(h)) \/ (\E b \in live : x \in Chunk(b.at - 3))

(* alloc and free write no word of a block that a client holds before and  *)
(* after the call.                                                         *)
PayloadStable ==
    [][\A b \in live \cap live' : \A x \in Payload(b) : mem'[x] = mem[x]]_vars

Contents == [b \in live |-> [i \in 1..b.size |-> At(mem, b.at + i - 1)]]

Promise == INSTANCE Allocator WITH Arena <- Start..(MaxAddress - 1), data <- Contents

(* The heap keeps the promise of an allocator: blocks of the size asked    *)
(* for that never overlap, contents that stay as the client left them.     *)
ImplementsAllocator == Promise!Spec
=============================================================================
