# A TLA+ development of SleepyOS

SleepyOS (`src/`) is a small 32-bit x86 kernel: it is loaded by GRUB together
with a file system image (the initrd), sets up segments, interrupts, paging and
a heap, and then lives in two interrupt handlers, the timer's, which runs a
round-robin scheduler, and the keyboard's, which runs a shell. This directory
models the parts of it that decide whether memory, threads, interrupts, files
and what is on the screen are handled correctly, checks them with TLC on small
instances, and proves part of the results with TLAPS for all instances.

File and line references are to `src/src/` unless they say otherwise. The
repository also keeps earlier states of its sources (`Nov 15`, `Dec 3`,
`Dec 7 Broken`); they are modelled where they do something else than the current
ones, by a variable `build` that chooses the state at the start.

## 1. Inventory

| Part | State | Operations | What makes it correct | Hard about it |
|---|---|---|---|---|
| Ordered array, `ordered_array.c` | slots, `size` | place, insert, lookup, remove | sorted; a list; writes only its reservation | loops at the last slot; nobody compares with `max_size`; sizes that order it change in place |
| Kernel heap, `kmem.c` 43-270 | headers and footers in memory, index of holes, `end_address` | alloc, free, expand, contract | blocks disjoint, contents kept, no word lost | the state is read back from memory that earlier calls wrote; merging, growing, aligning |
| Placement allocator, `kmem.c` 14-32 | `mem_ptr` | kmalloc before the heap | everything it gave out ends up mapped | used by the loop that maps what it gives out |
| Frames and pages, `paging.c` 17-83 | bitmap, page entries | alloc_frame, free_frame | one frame, one page | exhaustion, frame 0, a number taken for an address |
| initialize_paging, `paging.c` 85-134 | page tables, directory | get_page, the mapping loops, create_heap | identity mapping below, backed heap above | loop bound moves, table memory not cleared |
| Scheduler, `task_scheduler.c` | linked nodes, `stack`, `now` | add_thread, schedule, delete_thread | nobody lost, nobody resurrected, every call returns | pointers that outlive nodes, null pointers that read page 0 |
| Threads, `thread.c` | `current_thread`, saved registers | create_thread, switch_thread, thread_exit | who is switched out comes back; contexts survive | switching inside an interrupt handler; structures larger than their blocks |
| Interrupts, `isr.c`, `interrupts.s`, `descriptor_tables.c` | tables, two controllers, handler table, interrupt flag | table setup, stubs, irq_handler, isr_handler, registration | every request reaches its handler and is acknowledged | numbers on the way from line to handler, spurious requests, nesting |
| Timer, `timer.c` | `tick`, the interval timer | timer_callback, init_timer, wait | ticks drive the scheduler | three writes with interrupts enabled; starts long before there is a thread |
| Shell, `main.c` 54-211 | `buf`, `internal_buf`, `input`, `char_ptr` | typing, interpret and its commands | a line is one command; files change as asked | runs inside the keyboard's handler; no bound on the line |
| Keyboard, `kb.c` | the scan code table | key_lookup | a key is read once | keys without a character |
| Screen, `monitor.c` | cursor, video memory, the controller's registers | put, scroll, clear, write, numbers | cursor and writes stay on the screen, nothing lost but the oldest row | 8-bit arithmetic at the edges |
| File system, `fs.c`, `initrd.c`, `initrd_create.c` | the image, nodes, one directory entry | make the image, mount, read, write, readdir, finddir | reads and writes stay in the file | offsets computed on the host, a write that ignores its size |
| Library, `library.c` | none | ports, memory, strings, kassert | | odd string conventions |

How they interact. `main` calls everything once, in order, with interrupts
enabled from its third statement on. `initialize_paging` uses kmalloc, which
moves `mem_ptr`, and makes the heap at the end; from then on kmalloc goes to the
heap, the heap keeps its holes in an ordered array that it places at its own
start, and asks paging for frames when it grows. Afterwards all work is done by
handlers, which interrupt gates keep apart: the keyboard's puts a character into
the line and onto the screen, or interprets a line, which may read and write
files of the ramdisk, program the timer, or create a thread and queue it; the
timer's calls `schedule`, which may switch stacks and so not return. A failed
assertion, a panic and a page fault all end in a loop that never stops.

## 2. Modules

| Module | Models | Notes |
|---|---|---|
| `SortedList` | what the index promises | abstract |
| `OrderedArray` | `ordered_array.c`, and the heap's writes to the headers it points to | implements `SortedList`; `MCOrderedArray` gives it three holes and three sizes |
| `Paging` | bitmap, alloc_frame, free_frame | extended by `Boot` |
| `Boot` | initialize_paging in three states of the sources, get_page, placement kmalloc, create_heap's allocation, clone_dir and the aligned allocation under it in Dec 7, the loops of expand and contract | its steps are steps of `Paging` plus the loops' own state; `MCBoot` |
| `BootProofs` | | theorems about `Paging` and `Boot` |
| `Allocator` | what a heap promises | abstract |
| `Heap` | alloc, free, expand, contract, find_smallest_hole | implements `Allocator` where it does |
| `HeapProofs` | | theorems about `Heap` and its index, `OrderedArray` |
| `ThreadHeap` | init_initrd's allocations, create_thread, add_thread and schedule in the words of the heap | extends `Heap` |
| `ThreadHeapProofs` | | theorem; extends `HeapProofs` |
| `RoundRobin` | what a scheduler promises | abstract |
| `Scheduler` | add_thread, schedule, delete_thread | implements `RoundRobin` until a call hangs or a deletion frees the node behind `now` |
| `SchedulerProofs` | | theorems, and lemmas about walks along the links that `KernelProofs` uses too |
| `Kernel` | boot order, tick, keyboard controller, thread demo, context switch | uses the operators of `Scheduler` through INSTANCE |
| `KernelProofs` | | theorems |
| `Numerals` | monitor_write_dec, monitor_write_hex | digits, against their value |
| `Interrupts` | segment and gate tables, the controllers' programming, stubs, dispatchers, return path, page_fault, kassert, init_timer | extends `Numerals` |
| `InterruptsProofs` | | theorems |
| `Paper` | what a screen promises | abstract |
| `Monitor` | monitor_put, scroll, monitor_clear | implements `Paper` |
| `MonitorProofs` | | theorems about `Monitor` and `Terminal` |
| `Terminal` | scan codes, typing, prompts, move_cursor, the Dec 3 timer that prints | extends `Monitor`; `MCTerminal` |
| `FileStore` | what the shell promises about files | abstract |
| `Initrd` | initrd_create, init_initrd, read, write, readdir, finddir and fs.c's switch, as operators on bytes | |
| `Shell` | interpret, cat, write, ls, strtail, lines of any length | extends `Initrd`, implements `FileStore`; `MCShell` |
| `ShellProofs` | | theorems about `Shell` and `Initrd` |

Operators named "a variant" in a comment are plausible mistakes in the code;
they are used nowhere and exist so that each property can be shown to notice
one.

### How state and actions correspond to the code

*OrderedArray.* `array` goes on behind the slots that are reserved: the words
there belong to the heap's first header (`WriteHeader` is what the heap does to
them), and how many of them the model follows is the bound `Behind`.
`Insert` and `RemoveSlot` are the two functions; `StopsAt` is the scan,
`ShiftedUp` and `ShiftedDown` are the results of the shifting loops. `Insert`
compares `size` with nothing, as in the code, so it may write behind the slots.
Removal copies `array[size]` down, so slots behind the used ones hold stale items;
the type invariant says that used slots never do while the slots suffice. `key` is
`header->size` as less_than reads it; `Resize` is an assignment to it in alloc or
free, whether the header is indexed or not. Two ghost variables say when the order
may be lost: `resized`, an indexed header was resized since the index was last
empty, and `overrun`, an insertion has found no slot free.

*Paging.* `used` is the set of bits set in the bitmap, `entry` a page's present
bit and frame number. `FirstFrame` includes what the compiled kernel finds in
the result register when first_frame runs off its end without a return: the
bound of the outer loop. `exhausted` is a history variable.

*Boot.* One action per statement of initialize_paging, one step per round of a
loop; `Steps` is the order of the statements in the state of the sources that
runs. The bits of the bitmap behind the part that memset clears are arbitrary
(`StaleFrames`): initialize_paging takes and clears a quarter of the bytes that
the bitmap needs. Memory for page tables is taken to be zero, as it is
after a reset: get_page does not clear it. `Expand` is the body of the loop in
kmem.c:52-56, up to the heap's maximum (`MaxHeapPages`) and past the frames that the
reserved bits describe, for pages whose table exists; `Contract` and `GiveBack` are
kmem.c:62-78 with the test of one bit where a rounding is meant. In Dec 7 the
directory is cloned at the end, which asks the new heap for an aligned block.
kmalloc has no return on that path: the caller finds in the result register
what the compiler left there, the block's address or that of a local variable
(`CloneReturns`).

*Heap.* Memory is modelled word by word, because free finds its way by reading
headers and footers back and the interesting failures are stale or overwritten
ones. alloc is three actions: the call (`Alloc`), a failed search (`Grow`, after
which alloc calls itself), and a successful one (`Place`). `Free` is free with
contract. The operator precedence of `a & m != 0` is in the model as what it
does: a test of one bit. A failed assertion or a page fault ends the run with a
`status`.

*ThreadHeap.* create_thread and add_thread ask kmalloc for the size of a pointer
and write a whole structure. The six words that memset clears lie on the footer
of the thread's own chunk and on the header of the hole behind it; a node's link
lies where its footer has its magic number; the first stack is built below the
block it was given. Whether something stored there is later overwritten depends
on the order in which alloc writes headers and footers, so everything happens in
the words of `Heap`. `word0` is the word at address 0, which add_thread reads
while `now` is null.

*Scheduler.* A node is a pair; `used` says which nodes kmalloc has given out. A
freed node keeps its contents until it is given out again, which abstracts from
other callers of kmalloc that may get its words. No function of the sources calls
delete_thread; the model calls it at any time. `stranded` is a history variable: a
deletion has freed the node that `now->next` points to. While `now` is null, `now->thread` is the word at
address 0, which the identity mapping makes readable: both values are possible
(`vectors`). kfree of a node fails the heap's assertion, because a node's second
word lies on the footer of its own four-byte chunk, unless slack moved the
footer; `Roomy` are the nodes for which it did. `Waiting` and `Turn` read the
abstract queue off the links: the nodes from `stack` on, up to the end of the list
or to the node that has the turn already.

*Kernel.* `Main` is one step per statement of `main` that matters for
interrupts. `Timer` is irq_handler with timer_callback, `Typing` is irq_handler
with typing and interpret, `Ignore` is irq_handler without a handler. Lines are
reduced to whether they are `threadingdemo`. The keyboard controller and the
requests are external: a request stays raised until it is taken, the timer's
has priority, and the keyboard controller raises a request when a byte enters
its empty buffer, which only a read empties.

*Interrupts.* `frames` is the stack of interrupted contexts, innermost last: what
happened (`cause`), what the stub has pushed, how far the handler is (`phase`).
The steps of one are its gate (`Interrupt`, `Spurious`, `Exception`), cli and
acknowledgement (`Call`), the handler (`Handle`) and the way back (`Return`).
`Main` sends the bytes to the interrupt controllers and to the timer one at a
time, because the timer's come with interrupts enabled; `asked` is a history
variable, the frequency that the last call of init_timer was given. The 8259 controllers,
the interval timer and the processor are external and behave as the code
programs them: which vector a line gets, what a stub finds on the stack, which
request wins, all come out of the bytes that the code writes. A spurious request
is answered with line 7 of a controller, which is then not in service.

*Terminal.* `kbarray` is the scan code table reduced to classes of keys. A
handler that prints leaves what it has still to print in `out`, and each
character is a step; handlers exclude each other (`HandlersAtomic` of
`Interrupts`). `crtc` are the registers that move_cursor writes. `base` and
`from` are history variables: where in the buffer and on the paper the text
begins that was typed since something was printed.

*Monitor.* `Put` is monitor_put with scroll; arithmetic on the cursor is that of
bytes. `above` is a history variable: rows that have scrolled away, which the
kernel forgets and the abstract paper keeps.

*Initrd and Shell.* `Image` is what the host writes: headers with offsets from
the start of the image, files one behind the other. `Nodes` are what init_initrd
makes of them in memory at `Location`. `Interpret` is what the Enter key does
with a line: interpret and every function below it, in one handler. Command
words count as one character, so that buffers are a few cells long; the
conversions are what the code does to the cells: the filler digit, the 0 that
ends the line, strtail's stop at the digit. A line longer than the buffer goes
on into `behind`, the bytes that the linker has put between `buf` and the code
segment's descriptor (`Spare`), and later lines find it there; one that is
longer still ends in the status `"wild"`. strtail looks for the space and for the
digit behind it in both (`Ends`): a line of up to 98 characters leaves a filler
digit behind itself, one of 99 leaves none, and where it stops depends on what
earlier lines have put into `behind`. If there is no space, or no digit, it walks
into memory of others and the status is `"wild"` too; the model does not go on
from there. `shown`, `listing`, `query` and
`asked` are history variables.

## 3. Runs

Passing runs (TLC finds no error):

| Run | Shows | Bounds, and why they are enough |
|---|---|---|
| `ordered_array` | in order unless an indexed item was resized or an item was too many, writes behind the slots only for an item too many, implements the list | 3 slots and 2 words behind them, 3 items, 3 sizes that change at any time: every position of insertion and removal, full, one too many and empty again |
| `boot` | identity mapping, heap backing, bitmap bounds, no frame shared, termination | three states of the sources; 5 image ends around page boundaries; with and without stale bits; tables of 12 pages, so that several are made in the loop; 32 frames described by the reserved part of the bitmap, of 128, and a heap that grows from 13 to 24 pages, past those 32 and, with stale bits, until frames run out; two contractions |
| `heap` | the allocator's promise, headers intact, every word owned once, none lost | sizes that split, fill and exceed holes, growth through several pages to the maximum, 5 blocks, 2 frees; frees and growth restricted to those that harm nothing (`AnyOrder`), see `heap_stale` and the table below |
| `scheduler` | implements the round-robin queue, shape of the list, no freed node in use | 4 nodes, 2 threads: loops of up to 4 nodes, the same thread queued twice, deletion at head, middle and end and at any time; two of the nodes can be freed at all (`Roomy`) |
| `terminal` | cursor on the screen and where the controller blinks it; the line that is interpreted is the one that is seen; scrolling keeps an endless paper | 8 columns, so that a tab ends a row, 2 rows, lines of 4 characters; keys of every class; what commands print ends in the middle, at the end and behind a row, or clears; one scrolled row and one printing tick between any two keys |
| `shell` | files change only as the write command says, cat shows what is there, ls lists every name, lines too long for the buffer included | a file shorter than a line, one longer than the line buffer, one longer than cat's; a name that begins with another, one with a 0, one called like the directory; `cat` and `write` lines that just fit, that fill the buffer to its last cell and that go on behind it, with and without a digit there from an earlier line; all sequences of the lines in `MCShell` |
| `kernel` | boot ends, demo's first thread runs, the scheduler never hangs, keys are read | two demos, so up to four queue entries; keys pressed at any time |
| `interrupts` | right number and error code, handlers exclude each other, nothing left in service, gates in the kernel, numbers reported, timer programmed, requests taken | three states of the sources; timer, keyboard and a line of the second controller; exceptions without and with an error code; spurious requests of both controllers; two contexts nested; 12-bit numbers with zeros in the middle |
| `thread_heap` | contexts, nodes and ramdisk records keep what was stored in them | 0 to 18 files, so that the heap meets the demo at every distance from a page's end; the demo three times, a tick after any of them; growth from 1 to 3 pages |

Runs that find a violation of what the code or its documentation says
(`PROJECT.json` "findings" has the quotations):

| Run | What happens |
|---|---|
| `heap_stale` | a stale footer leads a free into a live block |
| `demo_threads` | the demo announces two threads that print a newline each; one is printed |
| `shell_target` | a text that begins with `cat` sends itself to another file |

Some of the passing runs stay inside a regime that a constant of the module
chooses. What lies outside, and how to see it:

| Change | What then fails, and why |
|---|---|
| `Aligns = {TRUE}` in `Heap.cfg` | `SpaceDivided`, `ImplementsAllocator`: the mask in find_smallest_hole is `location & (0xFFFFF000 != 0)`, so no room is left for the alignment, and alloc splits the hole by a size that is a header too small. The kernel asks for an aligned block after boot only when a page table is missing. |
| `AnyOrder = TRUE` in `Heap.cfg` | `SpaceDivided`, `ImplementsAllocator`: when no hole fits, the hole at the highest address is grown over the blocks behind it; contract tests one bit of the new size and may cut off memory in use; and see `heap_stale`. |

What the properties leave out, and what the models show beside them:

* Insertions and removals keep the heap's index in order, but the heap writes the
  sizes of headers while they are indexed, so the index of a running kernel is in
  general not in order, and find_smallest_hole takes the first hole that fits, not
  the best. Nothing of what `heap` checks needs the order. With all slots in use the
  next hole goes over the first header of the heap; the kernel reserves 131072 slots.
* `NoSharedFrame` and `HeapBacked` hold until the bitmap runs full (`exhausted`).
  The panic that the code announces for that is not reached: first_frame ends
  without a return, the test for -1 fails, and a taken frame is mapped again.
* initialize_paging reserves a quarter of the bitmap. expand is bounded by the
  heap's maximum alone, so a heap that grows far enough sets bits in memory behind
  the reservation. `BitmapInBounds` says when: not in boot, and, as long as nothing
  has been contracted, not before every frame that the reserved part describes is
  in use. That is why 4 MB suffice for the kernel as it is.
* free_frame hands a frame's number to clear_frame, which divides it, so the bit
  that is cleared is that of frame 0 and the frame itself is lost. After a
  contraction the next page of the heap is mapped onto frame 0, the firmware's
  vectors; and since the frames that were given back stay lost, a heap that grows
  afterwards gets behind the reserved bits sooner. `HeapBacked` names the first as
  its exception, `BitmapInBounds` claims nothing after a contraction.
* The cloned directory of Dec 7 never works: either the result register has an
  address on the stack, which clearing the directory destroys, or it has that of
  the heap's block, which is not mapped where the processor looks for it
  (`pc = "lost"`). The documentation's entry of that day, `documentation/Timeline`,
  says as much; the current sources do not clone.
* In `heap` an allocation may end in the status `"unbacked"`: expand rounds only
  odd sizes and steps a page at a time from the old end, so two small expansions
  cross into a page without a frame and the next header faults. No block that was
  handed out ever lies in such a page.
* In `scheduler` a deletion may free the node behind the one that has the turn:
  after a switch `now->next` still leads to the new head, delete_thread follows only
  the links from `stack`, and the next `schedule` links the freed node, and the
  thread that was deleted, in again. `stranded` records it. `LoopThroughNow`,
  `QueueAllocated` and `ImplementsQueue` say that this is the only deletion that
  does harm, and claim nothing after it. Nothing in the sources calls delete_thread.
* In `scheduler` the third `schedule` of a demo's queue never returns (status
  `"hung"`): the node that gets the turn keeps its `next`, and the list becomes a
  loop. `LoopThroughNow` says which loop, `ImplementsQueue` that the calls before
  it keep their promise.
* In `scheduler` delete_thread ends in the status `"assert"` for every node
  outside `Roomy`: a node is eight bytes in a chunk of four, and its link
  replaces the magic number that free looks for.
* In `kernel` the hang is not met: the first switch leaves interrupts disabled for
  good, so nobody calls the scheduler again (theorem `SpecOneSwitch`, and
  `SchedulerNeverHangs`). That is also why the demo's second entry never runs, which
  `demo_threads` shows.
* A key pressed before init_typing is acknowledged by irq_handler and not read, so
  its byte stays in the controller and silences the keyboard. `KeysRead` is about
  keys whose request is still raised when main has ended.
* page_fault prints "present" for a page that is not present and nothing for one
  that is (`paging.c` 140 negates the bit, 147 prints the word for it).
  `ReportsName` says nothing of that word.
* The timer command announces "Initializing 1 second timer..." (`main.c` 156) and
  asks for 1193180 ticks a second, which is a divisor of 1. `TimerProgrammed` says
  that the timer runs at the rate init_timer was asked for, not that this is what
  the shell says of it.
* `LineAsShown` excludes lines with backspaces, tabs and escapes: the screen
  moves its cursor over them, the buffer keeps them as characters. A key without
  a character shows nothing and ends the string that interpret finds.
* In `shell`, a file whose name has the digit 0 behind its first character and a
  file called `dev` cannot be named (`Reachable`); a `cat` or `write` for
  which strtail finds no space, or no digit 0 behind it, and a line that is longer
  than what lies behind the buffer, end in the status `"wild"`.

Deadlock is not checked where the system stops by itself: after a halt, at the
end of boot, when everything is allocated within the bounds, when a thread
spins with interrupts disabled, and when the terminal has scrolled as far as its
bound. `ordered_array` checks it.

### Fairness

`Boot`: weak fairness of the next step. Interrupts aside, which `Kernel` covers,
nothing keeps the processor from running the next statement. `Kernel`: weak
fairness of main, of a running thread and of the timer chip and its handler;
strong fairness of the keyboard's handler and of requests without a handler,
because the timer's requests have priority and keep disabling them for a moment,
but at 50 Hz its handler is done long before the next one. Nothing is assumed
about anyone pressing a key. `Interrupts`: weak fairness of the processor's own
steps, main, and call, handler and return of the innermost context; strong
fairness of taking a request, which other interrupts disable again and again.
`RequestsTaken` therefore asks that main is in its last loop and no line of
higher priority requests, again and again. The other modules state safety only.

## 4. Proofs

Checked by TLAPS; all constants are arbitrary within the named assumptions.

* `BootProofs`. From `BootAssumption`, `FrameAssumption` and `MemoryAssumption`:
  image, page tables and initial heap fit into the frames that the reserved part
  of the bitmap describes, which a kernel loaded from a floppy at 1 MB does by far.
  How far the heap grows afterwards is not assumed.
  `BootSafe`: `TypeOK`, `IdentityMapped`, `HeapBacked`, `BitmapInBounds` and
  `NoSharedFrame`, for every image end, table size and heap size, in the three
  states of the sources. None is inductive: that a page is mapped to its own
  number follows only from the order in which frames are handed out, and that
  order from what is set in the bitmap. The invariant `BootInv` has a part per
  statement. In the identity loop page n gets frame n and exactly the frames below
  n are taken (`AtIdentity`); the heap's page n then gets the n-th frame behind
  them (`AtHeapMap`), although the loop ends where it does because the allocations
  in its own body have moved `mem_ptr` (`GivenOut` bounds by how much, a table
  costing at most two pages); after a contraction the heap's frames may be anywhere,
  and what keeps them apart from the kernel's is `NoSharedFrame`, with frame 0, which
  free_frame gives back, as the exception (`Afterwards`).
  `PagingSafe`, from `FrameAssumption` alone, is about `Paging` with calls on any
  pages in any order, of which `Boot` makes some: types, mapped frames are
  marked, and no frame is shared while `exhausted` is false. The last is not
  inductive by itself: a new frame differs from every mapped one only because
  mapped frames are marked, and free_frame keeps that true only because the
  number it divides is smaller than the size of a page, so that the bit it
  clears is that of frame 0 (lemma `ClearsFrameZero`).
* `HeapProofs`. From `HeapAssumption` (boundaries of pages, and a magic number that
  is no address or size) and `LeastSizeAssumption` (what contract leaves is not
  more than the heap begins with), under `InOrder`: requests without alignment, and
  growth and frees in the orders that `Harmless` and `HarmlessGrowth` of `Heap`
  describe. This is the regime of run `heap`, and `HeapStale.cfg`, which leaves it,
  satisfies both assumptions and violates `PayloadStable`. `HeapSafe`:
  `HeadersIntact`, `SpaceDivided`, `Conserved`. `SpecImplementsAllocator`: every
  step maps to a step of `Allocator` or a stutter. `SpecPayloadStable`: alloc and
  free write no word of a block that stays. `SpecTypeOK`: addresses stay in the
  heap and sizes fit a word. The three safety properties do not suffice for an
  induction, since free believes whatever precedes a header. The invariant `IInv`
  says that holes and blocks are laid out without gaps from `Start` to `end`, that
  each has a header and a footer that names it, and that the word before the heap
  is no footer (`Laid`); only a hole that ends the heap may lack its footer, because
  create_heap writes none for the first hole. It also says that a chunk is big enough for its block, that no hole
  is listed twice, that every page below `end` has a frame, and how small the heap
  may become. The central lemma is `Rebuilt`: whatever alloc or free does between
  two addresses, if the chunks there fill the space again and no word outside was
  written, the layout holds again. Splitting (`PlacedFront`), filling a hole
  (`PlacedWhole`), growing the last hole or adding one (`GrownLast`, `GrownNew`),
  merging to the left and to the right (`Merged`) and contracting (`Shrunk`) are
  each a case of it.
  The heap's index has theorems of its own, from `MaxSizeAssumption`,
  `KeyAssumption` and `NilAssumption`; keys may change at any time, and insert has
  no guard. The inductive invariant is `ArrayInv`, that is `TypeOKArray` with
  `SortedUnlessResized`: the order alone is not inductive, because what an
  insertion or removal does to it depends on the used slots holding items
  with keys. `ArrayTyped`, `ArraySorted`: the same two as theorems. `ArrayPastEnd`: a
  word behind the slots is written only once an insertion has found none free
  (`SlotFound`). `ArrayImplements`: every step maps to a step of `SortedList` under
  the mapping `Listed`; lemmas `InsertArrayRefines` and `RemoveArrayRefines`.
* `ThreadHeapProofs`. From the heap's assumptions and `ThreadHeapAssumption` (sizes
  are positive, and what threads are started from is neither 0 nor the heap's magic
  number). `ThreadsSafe`: `ContextsKept`, `FilesKept` and `QueueKept`, for any sizes,
  any image and any number of demos. None of it follows from the layout of the heap,
  since the words in question lie outside the blocks they belong to and destroy
  footers. The argument is that nothing is freed: there is at most one hole, at the
  end of the heap, and it begins at `Frontier`. All that somebody relies on lies
  below `Edge`, and every write of alloc lies behind it, except for one word: what
  create_thread pushes reaches one word below the stack's chunk. As long as the next
  chunk may be a stack's, the last word below the frontier is therefore nobody's; once
  the thread is made, that word is part of its context. memset clears the header of the
  hole behind a thread, so `HoleInv` says of that header only that its size does not
  lead out of the heap. The invariant `ThreadInv` carries the queue
  as a sequence of nodes that the links in memory lead through (`NodesIn`), whose
  links lie apart from files and contexts (`LinksApart`): what add_thread finds by
  walking is its last node (`LastNodeIs`), and what `QueueKept` reads off the memory
  is the sequence (`FollowedIs`).
* `SchedulerProofs`. From `SchedulerAssumption`. `SpecTypeOK`, `QueueSafe`
  (`LoopThroughNow`, `QueueAllocated`) and `SpecImplementsQueue`, with add_thread,
  schedule and delete_thread called in any order. The latter two say nothing once
  `stranded`; that every other deletion keeps the queue whole is the work
  (`DeletedShape`, and `HeadDeleted` for the case in which the head is deleted). The
  invariant describes the shapes the links can have (`Shape`): an empty list
  (`Empty`), one that ends (`Open`), or one whose last node leads to the node that
  has the turn and from there to the head (`Closed`). A
  thread may be queued twice, a node occurs once, and from this follows where each
  walk ends (`LineWalk`, `ClosedWalk`).
* `MonitorProofs`. From `MonitorAssumption`: the width is a multiple of 8 below
  256 and the height fits a byte. `SpecOnScreen`: the cursor stays on the screen
  and the video memory keeps its extent. The invariant is inductive as it stands;
  it rests on `TabStaysInRow` (a tab cannot jump over the end of a row whose width
  is a multiple of 8), `MovedNearby` and `CellOfRow`. `SpecImplementsPaper`: every
  step of the screen maps to a step of `Paper`; what a scroll does to the words of
  the screen is what Append does to the rows of the paper (`ScrolledSheet`).
  For `Terminal`, from `TerminalAssumption` (codes are bytes, texts are of known
  characters, two bytes hold the place of the cursor): `TerminalOnScreen` carries
  both over to a screen that is written by typing, commands and the timer of Dec 3,
  and `SpecLineAsShown` says that the line which is interpreted is the line that is
  seen. Its invariant `TerminalInv` follows the text that was typed since something
  was printed cell by cell over the endless paper (`Reads`): of the line in the
  buffer, the paper shows what is no 0, in order, and the string that interpret
  finds is a beginning of what is shown. On the paper, cells are numbered through
  all rows, those that have scrolled away included, so that a glyph is always one
  more cell (`GlyphOnPaper`), and a line that wraps or scrolls needs no case. The
  assumption that no letter is the 0 that ends strings is what makes the typed
  glyphs part of the string (`GlyphRead`); a key without a character adds to the
  buffer and not to the paper (`NulRead`).
* `KernelProofs`. From `KernelAssumption`: the null pointer is no node and
  `NoThread` no thread. `SpecOneSwitch`: no context switch follows the first,
  for any number of threads, demos and nodes. What makes it inductive: the queue
  is linked through nodes in use that hold threads that were made (`Linked`), so
  the timer always switches to one of them; until the first switch no context
  has been saved inside a handler (`FreshContexts`), so the one that comes in
  does not go through sti; and after it nothing enables interrupts (`Disabled`).
  `Linked` needs nothing about the length of the queue or whether it is a loop:
  whatever node schedule takes for the last, relinking it to a node in use keeps
  the queue linked (`Relinked`). `SpecTypeOK`: types, with the contexts.
  `SpecNeverHangs`: the scheduler's loops return whenever the kernel calls it. Until
  the first switch the links end (`Returns`), and schedule turns them into a loop
  only in the call that switches, after which nobody calls it again. This needs
  that nodes are finite in number and that threads are none of the names the
  processor's other occupants have (`KernelAssumption`), and the lemmas about walks
  of `SchedulerProofs`, through INSTANCE.
* `InterruptsProofs`. From `InterruptsAssumption`, for each of the three states
  of the sources, any devices and exceptions and any depth of nesting.
  `SpecEntersAsRaised` needs what each controller expects after each of the ten
  bytes that program it (`Controllers`), that the gates are complete before
  anything can interrupt (`Progress`), and a case for each stub (`GateOf`,
  `PushedBy`). `SpecHandlersAtomic` follows from `Nesting`: interrupts are enabled
  in main only, and only main's own context comes back with them enabled.
  `SpecNothingLeft` adds `Phases` and `InService`: a context whose stub has not
  run is the innermost, and the line it is for is all that can be in service, so
  the acknowledgements meet that line and no other, and a spurious one meets
  nothing. `SpecGatesInKernel` adds `Tables`: the segment table that is loaded, and the gates'
  flags, from which it follows that each of them disables interrupts.
  `SpecTimerProgrammed` has its own invariant `Timer`, which relates the count to the
  frequency last asked for: while the three bytes are on
  their way nobody else sends any, because the shell, whose command sends them too,
  gets its first key only after main has come to its last loop. `SpecReportsName`,
  from `NibblesAssumption` (an unsigned number has two nibbles or more), says that
  digits denote the number they were made from and begin with no zero, and which of the
  words for a page fault stand for its error code. The number
  formats are recursive functions, the powers of 16 too, because the provers know
  nothing of the operator ^. That they are defined where they are used is a lemma
  (`Recursion`, `Solution`), what they compute an induction over the rounds of the
  loop (`SetInduction`); the words for a page fault need `Phases`, because the
  report stays on the screen while other contexts come and go (`Reported`).
* `ShellProofs`. From `InitrdAssumption` (at most as many files as the image has
  headers, names that differ and fit) and `ShellAssumption`. `SpecImplementsFileStore`: every line is
  a step of `FileStore` or a stutter, in any order of lines of any length. Its
  invariant `StoreInv` is about lengths: the image keeps its own, and what lies behind
  the line buffer its own. That a write ends before the next file is a fact about the
  offsets that the host has computed: the sizes of the first files grow, and two files
  share no byte (`SizesGrow`, `FilesApart`); that the image holds each file at its
  offset is `ImageIs`. `SpecCatFinds` and `SpecListsAll` have the hypothesis
  `Fresh = "nul"`: the memory that kmalloc gave out for the nodes was zero. init_initrd copies names
  with a strcpy that does not copy the 0 at their end, so with anything else
  there a name has no end. Under it, the name in a node ends where the host's does
  (`NodeNames`), the directory entry holds the name that was asked for whatever was
  there before (`CopiedIs`, `EntriesAre`), internal_buf begins with what followed
  the space (`StrTailIs`, `NameInLine`), exactly one file has that name (`OnlyNamed`),
  and the loop of ls adds one name in each round (`ListedIs`). The invariant is
  `ShellInv`: both buffers are strings, with anything in them.

Where an argument about a walk along links or about the first hole that fits needs
induction, the proofs take a least counterexample (lemma `LeastNumber`, from the
well-foundedness of the numbers): a walk that leaves the list does so at a first
step.

Recursive functions (the image, the sizes of files, the loop of ls, digits, walks
along links) are unfolded the same way: a function that satisfies the equations
exists, by induction on the number of rounds, and so CHOOSE yields one.

Only model-checked: the liveness properties (`BootEnds`, `DemoRuns`, `KeysRead`,
`RequestsTaken`), which need fairness and with it ENABLED, which the provers do not
handle. The properties that the violation runs refute are not theorems. No module
uses RECURSIVE operators.

## 5. Not modelled

* Functions that nothing calls: create_ordered_array (its kmalloc lacks two
  arguments), destroy_ordered_array and the standard predicate; init_threading;
  wait, whose loop ends only when a 32-bit sum wraps; test_frame;
  keyboard_handler and init_keyboard; open_fs and close_fs; strcat; inw.
  `process.s` is left over from an abandoned design.
* The wording and colours of what is printed, the read/write and user bits of
  pages, which nothing reads back, and the flags of file nodes beyond what the
  shell looks at.
* How often a divisor of 1, which the timer command programs, interrupts:
  whether it leaves time for the keyboard is a matter of the processor's speed.
* Memory for page tables that is not zero: get_page does not clear what it takes.
* Page tables that expand would have to make after boot, and frames that run out
  while `Heap` grows: `Boot` grows the heap within existing tables, until frames run
  out, `Heap` does not run out of them.
* The shell of `Dec 7 Broken`: its boot never gets there (`BootEnds`). Files of
  the backups that equal the current ones are not mapped a second time.
* Failing file operations of `initrd_create.c` on the host.

## 6. Plan

Done: the modules above. Memory came first, because everything depends on it,
then the scheduler, then the kernel that composes boot, ticks, keys and
scheduler, then the screen and the files; after that threads over the heap,
interrupts from line to handler, the terminal as a whole, the ramdisk from host
to kernel, and the earlier states of the sources.

Left, modules: `Boot` with `Heap`, that is expand through get_page when page
tables or frames run out; `Shell` on top of `Terminal`, so that a line is typed
key by key and what cat prints is what the screen shows.

Every safety property that a passing run checks, and every refinement, is the
subject of a theorem. Left, theorems: `CatFinds` and `ListsAll` for nodes in memory that is not zero,
with the names that have an end there; the heap with aligned requests, once its
first fit is repaired.
