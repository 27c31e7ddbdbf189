------------------------------ MODULE ThreadHeap ------------------------------
(***************************************************************************)
(* Who uses the kernel heap once it is there: init_initrd with its three   *)
(* allocations, and then the thread demo of the shell as often as it is    *)
(* typed.  create_thread and add_thread ask for the size of a pointer and  *)
(* write a whole structure, so a thread_table of six words lies on the     *)
(* footer of its own chunk and on the header of whatever follows, and a    *)
(* node of two words has its link where the footer's magic number was.     *)
(* create_thread builds the first stack below the block it is given.       *)
(* Everything happens in the words of module Heap.                         *)
(***************************************************************************)
EXTENDS Heap

CONSTANTS
    NodeWords,    \* sizeof(fs_node)
    MaxFiles,     \* bound: the files of the image
    StackWords,   \* what the demo asks for as a stack, 0x200 bytes
    MaxDemos,     \* bound: how often the demo is typed
    FilesMark, Fn, ThreadExit, Arg   \* numbers that stand for contents

ASSUME ThreadHeapAssumption ==
    /\ NodeWords \in Nat \ {0} /\ MaxFiles \in Nat /\ StackWords \in Nat \ {0}
    /\ MaxDemos \in Nat
    /\ {FilesMark, Fn, ThreadExit, Arg} \subseteq (1..(WordLimit - 1)) \ {Magic}

VARIABLES
    pc,       \* what is allocated next, or "idle", or "switched"
    files,    \* header->nfiles
    got,      \* what kmalloc has just returned, or 0
    base,     \* the demo's stack
    first,    \* whether add_thread found now->thread empty
    word0,    \* whether the word at address 0 is not zero
    now, stack,        \* task_scheduler.c's pointers, 0 when null
    loaded,   \* the registers that switch_thread has loaded
    nodes, made, added, demos   \* ghosts: initrd blocks, threads, queue, demos

tvars == <<pc, files, got, base, first, word0, now, stack, loaded, nodes, made, added, demos>>

InitDirectories == <<"root", "dev", "nodes">>
DemoAllocations == <<"stack", "thread", "add", "add again">>
After(p) ==
    CASE p = "root" -> "dev" [] p = "dev" -> "nodes" [] p = "stack" -> "thread"
      [] p = "thread" -> "add" [] p = "add" -> "add again" [] OTHER -> "idle"

InitThreads ==
    /\ Init
    /\ pc = "root" /\ files \in 0..MaxFiles /\ got = 0 /\ base = 0
    /\ first = FALSE /\ word0 \in BOOLEAN /\ now = 0 /\ stack = 0
    /\ loaded = << >> /\ nodes = {} /\ made = << >> /\ added = << >> /\ demos = 0
-----------------------------------------------------------------------------
(* The calls of kmalloc.                                                   *)
Asked ==
    CASE pc \in {"root", "dev"} -> NodeWords
      [] pc = "nodes" -> NodeWords * files
      [] pc = "stack" -> StackWords
      [] OTHER -> 1

(* add_thread's test; address 0 is read while now is null.                 *)
NowEmpty == IF now = 0 THEN ~word0 ELSE At(mem, now) = 0

Call ==
    /\ pc \notin {"idle", "switched"} /\ got = 0
    /\ Alloc(Asked, FALSE)
    /\ first' = NowEmpty
    /\ UNCHANGED <<pc, files, got, base, word0, now, stack, loaded, nodes, made, added, demos>>

Expand == Grow /\ UNCHANGED tvars

Return ==
    /\ Place
    /\ got' = IF status' = "ok" THEN (CHOOSE b \in live' \ live : TRUE).at ELSE 0
    /\ UNCHANGED <<pc, files, base, first, word0, now, stack, loaded, nodes, made, added, demos>>

(* The caller goes on with what it got: it writes the words of m, which    *)
(* differ from the memory in the n words at a.                             *)
Goes(m, a, n) ==
    /\ status = "ok" /\ request = << >> /\ got # 0
    /\ got' = 0 /\ pc' = After(pc)
    /\ \/ ~Reach(a, n, backed) /\ status' = "unbacked" /\ UNCHANGED mem
       \/ Reach(a, n, backed) /\ status' = status /\ mem' = m
    /\ UNCHANGED <<index, end, backed, request, live, frees, files, first, word0, loaded>>

(* init_initrd fills its directories and nodes.                            *)
Directories ==
    /\ pc \in ToSet(InitDirectories)
    /\ Goes(Put(mem, got, [i \in 1..Asked |-> FilesMark]), got, Asked)
    /\ nodes' = IF status' = "ok" THEN nodes \cup {[at |-> got, size |-> Asked]} ELSE nodes
    /\ UNCHANGED <<base, now, stack, made, added, demos>>

(* interpret, for a line threadingdemo.                                    *)
Demo ==
    /\ pc = "idle" /\ status = "ok" /\ demos < MaxDemos
    /\ pc' = "stack" /\ demos' = demos + 1
    /\ UNCHANGED <<vars, files, got, base, first, word0, now, stack, loaded, nodes, made, added>>

Stack ==
    /\ pc = "stack" /\ Goes(mem, got, 0)
    /\ base' = got
    /\ UNCHANGED <<now, stack, nodes, made, added, demos>>

(* create_thread: id, esp, ebp, ebx, esi, edi; and the first stack.        *)
Memset(memory, dest, len) == Put(memory, dest, [i \in 1..len |-> 0])
Pushed == <<0, Fn, ThreadExit, Arg>>
CreatedFramed(thread, sp) ==   \* a variant: two registers are pushed too
    Put(Put(Memset(mem, thread, 6), sp - 2, <<0, 0>> \o Pushed), thread, <<demos - 1, sp, sp>>)
CreatedCleared(thread, sp) ==   \* a variant: memset comes last
    Memset(Put(Put(mem, sp, Pushed), thread, <<demos - 1, sp, sp>>), thread, 6)
Created(thread, sp) ==
    Put(Put(Memset(mem, thread, 6), sp, Pushed), thread, <<demos - 1, sp, sp>>)

Thread ==
    /\ pc = "thread" /\ Goes(Created(got, base - 4), got, 6)
    /\ made' = IF status' = "ok" THEN Append(made, [at |-> got, sp |-> base - 4]) ELSE made
    /\ UNCHANGED <<base, now, stack, nodes, added, demos>>

(* add_thread: the thread that was made last.  next is one word behind.    *)
NextOf(m, node) == At(m, node + 1)
LastNode(m, queue) ==
    LET w[k \in 0..(2 * MaxDemos)] ==
            IF k = 0 THEN queue
            ELSE IF NextOf(m, w[k - 1]) = 0 THEN w[k - 1] ELSE NextOf(m, w[k - 1])
    IN  w[2 * MaxDemos]

Newest == Last(made)
FilledSwapped(node) ==   \* a variant: the link comes first
    Put(mem, node, <<0, Newest.at>>)
Filled(node) == Put(mem, node, <<Newest.at, 0>>)
Linked(node) ==
    IF first \/ stack = 0 THEN Filled(node)
    ELSE Put(Filled(node), LastNode(Filled(node), stack) + 1, <<node>>)

AddThread ==
    /\ pc \in {"add", "add again"} /\ Goes(Linked(got), got, 2)
    /\ now' = IF first THEN got ELSE now
    /\ stack' = IF ~first /\ stack = 0 THEN got ELSE stack
    /\ added' = IF status' = "ok" THEN Append(added, Newest.at) ELSE added
    /\ UNCHANGED <<base, nodes, made, demos>>

(* The tick, between two keys: schedule and switch_thread.                 *)
Tick ==
    /\ pc = "idle" /\ status = "ok" /\ stack # 0
    /\ LET m == Put(mem, LastNode(mem, stack) + 1, <<now>>)
           thread == At(m, stack)
       IN  /\ mem' = m
           /\ now' = stack /\ stack' = NextOf(m, stack)
           /\ loaded' = [edi |-> At(m, thread + 5), esi |-> At(m, thread + 4),
                         ebx |-> At(m, thread + 3), esp |-> At(m, thread + 1),
                         ebp |-> At(m, thread + 2)]
    /\ pc' = "switched"
    /\ UNCHANGED <<index, end, backed, request, status, live, frees, files, got, base, first,
                   word0, nodes, made, added, demos>>

NextThreads ==
    \/ Call \/ Expand \/ Return
    \/ Directories \/ Demo \/ Stack \/ Thread \/ AddThread
    \/ Tick

SpecThreads == InitThreads /\ [][NextThreads]_<<vars, tvars>>
-----------------------------------------------------------------------------
(* What create_thread has stored for a thread survives whatever is         *)
(* allocated after it, though most of it lies outside the block: the two   *)
(* stack registers on the footer of its chunk, the four words it starts    *)
(* from on the header of the stack's chunk and the end of the one below.   *)
(* So the thread that the tick switches to starts in its function.         *)
StartsAt(esp) == [i \in 1..4 |-> At(mem, esp + i - 1)] = Pushed
ContextsKept ==
    /\ \A t \in ToSet(made) :
          At(mem, t.at + 1) = t.sp /\ At(mem, t.at + 2) = t.sp /\ StartsAt(t.sp)
    /\ pc = "switched" => loaded.esp = loaded.ebp /\ StartsAt(loaded.esp)

(* Following the links in memory from now and stack one finds the threads  *)
(* in the order in which they were added, with nothing lost to the chunks  *)
(* that the links are written into.                                        *)
Followed ==
    LET w[k \in 1..(2 * MaxDemos)] ==
            IF k = 1 THEN stack ELSE IF w[k - 1] = 0 THEN 0 ELSE NextOf(mem, w[k - 1])
        length == Cardinality({k \in DOMAIN w : w[k] # 0})
    IN  (IF now = 0 THEN << >> ELSE <<At(mem, now)>>) \o [i \in 1..length |-> At(mem, w[i])]
QueueKept == pc # "switched" /\ status = "ok" => Followed = added

(* Files stay readable: no word of init_initrd's blocks is written by the  *)
(* demo, which writes below its stack and behind its threads.              *)
FilesKept == \A n \in nodes : \A x \in Payload(n) : mem[x] = FilesMark
=============================================================================
