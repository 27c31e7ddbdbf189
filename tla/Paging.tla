------------------------------- MODULE Paging -------------------------------
(***************************************************************************)
(* paging.c: the bitmap of physical frames and the page table entries that *)
(* alloc_frame and free_frame fill and empty.  An entry is reduced to its  *)
(* present bit and its frame number; the rw and user bits, which nothing   *)
(* reads back, are left out.  Who calls the two functions, and on which    *)
(* pages, is the business of the modules that extend this one.             *)
(***************************************************************************)
EXTENDS Integers

CONSTANTS
    Pages,      \* the virtual pages that have an entry
    NFrames,    \* nframes, 4096 in the kernel
    WordBits,   \* bits in a word of the bitmap, 32 in the kernel
    PageSize    \* 0x1000 in the kernel

ASSUME FrameAssumption ==
    /\ NFrames \in Nat \ {0}
    /\ WordBits \in 2..NFrames
    /\ NFrames % WordBits = 0
    /\ PageSize \in Nat /\ PageSize >= NFrames

VARIABLES
    used,       \* frames whose bit is set in the bitmap
    entry,      \* the page table entry of every page
    exhausted,  \* history: first_frame has once run off the end of the bitmap
    panicked    \* PANIC was reached, the kernel spins

pagingVars == <<used, entry, exhausted, panicked>>

Frames == 0..(NFrames - 1)
Unmapped == [present |-> FALSE, frame |-> 0]
-----------------------------------------------------------------------------
PagingInit ==
    /\ used = {}
    /\ entry = [p \in Pages |-> Unmapped]
    /\ exhausted = FALSE
    /\ panicked = FALSE

(* The lowest clear bit.  When there is none the function reaches its end  *)
(* without a return; the caller of the compiled kernel then reads the      *)
(* bound of the outer loop, nframes / 32, from the result register.        *)
FirstFrameInverted(idx) ==   \* a variant: the test of the bit is inverted
    \/ idx \in used /\ \A f \in used : f >= idx
    \/ used = {} /\ idx = NFrames \div WordBits
FirstFrame(idx) ==
    \/ /\ idx \in Frames \ used
       /\ \A f \in Frames : f < idx => f \in used
    \/ /\ Frames \subseteq used
       /\ idx = NFrames \div WordBits

(* set_frame and clear_frame both take an address and divide it.           *)
SetFrameUndivided(frame_addr) ==   \* a variant: the address is not divided
    used \cup {frame_addr}
SetFrame(frame_addr) == used \cup {frame_addr \div PageSize}

ClearFrameEmptiesWord(frame_addr) ==   \* a variant: the whole word is cleared
    {f \in used : f \div WordBits # (frame_addr \div PageSize) \div WordBits}
ClearFrame(frame_addr) == used \ {frame_addr \div PageSize}

(* What the caller of first_frame takes to mean that no frame is free.     *)
NoFrame == -1

(* alloc_frame: a page that has a frame other than 0 keeps it.             *)
AllocFrame(p) ==
    \/ /\ ~panicked /\ entry[p].frame # 0
       /\ UNCHANGED pagingVars
    \/ /\ ~panicked /\ entry[p].frame = 0
       /\ \E idx \in Frames :
            /\ FirstFrame(idx)
            /\ panicked' = (idx = NoFrame)
            /\ used' = SetFrame(idx * PageSize)
            /\ entry' = [entry EXCEPT ![p] = [present |-> TRUE, frame |-> idx]]
       /\ exhausted' = (exhausted \/ Frames \subseteq used)

(* free_frame hands clear_frame the number of the frame, not its address,  *)
(* and leaves the present bit alone.                                       *)
FreeFrame(p) ==
    \/ /\ ~panicked /\ entry[p].frame = 0
       /\ UNCHANGED pagingVars
    \/ /\ ~panicked /\ entry[p].frame # 0
       /\ used' = ClearFrame(entry[p].frame)
       /\ entry' = [entry EXCEPT ![p].frame = 0]
       /\ UNCHANGED <<exhausted, panicked>>

PagingNext == \E p \in Pages : AllocFrame(p) \/ FreeFrame(p)

PagingSpec == PagingInit /\ [][PagingNext]_pagingVars
-----------------------------------------------------------------------------
PagingTypeOK ==
    /\ used \subseteq Frames
    /\ entry \in [Pages -> [present : BOOLEAN, frame : Frames]]
    /\ exhausted \in BOOLEAN
    /\ panicked \in BOOLEAN

(* A frame that a page maps is marked in the bitmap, after any sequence of *)
(* alloc_frame and free_frame.  Frame 0 is the exception the code makes by *)
(* reading a frame number of 0 as "none".                                  *)
MappedFramesUsed == \A p \in Pages : entry[p].frame # 0 => entry[p].frame \in used

(* alloc_frame never gives two pages one frame, as long as the bitmap has  *)
(* never been exhausted: what one page holds no write to another changes.  *)
NoSharedFrame ==
    ~exhausted => \A p, q \in Pages :
        entry[p].frame # 0 /\ entry[p].frame = entry[q].frame => p = q
=============================================================================
