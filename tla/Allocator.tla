------------------------------ MODULE Allocator ------------------------------
(***************************************************************************)
(* What alloc and free promise their callers: blocks of the size asked     *)
(* for, inside the heap, that do not overlap, and whose contents nobody    *)
(* but the caller changes until they are freed.  The detailed              *)
(* specification is Heap.                                                  *)
(***************************************************************************)
EXTENDS Integers

CONSTANTS
    Arena,    \* the addresses the heap may ever hand out
    Sizes     \* what is asked for

VARIABLES
    live,     \* the blocks held by callers: [at, size]
    data      \* the words in each of them

Span(b) == b.at..(b.at + b.size - 1)

Init == live = {} /\ data = << >>

(* Contents of blocks that stay are kept, those of a new one are arbitrary. *)
Keeps(blocks) == \A b \in blocks : data'[b] = data[b]

Alloc ==
    \E at \in Arena, size \in Sizes :
        LET b == [at |-> at, size |-> size] IN
        /\ Span(b) \subseteq Arena
        /\ \A c \in live : Span(b) \cap Span(c) = {}
        /\ live' = live \cup {b}
        /\ Keeps(live)

Free(b) ==
    /\ live' = live \ {b}
    /\ Keeps(live')

Next == Alloc \/ \E b \in live : Free(b)

Spec == Init /\ [][Next]_<<live, data>>
=============================================================================
