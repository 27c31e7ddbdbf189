----------------------------- MODULE SortedList -----------------------------
(***************************************************************************)
(* What the kernel's ordered array promises the heap: a list from which    *)
(* the item at a position can be removed, and which an insertion keeps in  *)
(* the order of a key, smallest first.  Keys change, also of items in the  *)
(* list.  The detailed specification is OrderedArray.                      *)
(***************************************************************************)
EXTENDS Integers, Sequences

CONSTANTS
    Items,     \* what the list holds: pointers to the headers of holes
    Keys,      \* the sizes that headers may hold
    MaxSize    \* the longest list that anything is promised of

VARIABLES
    list,
    key,       \* the key an item is ordered by: the size in its header
    overrun    \* the list was once to become longer than MaxSize

vars == <<list, key, overrun>>

InOrder == \A i, j \in 1..Len(list) : i < j => key[list[i]] <= key[list[j]]

\* Items with a smaller key than the new one come before it, all others after.
Before(k, item) ==
    /\ \A j \in 1..k : key[list[j]] < key[item]
    /\ \A j \in (k + 1)..Len(list) : key[list[j]] >= key[item]

Init == list = << >> /\ key \in [Items -> Keys] /\ overrun = FALSE

Insert(item) ==
    /\ ~overrun /\ Len(list) < MaxSize
    /\ \E k \in 0..Len(list) :
        /\ InOrder => Before(k, item)
        /\ list' = [j \in 1..(Len(list) + 1) |->
                        IF j <= k THEN list[j]
                        ELSE IF j = k + 1 THEN item ELSE list[j - 1]]
    /\ UNCHANGED <<key, overrun>>

Remove(i) ==
    /\ list' = [j \in 1..(Len(list) - 1) |-> IF j <= i THEN list[j] ELSE list[j + 1]]
    /\ UNCHANGED <<key, overrun>>

Resize(item) ==
    /\ \E k \in Keys : key' = [key EXCEPT ![item] = k]
    /\ UNCHANGED <<list, overrun>>

\* Of an item too many nothing is promised, nor of what is done after it.
Overrun == (overrun \/ Len(list) = MaxSize) /\ overrun'

Next ==
    \/ \E item \in Items : Insert(item)
    \/ \E i \in 0..(Len(list) - 1) : Remove(i)
    \/ \E item \in Items : Resize(item)
    \/ Overrun

Spec == Init /\ [][Next]_vars
=============================================================================
