---------------------------- MODULE OrderedArray ----------------------------
(***************************************************************************)
(* ordered_array.c: the array of pointers that the kernel heap keeps as    *)
(* the index of its holes.  It is placed over a piece of memory, is never  *)
(* reallocated, and is kept in the order of a predicate less_than, here    *)
(* header_t_less_than, which reads the sizes in the headers pointed to.    *)
(* The heap writes those sizes whether a header is indexed or not, and     *)
(* nothing compares the number of items with the slots that there are.     *)
(***************************************************************************)
EXTENDS Integers, Sequences

CONSTANTS
    Items,     \* pointers to headers
    Nil,       \* any other word: the 0 that memset leaves, a magic number
    Keys,      \* the sizes that headers may hold
    MaxSize,   \* slots reserved
    Behind     \* bound: items too many that the model follows

ASSUME MaxSizeAssumption == MaxSize \in Nat \ {0} /\ Behind \in Nat \ {0}
ASSUME KeyAssumption == Keys \subseteq Int
ASSUME NilAssumption == Nil \notin Items

VARIABLES
    array,     \* the slots, and the words behind them, which are not the array's
    size,      \* how many slots are in use
    key,       \* header->size of every item, as less_than reads it
    resized,   \* ghost: an item was resized in the array since that was last empty
    overrun    \* ghost: an insertion has found no slot free

avars == <<array, size, key, resized, overrun>>

Slots == 0..(MaxSize + Behind)
Indexed == {array[s] : s \in 0..(size - 1)}

(* less_than, the strict comparison of two headers' sizes.                 *)
LessOrEqual(a, b) == key[a] <= key[b]   \* a variant the checks must reject
Less(a, b) == key[a] < key[b]
-----------------------------------------------------------------------------
(* place_ordered_array: memset clears the reserved slots and no more.      *)
InitArray ==
    /\ array \in [Slots -> Items \cup {Nil}]
    /\ \A s \in 0..(MaxSize - 1) : array[s] = Nil
    /\ size = 0
    /\ key \in [Items -> Keys]
    /\ resized = FALSE /\ overrun = FALSE

(* The position at which the scan of insert_ordered_array stops.           *)
StopsAtSwapped(it, item) ==   \* a variant: the operands the wrong way round
    /\ \A s \in 0..(it - 1) : Less(item, array[s])
    /\ it < size => ~Less(item, array[it])
StopsAt(it, item) ==
    /\ \A s \in 0..(it - 1) : Less(array[s], item)
    /\ it < size => ~Less(array[it], item)

(* The array once the items from slot it on have moved up one slot.        *)
ShiftedUpPastEnd(it, item) ==   \* a variant: one round of the loop too many
    [s \in Slots |-> IF s < it \/ s > size + 1 THEN array[s]
                     ELSE IF s = it THEN item ELSE array[s - 1]]
ShiftedUp(it, item) ==
    [s \in Slots |-> IF s < it \/ s > size THEN array[s]
                     ELSE IF s = it THEN item ELSE array[s - 1]]

(* insert_ordered_array.  max_size is not looked at: with all slots in use *)
(* the last item goes into the word behind them.  Should words there have  *)
(* changed since, less_than reads through them; what it finds is any size. *)
Insert(item) ==
    /\ size < MaxSize + Behind
    /\ \E it \in 0..size :
        /\ Indexed \subseteq Items => StopsAt(it, item)
        /\ array' = ShiftedUp(it, item)
    /\ size' = size + 1
    /\ overrun' = (overrun \/ size >= MaxSize)
    /\ UNCHANGED <<key, resized>>

(* remove_ordered_array: the items behind i move down one slot, and the    *)
(* last one is overwritten with whatever lies at array[size].              *)
ShiftedDown(i) ==
    [s \in Slots |-> IF i <= s /\ s < size THEN array[s + 1] ELSE array[s]]

RemoveSlotKeepsSize(i) ==   \* a variant: the decrement of size is forgotten
    array' = ShiftedDown(i) /\ UNCHANGED <<size, key, resized, overrun>>
RemoveSlot(i) ==
    /\ array' = ShiftedDown(i)
    /\ size' = size - 1
    /\ resized' = (resized /\ size > 1)
    /\ UNCHANGED <<key, overrun>>

(* alloc and free give a header another size, in the array or not: growth, *)
(* both merges and contraction change headers where they are.              *)
Resize(item) ==
    /\ key' \in {[key EXCEPT ![item] = k] : k \in Keys \ {key[item]}}
    /\ resized' = (resized \/ item \in Indexed)
    /\ UNCHANGED <<array, size, overrun>>

(* The words behind the slots hold the heap's first header, whose magic    *)
(* number and mark alloc and free write.                                   *)
WriteHeader(s) ==
    /\ array' = [array EXCEPT ![s] = Nil]
    /\ UNCHANGED <<size, key, resized, overrun>>

(* Every caller in kmem.c removes a position it has just compared with size. *)
NextArray ==
    \/ \E item \in Items : Insert(item)
    \/ \E i \in 0..(size - 1) : RemoveSlot(i)
    \/ \E item \in Items : Resize(item)
    \/ \E s \in MaxSize..(MaxSize + Behind) : WriteHeader(s)

SpecArray == InitArray /\ [][NextArray]_avars
-----------------------------------------------------------------------------
(* The slots in use hold items, never a null pointer or another word, as   *)
(* long as the slots suffice: find_smallest_hole dereferences all of them. *)
TypeOKArray ==
    /\ array \in [Slots -> Items \cup {Nil}]
    /\ size \in Slots
    /\ key \in [Items -> Keys]
    /\ resized \in BOOLEAN /\ overrun \in BOOLEAN
    /\ ~overrun => size <= MaxSize /\ Indexed \subseteq Items

(* Best fit relies on the order of the index.  Insertions and removals, in *)
(* whatever series, keep it; all that can put the index out of order is a  *)
(* header that is resized while it is indexed, which alloc and free do, or *)
(* more items than slots.  Insertions and removals do not put it right     *)
(* again until it has been empty.                                          *)
Sorted == \A s, t \in 0..(size - 1) : s < t => key[array[s]] <= key[array[t]]
SortedUnlessResized == resized \/ overrun \/ Sorted

(* The shifting loops of insert_ordered_array and remove_ordered_array     *)
(* write a word behind the slots only when an insertion has found all of   *)
(* them in use; the first such word is the magic number of the heap's      *)
(* first header.                                                           *)
PastEndUntouched ==
    [][size' # size /\ ~overrun' =>
            \A s \in MaxSize..(MaxSize + Behind) : array'[s] = array[s]]_avars

(* The slots in use, read from slot 0 up, behave as the abstract list.     *)
Listed == [j \in 1..size |-> array[j - 1]]

SL == INSTANCE SortedList WITH list <- Listed

(* The array implements the list of SortedList: insert_ordered_array and   *)
(* remove_ordered_array lose, duplicate and reorder nothing, also while    *)
(* sizes change under them, and put a new item before the first that is    *)
(* not smaller when the list is in order.  It promises no more than the    *)
(* abstract list, which ends when an item finds no slot.                   *)
ImplementsSortedList == SL!Spec
=============================================================================
