----------------------------- MODULE RoundRobin -----------------------------
(***************************************************************************)
(* What the scheduler promises to those who add threads to it: one thread  *)
(* holds the turn, the others wait in the order in which they came, and    *)
(* whoever loses the turn goes to the end of the queue.                    *)
(***************************************************************************)
EXTENDS SequencesExt

CONSTANTS Threads, NoThread

VARIABLES
    turn,     \* the thread that was given the processor last
    ready,    \* the threads that wait for it, the next one first
    stranded  \* a thread was deleted in a way after which nothing is promised

Init == turn = NoThread /\ ready = << >> /\ stranded = FALSE

(* Whoever comes while nobody has the turn may be given it at once.        *)
Add(t) ==
    \/ turn = NoThread /\ turn' = t /\ ready' = ready
    \/ ready' = Append(ready, t) /\ turn' = turn

Schedule ==
    /\ ready # << >>
    /\ turn' = Head(ready)
    /\ ready' = Tail(ready) \o (IF turn = NoThread THEN << >> ELSE <<turn>>)

(* Some of the entries of t leave the queue; nobody else moves.  place     *)
(* says where those who stay have been.                                    *)
Delete(t) ==
    \E n \in 0..(Len(ready) - 1) : \E place \in [1..n -> DOMAIN ready] :
        /\ \A i, j \in 1..n : i < j => place[i] < place[j]
        /\ \A i \in DOMAIN ready : ready[i] = t \/ \E j \in 1..n : place[j] = i
        /\ ready' = [i \in 1..n |-> ready[place[i]]]
        /\ turn' = turn

Next ==
    \/ (Schedule \/ \E t \in Threads : Add(t)) /\ UNCHANGED stranded
    \/ (\E t \in Threads : Delete(t)) /\ stranded' \in BOOLEAN
    \/ stranded /\ stranded'

Spec == Init /\ [][Next]_<<turn, ready, stranded>>
=============================================================================
