------------------------------ MODULE Scheduler ------------------------------
(***************************************************************************)
(* task_scheduler.c: the queue of threads.  A node is a thread and a       *)
(* pointer to the next node; "stack" is the first node of the queue, "now" *)
(* the node of the thread that has the turn.  The three functions run with *)
(* interrupts disabled, so each is one step.  A null pointer is followed   *)
(* like any other: page 0 is mapped, and the words there are the firmware's.*)
(***************************************************************************)
EXTENDS Integers, FiniteSets, SequencesExt, FiniteSetsExt

CONSTANTS
    Threads,   \* what create_thread returns
    NoThread,  \* for the abstract queue: nobody has the turn
    Nodes,     \* bound: the addresses kmalloc has for nodes
    Null,      \* the null pointer
    Roomy      \* nodes whose chunk got slack words, see Freed

ASSUME SchedulerAssumption ==
    /\ IsFiniteSet(Nodes) /\ Null \notin Nodes /\ NoThread \notin Threads
    /\ Roomy \subseteq Nodes

VARIABLES
    sched,     \* the record of all that the scheduler reads and writes
    stranded   \* history: delete_thread has freed the node behind now

Pointers == Nodes \cup {Null}

(* The two words at address 0, read as a node, are zero or not: "vectors". *)
(* Every node that is in use has a thread.                                 *)
TypeOK ==
  /\ stranded \in BOOLEAN
  /\ \A n \in sched.used : sched.node[n].thread \in Threads
  /\ sched \in [
    node : [Nodes -> [thread : Threads \cup {NoThread}, next : Pointers]],
    used : SUBSET Nodes,                        \* allocated nodes
    stack : Pointers,
    now : Pointers,
    vectors : [thread : BOOLEAN, next : BOOLEAN],
    status : {"ok", "hung", "assert", "wild"}]  \* see Next

InitSched == sched \in [
    node : {[n \in Nodes |-> [thread |-> NoThread, next |-> Null]]},
    used : {{}}, stack : {Null}, now : {Null},
    vectors : [thread : BOOLEAN, next : BOOLEAN],
    status : {"ok"}]
Init == InitSched /\ stranded = FALSE

(* The nodes that while (temp->next) temp = temp->next meets, in order; it *)
(* never ends when there are more of them than there are nodes.            *)
Walk(s) ==
    LET w[k \in 0..Cardinality(Nodes)] ==
            IF k = 0 THEN s.stack
            ELSE IF w[k - 1] = Null THEN Null ELSE s.node[w[k - 1]].next
    IN  w
Met(s) == Range(Walk(s)) \ {Null}
Endless(s) == Walk(s)[Cardinality(Nodes)] # Null
LastNode(s) == CHOOSE n \in Met(s) : s.node[n].next = Null
Spinning(s) == [s EXCEPT !.status = "hung"]
-----------------------------------------------------------------------------
(* add_thread.  The test of now->thread reads address 0 while now is null. *)
NowEmpty(s) == IF s.now = Null THEN ~s.vectors.thread
               ELSE s.node[s.now].thread = NoThread

FreshLinked(s, t) ==   \* a variant: the node points back at the queue
    [thread |-> t, next |-> s.stack]
FreshEmpty(s, t) ==    \* a variant: the thread is not stored
    [thread |-> NoThread, next |-> Null]
Fresh(s, t) == [thread |-> t, next |-> Null]
Added(s, t, n) ==
    LET a == [s EXCEPT !.node[n] = Fresh(s, t),
                       !.used = @ \cup {n}]
    IN  CASE NowEmpty(s) -> [a EXCEPT !.now = n]
          [] ~NowEmpty(s) /\ s.stack = Null -> [a EXCEPT !.stack = n]
          [] ~NowEmpty(s) /\ s.stack # Null /\ Endless(a) -> Spinning(a)
          [] OTHER -> [a EXCEPT !.node[LastNode(a)].next = n]

(* schedule, up to its call of switch_thread.  The last node is made to    *)
(* point at the old now before stack->next is read; the new now keeps its  *)
(* own next.                                                               *)
ScheduledUnchecked(s) ==   \* a variant: an empty queue is walked too
    IF s.stack = Null \/ Endless(s) THEN Spinning(s)
    ELSE LET r == [s EXCEPT !.node[LastNode(s)].next = s.now, !.now = s.stack]
         IN  [r EXCEPT !.stack = r.node[s.stack].next]
ScheduledLost(s) ==   \* a variant: the old now is not put back
    IF s.stack = Null THEN s
    ELSE IF Endless(s) THEN Spinning(s)
    ELSE [s EXCEPT !.now = s.stack, !.stack = s.node[s.stack].next]
Scheduled(s) ==
    IF s.stack = Null THEN s
    ELSE IF Endless(s) THEN Spinning(s)
    ELSE LET r == [s EXCEPT !.node[LastNode(s)].next = s.now, !.now = s.stack]
         IN  [r EXCEPT !.stack = r.node[s.stack].next]

(* kfree of the nodes in gone.  A node is eight bytes in a chunk that was  *)
(* asked for four: its next is the magic number of the chunk's footer, and *)
(* the assertion in free fails, unless slack words moved the footer.       *)
Freed(s, gone) == IF gone \subseteq Roomy THEN [s EXCEPT !.used = @ \ gone]
                  ELSE [s EXCEPT !.status = "assert"]

(* delete_thread.  Once a node is unlinked, the loop goes on behind the    *)
(* node after it, which it never looks at; past the end it reads the word  *)
(* at address 4 and follows it.                                            *)
Found(s, t) ==
    LET w == Walk(s)
        gone[k \in 0..Cardinality(Nodes)] ==
            IF k = 0 \/ w[k] = Null THEN FALSE
            ELSE s.node[w[k]].thread = t /\ ~gone[k - 1]
    IN  {w[k] : k \in {j \in DOMAIN w : gone[j]}}

BypassNone(s, gone) ==   \* a variant: freed and still linked
    s
Bypass(s, gone) ==
    [s EXCEPT !.node = [n \in Nodes |->
        IF n \in Met(s) /\ s.node[n].next \in gone
        THEN [s.node[n] EXCEPT !.next = s.node[s.node[n].next].next]
        ELSE s.node[n]]]

Deleted(s, t) ==
    CASE s.stack = Null -> s
      [] s.stack # Null /\ s.node[s.stack].thread = t ->
            Freed([s EXCEPT !.stack = s.node[s.stack].next], {s.stack})
      [] s.stack # Null /\ s.node[s.stack].thread # t /\ Endless(s) ->
            IF Found(s, t) \subseteq Roomy THEN Spinning(s) ELSE Freed(s, Found(s, t))
      [] OTHER ->
            LET f == Freed(Bypass(s, Found(s, t)), Found(s, t))
            IN  IF f.status = "ok" /\ LastNode(s) \in Found(s, t) /\ s.vectors.next
                THEN [f EXCEPT !.status = "wild"] ELSE f
-----------------------------------------------------------------------------
AddThread(t) ==
    /\ sched.status = "ok"
    /\ \E n \in Nodes \ sched.used : sched' = Added(sched, t, n)
    /\ UNCHANGED stranded

Schedule ==
    /\ sched.status = "ok"
    /\ sched' = Scheduled(sched)
    /\ UNCHANGED stranded

(* now keeps its pointer to the node that it stood in front of, and        *)
(* delete_thread frees that node without a look at now.  The words of a    *)
(* freed node stay until it is allocated again.                            *)
Dangling(s) == s.now # Null /\ s.node[s.now].next \in Nodes \ s.used

DeleteThread(t) ==
    /\ sched.status = "ok"
    /\ sched' = Deleted(sched, t)
    /\ stranded' = (stranded \/ Dangling(sched'))

(* After "hung", "assert" and "wild" the kernel does nothing of use.       *)
Next == \/ Schedule
        \/ \E t \in Threads : AddThread(t)
        \/ \E t \in Threads : DeleteThread(t)

Spec == Init /\ [][Next]_<<sched, stranded>>
-----------------------------------------------------------------------------
(* What the queue stands for: the nodes from stack on, up to its end or to *)
(* the node that has the turn already.                                     *)
Waiting(s) ==
    LET w == Walk(s)
        stops == {k \in DOMAIN w : w[k] \in {Null, s.now}}
        size == IF stops = {} THEN Cardinality(Nodes) ELSE Min(stops)
    IN  [i \in 1..size |-> s.node[w[i - 1]].thread]
Turn(s) == IF s.now = Null THEN NoThread ELSE s.node[s.now].thread

(* Threads take turns in the order in which they came and nobody is lost:  *)
(* the linked list implements the round-robin queue, whenever add_thread,  *)
(* schedule and delete_thread are called, also once the list is a loop,    *)
(* until a call never returns or a deletion frees the node behind now.     *)
(* That deletion itself is one more step of the queue; after it a thread   *)
(* may come back that was deleted, and nothing is claimed.                 *)
ImplementsRoundRobin ==
    INSTANCE RoundRobin WITH turn <- Turn(sched), ready <- Waiting(sched)
ImplementsQueue == ImplementsRoundRobin!Spec

(* If the list has become a loop, the loop goes through now: schedule and  *)
(* add_thread, which never return from it, would if they stopped there.    *)
(* Only the deletion of the node behind now makes another loop.            *)
LoopThroughNow ==
    ~stranded /\ Endless(sched) => sched.now \in Met(sched)

(* Every node the queue reaches, and the one that has the turn, is still   *)
(* allocated: of all that delete_thread frees, the node behind now is the  *)
(* only one that can be used afterwards.                                   *)
QueueAllocated ==
    sched.status = "ok" /\ ~stranded =>
        Met(sched) \cup ({sched.now} \ {Null}) \subseteq sched.used
=============================================================================
