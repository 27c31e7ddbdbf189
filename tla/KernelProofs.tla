---------------------------- MODULE KernelProofs ----------------------------
(* One switch of threads and no second one, no walk that does not return,  *)
(* and types, for any threads.                                             *)
EXTENDS Kernel, TLAPS

(* The queue holds nodes in use, and they hold threads that were made.     *)
Linked(s, made) ==
    /\ s.used \subseteq Nodes
    /\ {s.stack, s.now} \subseteq s.used \cup {Null}
    /\ \A n \in s.used : s.node[n].next \in s.used \cup {Null} /\ s.node[n].thread \in made

SchedOK(s) ==
    s \in [node : [Nodes -> [thread : Threads \cup {NoThread}, next : Nodes \cup {Null}]],
           used : SUBSET Nodes, stack : Nodes \cup {Null}, now : Nodes \cup {Null},
           vectors : [thread : BOOLEAN, next : BOOLEAN],
           status : {"ok", "hung", "assert", "wild"}]

(* A context that has not been saved inside a handler is one that nobody   *)
(* enables interrupts in: until the first switch there is no other.        *)
FreshContexts == current = NoThread => \A t \in created : saved[t].inside = FALSE

(* Interrupts are enabled by main's step and by nothing after a switch.    *)
Disabled ==
    /\ pc \in 1..7
    /\ iflag \in BOOLEAN
    /\ iflag => pc > 2
    /\ current # NoThread => ~iflag /\ pc > 2

IInv ==
    /\ SchedOK(sched) /\ Linked(sched, created)
    /\ created \subseteq Threads
    /\ FreshContexts /\ Disabled

Relink(s, x, v) == [s EXCEPT !.node[x].next = v]

(* Pointing a node at another one, or at nothing, keeps the queue linked.  *)
LEMMA Relinked ==
  ASSUME NEW s, NEW made \in SUBSET Threads, SchedOK(s), Linked(s, made),
         NEW x, NEW v \in s.used \cup {Null}
  PROVE  /\ SchedOK(Relink(s, x, v)) /\ Linked(Relink(s, x, v), made)
         /\ Relink(s, x, v).used = s.used /\ Relink(s, x, v).stack = s.stack
<1> DEFINE N == [s.node EXCEPT ![x].next = v]
           r == [s EXCEPT !.node = N]
<1>1. \A k \in Nodes : /\ s.node[k] \in [thread : Threads \cup {NoThread}, next : Nodes \cup {Null}]
                       /\ N[k] = IF k = x THEN [s.node[k] EXCEPT !.next = v] ELSE s.node[k]
  BY DEF SchedOK
<1>2. N \in [Nodes -> [thread : Threads \cup {NoThread}, next : Nodes \cup {Null}]]
  BY <1>1 DEF SchedOK, Linked
<1>3. \A k \in Nodes : N[k].thread = s.node[k].thread /\ N[k].next \in {s.node[k].next, v}
  BY <1>1
<1> HIDE DEF N
<1>4. SchedOK(r)
  BY <1>2 DEF SchedOK
<1>5. r.node = N /\ r.used = s.used /\ r.stack = s.stack /\ r.now = s.now
  BY DEF SchedOK
<1>6. Linked(r, made)
  BY <1>3, <1>5 DEF Linked
<1>7. r = Relink(s, x, v)
  BY DEF Relink, N
<1> HIDE DEF r
<1> QED BY <1>4, <1>5, <1>6, <1>7

(* Taking a node for a thread keeps the queue linked.                      *)
LEMMA AddedLinked ==
  ASSUME NEW s, NEW made \in SUBSET Threads, NEW t \in made, NEW n \in Nodes \ s.used,
         SchedOK(s), Linked(s, made)
  PROVE  LET a == S!Added(s, t, n)
         IN  SchedOK(a) /\ Linked(a, made) /\ a.used = s.used \cup {n}
<1> DEFINE a == [s EXCEPT !.node[n] = S!Fresh(s, t), !.used = s.used \cup {n}]
<1>1. SchedOK(a) /\ Linked(a, made) /\ a.used = s.used \cup {n} /\ n \in a.used
  <2> DEFINE N == [s.node EXCEPT ![n] = S!Fresh(s, t)]
  <2>1. N \in [Nodes -> [thread : Threads \cup {NoThread}, next : Nodes \cup {Null}]]
    BY DEF SchedOK, S!Fresh
  <2>2. \A k \in Nodes : N[k] = IF k = n THEN [thread |-> t, next |-> Null] ELSE s.node[k]
    BY DEF SchedOK, S!Fresh
  <2>3. a = [s EXCEPT !.node = N, !.used = s.used \cup {n}]
    OBVIOUS
  <2> HIDE DEF N, a
  <2>4. SchedOK(a) /\ a.node = N /\ a.used = s.used \cup {n} /\ a.stack = s.stack /\ a.now = s.now
    BY <2>1, <2>3 DEF SchedOK
  <2> QED BY <2>2, <2>4 DEF Linked
<1> HIDE DEF a
<1>2. CASE S!Added(s, t, n) = [a EXCEPT !.now = n]
  BY <1>1, <1>2 DEF SchedOK, Linked
<1>3. CASE S!Added(s, t, n) = [a EXCEPT !.stack = n]
  BY <1>1, <1>3 DEF SchedOK, Linked
<1>4. CASE S!Added(s, t, n) = [a EXCEPT !.status = "hung"]
  BY <1>1, <1>4 DEF SchedOK, Linked
<1>5. CASE S!Added(s, t, n) = Relink(a, S!LastNode(a), n)
  <2>1. n \in a.used \cup {Null}
    BY <1>1
  <2> QED BY <1>1, <1>5, <2>1, Relinked
<1> QED BY <1>2, <1>3, <1>4, <1>5 DEF S!Added, S!Spinning, Relink, a

(* schedule keeps it, and gives the turn to a thread that was made.        *)
LEMMA ScheduledLinked ==
  ASSUME NEW s, NEW made \in SUBSET Threads, SchedOK(s), Linked(s, made)
  PROVE  LET r == S!Scheduled(s)
         IN  /\ SchedOK(r) /\ Linked(r, made)
             /\ r.status = "ok" /\ s.stack # Null => r.node[r.now].thread \in made
<1>1. CASE s.stack = Null
  BY <1>1 DEF S!Scheduled
<1>2. CASE s.stack # Null /\ S!Endless(s)
  BY <1>2 DEF S!Scheduled, S!Spinning, SchedOK, Linked
<1>3. CASE s.stack # Null /\ ~S!Endless(s)
  <2> DEFINE r == [s EXCEPT !.node[S!LastNode(s)].next = s.now, !.now = s.stack]
  <2>1. SchedOK(r) /\ Linked(r, made) /\ r.now = s.stack /\ s.stack \in r.used /\ r.used = s.used
    <3> DEFINE q == Relink(s, S!LastNode(s), s.now)
    <3>1. s.now \in s.used \cup {Null} /\ s.stack \in s.used
      BY <1>3 DEF Linked
    <3>2. SchedOK(q) /\ Linked(q, made) /\ q.used = s.used /\ q.stack = s.stack
      BY <3>1, Relinked
    <3>3. r = [q EXCEPT !.now = s.stack]
      BY DEF Relink
    <3> HIDE DEF q, r
    <3> QED BY <3>1, <3>2, <3>3 DEF SchedOK, Linked
  <2>2. S!Scheduled(s) = [r EXCEPT !.stack = r.node[s.stack].next]
    BY <1>3 DEF S!Scheduled
  <2> HIDE DEF r
  <2> QED BY <2>1, <2>2 DEF SchedOK, Linked
<1> QED BY <1>1, <1>2, <1>3

LEMMA InitInv == Init => IInv
<1> SUFFICES ASSUME Init PROVE IInv
  OBVIOUS
<1>1. SchedOK(sched) /\ Linked(sched, created)
  BY DEF Init, S!InitSched, SchedOK, Linked
<1>2. iflag = FALSE /\ created = {} /\ current = NoThread
  BY DEF Init
<1>3. pc \in 1..7
  BY DEF Init
<1>4. Disabled
  BY <1>2, <1>3, Zenon DEF Disabled
<1>5. created \subseteq Threads /\ FreshContexts
  BY <1>2 DEF FreshContexts
<1> QED BY <1>1, <1>4, <1>5 DEF IInv

(* The timer switches at most once.                                        *)
LEMMA TimerInv == ASSUME IInv, Timer PROVE IInv' /\ current = NoThread
<1> USE KernelAssumption
<1>1. iflag /\ current = NoThread /\ pc > 2 /\ pc' = pc /\ created' = created
  BY DEF Timer, Taken, IInv, Disabled
<1>2. SchedOK(sched') /\ Linked(sched', created)
  BY ScheduledLinked DEF Timer, IInv
<1>3. CASE UNCHANGED <<saved, current>> /\ iflag' \in {iflag, FALSE}
  BY <1>1, <1>2, <1>3 DEF IInv, FreshContexts, Disabled
<1>4. ASSUME sched'.status = "ok", sched.stack # Null, Switch(sched'.node[sched'.now].thread)
      PROVE  FreshContexts' /\ Disabled'
  <2>1. sched'.node[sched'.now].thread \in created
    BY <1>4, ScheduledLinked DEF Timer, IInv
  <2>2. current' \in created /\ current' # NoThread
    BY <1>4, <2>1 DEF Switch, IInv
  <2>3. iflag' = saved[current'].inside
    BY <1>1, <1>4, <2>2 DEF Switch, ReturnsEnabled, SavedContext
  <2>4. iflag' = FALSE
    BY <1>1, <2>2, <2>3 DEF IInv, FreshContexts
  <2> QED BY <1>1, <2>2, <2>4 DEF IInv, FreshContexts, Disabled
<1> QED BY <1>1, <1>2, <1>3, <1>4 DEF Timer, IInv

(* The demo adds a thread whose context is a new one.                      *)
LEMMA TypingInv == ASSUME IInv, Typing PROVE IInv' /\ current' = current
<1>1. UNCHANGED <<pc, iflag, current>>
  BY DEF Typing
<1>2. CASE UNCHANGED <<sched, created, saved>>
  BY <1>1, <1>2 DEF IInv, FreshContexts, Disabled
<1>3. ASSUME NEW t \in Threads \ created, created' = created \cup {t},
             saved' = CreateThread(t), sched' \in Demo(sched, t)
      PROVE  IInv'
  <2>1. PICK n \in Nodes \ sched.used :
            \E m \in Nodes \ (sched.used \cup {n}) : sched' = S!Added(S!Added(sched, t, n), t, m)
    BY <1>3 DEF Demo
  <2> DEFINE one == S!Added(sched, t, n)
  <2>2. created' \in SUBSET Threads /\ t \in created'
    BY <1>3 DEF IInv
  <2>3. SchedOK(sched) /\ Linked(sched, created')
    BY <1>3 DEF IInv, Linked
  <2>4. SchedOK(one) /\ Linked(one, created') /\ one.used = sched.used \cup {n}
    BY <2>2, <2>3, AddedLinked
  <2>5. SchedOK(sched') /\ Linked(sched', created')
    <3> HIDE DEF one
    <3>1. PICK m \in Nodes \ one.used : sched' = S!Added(one, t, m)
      BY <2>1, <2>4 DEF one
    <3> QED BY <2>2, <2>4, <3>1, AddedLinked
  <2>6. FreshContexts'
    BY <1>1, <1>3 DEF IInv, FreshContexts, CreateThread
  <2> QED BY <1>1, <2>2, <2>5, <2>6 DEF IInv, Disabled
<1> QED BY <1>1, <1>2, <1>3 DEF Typing

LEMMA StepInv == IInv /\ [Next]_vars => IInv' /\ [current # NoThread => current' = current]_vars
<1> SUFFICES ASSUME IInv, [Next]_vars
             PROVE  IInv' /\ (current # NoThread => current' = current)
  OBVIOUS
<1>1. CASE Main
  <2>1. UNCHANGED <<sched, created, current, saved>> /\ pc' = pc + 1 /\ pc \in 1..6
    BY <1>1 DEF Main, Steps, IInv, Disabled
  <2>2. iflag' = (iflag \/ pc = 2)
    BY <1>1, <2>1 DEF Main, Steps
  <2> QED BY <2>1, <2>2 DEF IInv, FreshContexts, Disabled
<1>2. CASE Timer
  BY <1>2, TimerInv
<1>3. CASE Typing
  BY <1>3, TypingInv
<1>4. ASSUME UNCHANGED <<pc, iflag, sched, created, current, saved>>
      PROVE  IInv' /\ current' = current
  BY <1>4 DEF IInv, FreshContexts, Disabled
<1>5. CASE Pulse \/ (\E k \in Keys : Press(k)) \/ (\E irq \in IRQs : Ignore(irq)) \/ RunThread
  BY <1>4, <1>5 DEF Pulse, Press, Ignore, RunThread
<1>6. CASE UNCHANGED vars
  BY <1>4, <1>6 DEF vars
<1> QED BY <1>1, <1>2, <1>3, <1>5, <1>6 DEF Next

OneSwitch == [][current # NoThread => current' = current]_vars

(* The first switch is the last, whatever threads there are and however    *)
(* the queue is linked: the only context that returns with interrupts      *)
(* enabled is one that a handler saved, and none has been saved by then.   *)
(* That is why the demo's second thread never runs.                        *)
THEOREM SpecOneSwitch == Spec => OneSwitch
  BY InitInv, StepInv, PTL DEF Spec, OneSwitch
-----------------------------------------------------------------------------
(* The registers that a switch brings in are those of a thread that was    *)
(* made, and the processor is with main, such a thread or one that ended.  *)
Runners(made) == made \cup {"main", "exit", "hung"}

Contexts ==
    /\ pic \subseteq IRQs /\ handlers \subseteq IRQs
    /\ key \in Keys \cup {"none"}
    /\ current \in created \cup {NoThread}
    /\ saved \in [created -> [who : Runners(created), inside : BOOLEAN]]
    /\ cpu \in Runners(created)
    /\ newlines \in Nat

LEMMA TimerContexts == ASSUME IInv, Contexts, Timer PROVE Contexts'
<1>1. UNCHANGED <<key, handlers, created, newlines>> /\ pic' \subseteq IRQs
  BY DEF Timer, Contexts
<1>2. CASE UNCHANGED <<saved, current>> /\ cpu' \in {"hung", cpu}
  BY <1>1, <1>2 DEF Contexts, Runners
<1>3. ASSUME sched'.status = "ok", sched.stack # Null, Switch(sched'.node[sched'.now].thread)
      PROVE  Contexts'
  <2>1. PICK next \in created : Switch(next)
    BY <1>3, ScheduledLinked DEF Timer, IInv
  <2>2. SavedContext(next) \in [who : Runners(created), inside : BOOLEAN]
    BY DEF SavedContext, Contexts
  <2>3. saved' \in [created -> [who : Runners(created), inside : BOOLEAN]]
    BY <2>1 DEF Switch, Contexts
  <2> QED BY <1>1, <2>1, <2>2, <2>3 DEF Switch, Contexts
<1> QED BY <1>2, <1>3 DEF Timer

LEMMA TypingContexts == ASSUME IInv, Contexts, Typing PROVE Contexts'
<1>1. UNCHANGED <<handlers, current, cpu, newlines>> /\ pic' \subseteq IRQs /\ key' = "none"
  BY DEF Typing, Inb, Contexts
<1>2. CASE UNCHANGED <<created, saved>>
  BY <1>1, <1>2 DEF Contexts
<1>3. ASSUME NEW t \in Threads \ created, created' = created \cup {t}, saved' = CreateThread(t)
      PROVE  Contexts'
  BY <1>1, <1>3 DEF Contexts, CreateThread, Runners
<1> QED BY <1>2, <1>3 DEF Typing

LEMMA ContextsStep == IInv /\ Contexts /\ [Next]_vars => Contexts'
<1> SUFFICES ASSUME IInv, Contexts, [Next]_vars PROVE Contexts'
  OBVIOUS
<1>1. CASE Main
  BY <1>1 DEF Main, Registered, Contexts, IRQs
<1>2. CASE Pulse
  BY <1>2 DEF Pulse, Contexts, IRQs
<1>3. ASSUME NEW k \in Keys, Press(k) PROVE Contexts'
  BY <1>3 DEF Press, Contexts, IRQs
<1>4. ASSUME NEW irq \in IRQs, Ignore(irq) PROVE Contexts'
  BY <1>4 DEF Ignore, Contexts
<1>5. CASE RunThread
  BY <1>5 DEF RunThread, ThreadExit, Contexts, Runners
<1>6. CASE UNCHANGED vars
  BY <1>6 DEF vars, Contexts
<1> QED BY <1>1, <1>2, <1>3, <1>4, <1>5, <1>6, TimerContexts, TypingContexts DEF Next

(* The types of all that the kernel keeps: a node in use always has a      *)
(* thread, and a switch never brings in registers that nobody has stored.  *)
THEOREM SpecTypeOK == Spec => []TypeOK
<1>1. Init => Contexts
  BY DEF Init, Contexts, Runners
<1>2. IInv /\ Contexts => TypeOK
  <2> SUFFICES ASSUME IInv, Contexts PROVE TypeOK
    OBVIOUS
  <2>1. S!TypeOK
    BY DEF IInv, SchedOK, Linked, S!TypeOK, S!Pointers
  <2>2. pc \in DOMAIN Steps /\ iflag \in BOOLEAN /\ created \subseteq Threads
    BY DEF IInv, Disabled, Steps
  <2> QED BY <2>1, <2>2 DEF TypeOK, Contexts, Runners
<1> QED BY <1>1, <1>2, InitInv, StepInv, ContextsStep, PTL DEF Spec

-----------------------------------------------------------------------------
(* Until the first switch the queue of threads ends, and the walks along   *)
(* it return; after the switch nobody calls the scheduler any more.  So no *)
(* registers are ever saved for a processor that hangs.                    *)
P == INSTANCE SchedulerProofs WITH Roomy <- {}, stranded <- FALSE

Returns ==
    /\ sched.status = "ok" /\ cpu # "hung"
    /\ \A t \in created : saved[t].who # "hung"
    /\ current = NoThread => P!Ends(sched)

LEMMA SameScheduler ==
  /\ \A s : S!Endless(s) = P!Endless(s)
  /\ \A s, t, n : S!Added(s, t, n) = P!Added(s, t, n)
  /\ P!IsFiniteSet(Nodes) <=> IsFiniteSet(Nodes)
<1>0. S!Cardinality(Nodes) = P!Cardinality(Nodes)
  BY DEF S!Cardinality, P!Cardinality
<1>1. \A s : S!Walk(s) = P!Walk(s)
  BY <1>0 DEF S!Walk, P!Walk
<1>2. \A s : S!Endless(s) = P!Endless(s)
  BY <1>0, <1>1 DEF S!Endless, P!Endless
<1>3. \A s : S!LastNode(s) = P!LastNode(s)
  BY <1>1 DEF S!LastNode, P!LastNode, S!Met, P!Met, S!Range, P!Range
<1>4. \A s, t, n : S!Added(s, t, n) = P!Added(s, t, n)
  <2> TAKE s, t, n
  <2>1. \A a : S!Endless(a) = P!Endless(a) /\ S!LastNode(a) = P!LastNode(a)
    BY <1>2, <1>3
  <2>2. /\ S!NowEmpty(s) = P!NowEmpty(s) /\ S!Fresh(s, t) = P!Fresh(s, t)
        /\ \A a : S!Spinning(a) = P!Spinning(a)
    BY DEF S!NowEmpty, P!NowEmpty, S!Fresh, P!Fresh, S!Spinning, P!Spinning
  <2> QED BY <2>1, <2>2 DEF S!Added, P!Added
<1>5. P!IsFiniteSet(Nodes) <=> IsFiniteSet(Nodes)
  BY DEF P!IsFiniteSet, IsFiniteSet
<1> QED BY <1>2, <1>4, <1>5

LEMMA WellFormedQueue ==
  ASSUME IInv, sched.status = "ok"
  PROVE  P!WellFormed(sched) /\ sched.used \subseteq Nodes
  BY DEF IInv, SchedOK, P!WellFormed, P!Record, P!Pointers

(* A queue that ends lets schedule return, the one time that it is called. *)
LEMMA TimerReturns == ASSUME IInv, Contexts, Returns, Timer PROVE Returns'
<1> USE KernelAssumption
<1>1. current = NoThread /\ created' = created
  BY TimerInv DEF Timer
<1>2. sched.stack # Null => ~S!Endless(sched)
  <2> SUFFICES ASSUME sched.stack # Null PROVE ~P!Endless(sched)
    BY SameScheduler
  <2>1. PICK m \in Nat : \E c \in [0..m -> sched.used] : P!Queue(sched, c, m)
    BY <1>1 DEF Returns, P!Ends
  <2>2. PICK c \in [0..m -> sched.used] : P!Queue(sched, c, m)
    BY <2>1
  <2> QED BY <2>2, P!QueueEnds, SameScheduler, WellFormedQueue DEF Returns
<1>3. CASE sched.stack = Null
  <2>1. sched' = sched
    BY <1>3 DEF Timer, S!Scheduled
  <2>2. UNCHANGED <<saved, current, cpu, iflag>>
    BY <1>3, <2>1 DEF Timer, Returns
  <2> QED BY <1>1, <2>1, <2>2 DEF Returns
<1>4. CASE sched.stack # Null
  <2>1. sched'.status = "ok"
    <3> DEFINE r == [sched EXCEPT !.node[S!LastNode(sched)].next = sched.now, !.now = sched.stack]
    <3>1. sched' = [r EXCEPT !.stack = r.node[sched.stack].next]
      BY <1>2, <1>4 DEF Timer, S!Scheduled
    <3> QED BY <3>1 DEF Returns, IInv, SchedOK
  <2>2. PICK next \in created : Switch(next)
    BY <1>4, <2>1, ScheduledLinked DEF Timer, IInv
  <2>3. next # NoThread
    BY <2>2 DEF IInv
  <2>4. current' = next /\ saved' = saved /\ cpu' = saved[next].who
    BY <1>1, <2>2, <2>3 DEF Switch, SavedContext
  <2> QED BY <1>1, <2>1, <2>3, <2>4 DEF Returns
<1> QED BY <1>3, <1>4

(* The demo comes before the switch, and adds to a queue that ends.        *)
LEMMA TypingReturns == ASSUME IInv, Contexts, Returns, Typing PROVE Returns'
<1> USE KernelAssumption
<1>1. current = NoThread /\ current' = current /\ cpu' = cpu
  BY DEF Typing, Taken, IInv, Disabled
<1>2. CASE UNCHANGED <<sched, created, saved>>
  BY <1>1, <1>2 DEF Returns
<1>3. ASSUME NEW t \in Threads \ created, created' = created \cup {t},
             saved' = CreateThread(t), sched' \in Demo(sched, t)
      PROVE  Returns'
  <2>1. PICK n \in Nodes \ sched.used :
            \E m \in Nodes \ (sched.used \cup {n}) : sched' = S!Added(S!Added(sched, t, n), t, m)
    BY <1>3 DEF Demo
  <2>2. PICK m \in Nodes \ (sched.used \cup {n}) : sched' = S!Added(S!Added(sched, t, n), t, m)
    BY <2>1
  <2> DEFINE one == P!Added(sched, t, n)
  <2>3. P!WellFormed(one) /\ P!Ends(one) /\ one.status = "ok" /\ one.used = sched.used \cup {n}
    BY <1>1, WellFormedQueue, SameScheduler, P!AddedEnds DEF Returns
  <2>4. sched' = P!Added(one, t, m)
    BY <2>2, SameScheduler
  <2> HIDE DEF one
  <2>5. P!Ends(sched') /\ sched'.status = "ok"
    BY <2>2, <2>3, <2>4, SameScheduler, P!AddedEnds
  <2>6. \A u \in created' : saved'[u].who # "hung"
    BY <1>3 DEF CreateThread, Returns
  <2> QED BY <1>1, <2>5, <2>6 DEF Returns
<1> QED BY <1>2, <1>3 DEF Typing

LEMMA ReturnsStep == IInv /\ Contexts /\ Returns /\ [Next]_vars => Returns'
<1> SUFFICES ASSUME IInv, Contexts, Returns, [Next]_vars PROVE Returns'
  OBVIOUS
<1>1. ASSUME UNCHANGED <<sched, created, current, saved>>, cpu' \in {cpu, "exit"} PROVE Returns'
  BY <1>1 DEF Returns
<1>2. CASE Main \/ Pulse \/ (\E k \in Keys : Press(k)) \/ (\E irq \in IRQs : Ignore(irq)) \/ RunThread
  BY <1>1, <1>2 DEF Main, Pulse, Press, Ignore, RunThread, ThreadExit
<1>3. CASE UNCHANGED vars
  BY <1>1, <1>3 DEF vars
<1> QED BY <1>2, <1>3, TimerReturns, TypingReturns DEF Next

(* The scheduler's loops return whenever the timer or the demo calls them, *)
(* for any number of threads and nodes: the third switch, which would not, *)
(* never comes.                                                            *)
THEOREM SpecNeverHangs == Spec => []SchedulerNeverHangs
<1>1. Init => Contexts /\ Returns
  BY DEF Init, Contexts, Runners, Returns, S!InitSched, P!Ends
<1>2. Returns => SchedulerNeverHangs
  BY DEF Returns, SchedulerNeverHangs
<1> QED BY <1>1, <1>2, InitInv, StepInv, ContextsStep, ReturnsStep, PTL DEF Spec
=============================================================================
