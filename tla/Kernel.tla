------------------------------- MODULE Kernel -------------------------------
(***************************************************************************)
(* How the kernel runs: main brings it up with interrupts enabled and then *)
(* spins; everything after that is done by the handlers of the timer and   *)
(* of the keyboard, the shell and its thread demo included.  Gates are     *)
(* interrupt gates, so a handler is one step, except that the timer's may  *)
(* not return: schedule switches to another stack in the middle of it.     *)
(* The queue of threads is that of module Scheduler.                       *)
(***************************************************************************)
EXTENDS Integers, FiniteSets

CONSTANTS
    Threads,    \* bound: the threads that create_thread may make
    NoThread,   \* no thread
    Nodes,      \* bound: the nodes that kmalloc has for add_thread
    Null        \* the null pointer

ASSUME KernelAssumption ==
    /\ IsFiniteSet(Nodes) /\ Null \notin Nodes
    /\ {NoThread, "main", "exit", "hung"} \cap Threads = {}

VARIABLES
    pc,         \* what main does next
    iflag,      \* whether the processor takes interrupts
    pic,        \* interrupt requests that are raised and not yet taken
    key,        \* what lies in the keyboard controller's buffer, or "none"
    handlers,   \* the requests that have an entry in interrupt_handlers
    sched,      \* the scheduler's state
    created,    \* the threads made so far
    current,    \* current_thread
    saved,      \* the registers in each thread_table: whose they are, and
                \* whether they were saved inside an interrupt handler
    cpu,        \* who runs: "main", a thread, "exit" (thread_exit spins), "hung"
    newlines    \* ghost: how many newlines the demo's threads have put

vars == <<pc, iflag, pic, key, handlers, sched, created, current, saved, cpu, newlines>>

S == INSTANCE Scheduler WITH Roomy <- {}, stranded <- FALSE

IRQs == {"IRQ0", "IRQ1"}
Keys == {"plain", "demo"}   \* "demo": the Enter behind threadingdemo
Steps == <<"tables", "sti", "timer", "paging", "initrd", "typing", "spin">>

TypeOK ==
    /\ pc \in DOMAIN Steps /\ iflag \in BOOLEAN
    /\ pic \subseteq IRQs /\ handlers \subseteq IRQs
    /\ key \in Keys \cup {"none"}
    /\ S!TypeOK
    /\ created \subseteq Threads
    /\ current \in created \cup {NoThread}
    /\ saved \in [created -> [who : created \cup {"main", "exit", "hung"}, inside : BOOLEAN]]
    /\ cpu \in created \cup {"main", "exit", "hung"}
    /\ newlines \in Nat

(* boot.s enters main with interrupts disabled and all memory zero.        *)
Init ==
    /\ pc = 1 /\ iflag = FALSE /\ pic = {} /\ key = "none" /\ handlers = {}
    /\ S!InitSched
    /\ created = {} /\ current = NoThread /\ saved = << >>
    /\ cpu = "main" /\ newlines = 0
-----------------------------------------------------------------------------
(* register_interrupt_handler, at main's steps.                            *)
RegisteredLess(step) ==   \* a variant: the keyboard gets no handler
    CASE step = "tables" -> {} [] step = "timer" -> handlers \cup {"IRQ0"} [] OTHER -> handlers
Registered(step) ==
    CASE step = "tables" -> {}
      [] step = "timer"  -> handlers \cup {"IRQ0"}
      [] step = "typing" -> handlers \cup {"IRQ1"}
      [] OTHER -> handlers

(* main.  Its last step, the return to boot.s, is to spin for ever.        *)
Main ==
    /\ cpu = "main" /\ Steps[pc] # "spin"
    /\ pc' = pc + 1
    /\ iflag' = (iflag \/ Steps[pc] = "sti")
    /\ handlers' = Registered(Steps[pc])
    /\ UNCHANGED <<pic, key, sched, created, current, saved, cpu, newlines>>

(* The interval timer runs whether or not anybody listens.                 *)
Pulse ==
    /\ Steps[pc] # "tables"
    /\ pic' = pic \cup {"IRQ0"}
    /\ UNCHANGED <<pc, iflag, key, handlers, sched, created, current, saved, cpu, newlines>>

(* The controller raises its request when a byte enters the empty buffer.  *)
Press(k) ==
    /\ Steps[pc] # "tables"
    /\ key = "none"
    /\ k = "demo" => Steps[pc] = "spin" /\ created # Threads
    /\ key' = k /\ pic' = pic \cup {"IRQ1"}
    /\ UNCHANGED <<pc, iflag, handlers, sched, created, current, saved, cpu, newlines>>

(* The processor takes the request of highest priority.                    *)
Taken(irq) == iflag /\ irq \in pic /\ (irq = "IRQ1" => "IRQ0" \notin pic)

(* irq_handler acknowledges the request first; without a handler it is     *)
(* done, and nobody has read the keyboard's byte.                          *)
Ignore(irq) ==
    /\ Taken(irq) /\ irq \notin handlers
    /\ pic' = pic \ {irq}
    /\ UNCHANGED <<pc, iflag, key, handlers, sched, created, current, saved, cpu, newlines>>

(* switch_thread: the registers go to current_thread, or to the words at   *)
(* address 0 as long as that is null, and those of the next thread come    *)
(* in.  A context saved inside a handler returns through sti and iret; the *)
(* stack of a new thread leads straight to its function.  (What the words  *)
(* at address 4 and behind then are, only delete_thread would see.)        *)
SavedContext(next) ==
    IF current = next THEN [who |-> cpu, inside |-> TRUE] ELSE saved[next]

EnabledInThread(next) ==   \* a variant: a new thread enables interrupts
    TRUE
ReturnsEnabled(next) == SavedContext(next).inside

Switch(next) ==
    /\ saved' = IF current = NoThread THEN saved
                ELSE [saved EXCEPT ![current] = [who |-> cpu, inside |-> TRUE]]
    /\ current' = next
    /\ cpu' = SavedContext(next).who
    /\ iflag' = ReturnsEnabled(next)

(* timer_callback: schedule, which returns at once, never, or as somebody  *)
(* else.                                                                   *)
Timer ==
    /\ Taken("IRQ0") /\ "IRQ0" \in handlers
    /\ pic' = pic \ {"IRQ0"}
    /\ sched' = S!Scheduled(sched)
    /\ \/ /\ sched'.status = "hung"
          /\ cpu' = "hung" /\ iflag' = FALSE
          /\ UNCHANGED <<saved, current>>
       \/ /\ sched'.status = "ok" /\ sched.stack = Null
          /\ UNCHANGED <<saved, current, cpu, iflag>>
       \/ /\ sched'.status = "ok" /\ sched.stack # Null
          /\ Switch(sched'.node[sched'.now].thread)
    /\ UNCHANGED <<pc, key, handlers, created, newlines>>

(* create_thread: the registers of the new thread lead to its function.    *)
CreateThread(t) ==
    [u \in created \cup {t} |-> IF u = t THEN [who |-> t, inside |-> FALSE] ELSE saved[u]]

(* typing.  A line that is complete is interpreted inside the handler; the *)
(* demo makes one thread and adds it twice.                                *)
DemoForgets(s, t) ==   \* a variant: the demo does not add its thread
    {s}
Demo(s, t) ==
    UNION {{S!Added(S!Added(s, t, n), t, m) : m \in Nodes \ (s.used \cup {n})} :
               n \in Nodes \ s.used}

(* Reading the port takes the byte out of the controller's buffer.         *)
Inb == key' = "none"

Typing ==
    /\ Taken("IRQ1") /\ "IRQ1" \in handlers
    /\ pic' = pic \ {"IRQ1"}
    /\ Inb
    /\ \/ key = "plain" /\ UNCHANGED <<sched, created, saved>>
       \/ /\ key = "demo"
          /\ \E t \in Threads \ created :
                /\ created' = created \cup {t}
                /\ saved' = CreateThread(t)
                /\ sched' \in Demo(sched, t)
    /\ UNCHANGED <<pc, iflag, handlers, current, cpu, newlines>>

(* fn puts a newline and returns to thread_exit, which spins.              *)
ThreadExit == cpu' = "exit"
RunThread ==
    /\ cpu \in created
    /\ newlines' = newlines + 1
    /\ ThreadExit
    /\ UNCHANGED <<pc, iflag, pic, key, handlers, sched, created, current, saved>>

Next ==
    \/ Main
    \/ Pulse
    \/ \E k \in Keys : Press(k)
    \/ \E irq \in IRQs : Ignore(irq)
    \/ Timer
    \/ Typing
    \/ RunThread

(* The processor runs what it has, the timer never stops, and a pending    *)
(* interrupt is taken: at 50 Hz the timer leaves time for the keyboard.    *)
Fairness ==
    /\ WF_vars(Main) /\ WF_vars(RunThread) /\ WF_vars(Pulse)
    /\ WF_vars(Timer) /\ SF_vars(Typing)
    /\ \A irq \in IRQs : SF_vars(Ignore(irq))

Spec == Init /\ [][Next]_vars /\ Fairness
-----------------------------------------------------------------------------
(* schedule would not return from its third switch, and a handler that     *)
(* does not return is the end of the kernel; it never gets that far.       *)
SchedulerNeverHangs == sched.status = "ok" /\ cpu # "hung"

(* main gets to where it only waits for interrupts, although the ticks run *)
(* the scheduler from the moment the timer is set, long before there is a  *)
(* thread to switch to.                                                    *)
BootEnds == <>(Steps[pc] = "spin")

(* The first thread of a demo runs.                                        *)
DemoRuns == created # {} ~> newlines > 0

(* "The handler collects key input in a buffer": unless the demo has been  *)
(* run, a key is read whose request is still raised when main has ended.    *)
(* The request of an earlier one may have been acknowledged by Ignore: its *)
(* byte then stays in the controller and no other key arrives.             *)
KeysRead ==
    Steps[pc] = "spin" /\ "IRQ1" \in pic ~> key = "none" \/ created # {}

(* "This will call 2 threads, each printing a newline": the demo's newline *)
(* is put twice.  It is not (finding): the first switch leaves the         *)
(* interrupts disabled, and nobody switches to the second.                 *)
BothThreadsRun == created # {} ~> newlines > 1
=============================================================================
