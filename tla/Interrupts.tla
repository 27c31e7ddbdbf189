----------------------------- MODULE Interrupts -----------------------------
(***************************************************************************)
(* From a request to its handler and back: the segment and gate tables of  *)
(* descriptor_tables.c, the reprogramming of the two interrupt controllers *)
(* that is part of it, the stubs of interrupts.s, the dispatchers of isr.c *)
(* and the two places that print a number before the end, page_fault and   *)
(* kassert.  Of what the handlers do, only the shell's timer command is    *)
(* here, which programs the interval timer that main has programmed.       *)
(* The sources of "Nov 15" and "Dec 3" are looked at beside the current    *)
(* ones: smaller tables, another order in main, no timer at first.         *)
(*                                                                         *)
(* The controllers and the processor are external.  A line q counts from 0 *)
(* to 15, lines from 8 on belong to the second controller, which requests  *)
(* through line 2 of the first one.                                        *)
(***************************************************************************)
EXTENDS Numerals, FiniteSets

CONSTANTS
    Builds,       \* which of "Nov 15", "Dec 3" and "current" are looked at
    Lines,        \* the lines with a device that requests
    Exceptions,   \* the exceptions that occur
    Addresses,    \* where page faults occur
    Asserted,     \* the source lines of assertions that fail
    MaxNest       \* bound: interrupted contexts at a time

(* Exceptions for which the processor pushes an error code, and those that *)
(* it raises in ring 0: alignment checks, number 17, are for ring 3.       *)
ErrorCodes == {8, 10, 11, 12, 13, 14, 17}

ASSUME InterruptsAssumption ==
    /\ Lines \subseteq (0..15) \ {2}
    /\ Exceptions \subseteq (0..31) \ {17}
    /\ Addresses \subseteq Unsigned /\ Asserted \subseteq LowerHalf
    /\ MaxNest \in Nat \ {0}

VARIABLES
    build,     \* the state of the sources that is running
    pc,        \* what main does next
    out,       \* how many bytes of PicWrites or TimerWrites are out
    gdt,       \* the segment descriptors
    idt,       \* the gates
    pic,       \* the two controllers
    pit,       \* channel 0 of the interval timer
    asked,     \* history: the frequency init_timer was last called with
    handlers,  \* interrupt_handlers
    iflag,     \* whether the processor takes interrupts
    frames,    \* the contexts that are interrupted, the last one on top
    report,    \* what was last printed about an interrupt
    halted     \* the kernel spins for good, or has lost its way

device == <<pic, pit>>
vars == <<build, pc, out, gdt, idt, device, asked, handlers, iflag, frames, report, halted>>

(* The three mains, as far as interrupts are concerned.                    *)
StepsNov15 == <<"gdt", "pic", "idt", "sti", "typing", "spin">>
StepsDec3 == <<"gdt", "pic", "idt", "paging", "sti", "typing", "spin">>
StepsTypingEarly ==   \* a variant: the shell runs before the timer is programmed
    <<"gdt", "pic", "idt", "sti", "typing", "timer", "pit", "paging", "spin">>
StepsNow == <<"gdt", "pic", "idt", "sti", "timer", "pit", "paging", "typing", "spin">>
Steps == CASE build = "Nov 15" -> StepsNov15
           [] build = "Dec 3" -> StepsDec3
           [] OTHER -> StepsNow
At(step) == Steps[pc] = step
-----------------------------------------------------------------------------
(* gdt_set_gate: a 32-bit number is the pair of its halves.                *)
Segment(base, limit, access, gran) ==
    [base_low |-> base[2], base_middle |-> base[1] % 256, base_high |-> base[1] \div 256,
     limit_low |-> limit[2], granularity |-> (limit[1] % 16) + (gran \div 16) * 16,
     access |-> access]

Zero == <<0, 0>>
All  == <<65535, 65535>>
InitGdtSwapped ==   \* a variant: code and data change places
    <<Segment(Zero, Zero, 0, 0), Segment(Zero, All, 146, 207), Segment(Zero, All, 154, 207),
      Segment(Zero, All, 250, 207), Segment(Zero, All, 242, 207)>>
InitGdtEarly ==
    <<Segment(Zero, Zero, 0, 0), Segment(Zero, All, 154, 207), Segment(Zero, All, 146, 207)>>
InitGdt ==
    <<Segment(Zero, Zero, 0, 0), Segment(Zero, All, 154, 207), Segment(Zero, All, 146, 207),
      Segment(Zero, All, 250, 207), Segment(Zero, All, 242, 207)>>

(* What the processor makes of a descriptor, selected by a multiple of 8.  *)
Selected(sel) == gdt[sel \div 8 + 1]
Flat(d) ==
    /\ d.base_low = 0 /\ d.base_middle = 0 /\ d.base_high = 0
    /\ d.limit_low = 65535 /\ d.granularity % 16 = 15 /\ d.granularity \div 128 = 1
Kernels(d) == d.access \div 16 = 9       \* present, ring 0, not a system segment
Executable(d) == (d.access \div 8) % 2 = 1
Writable(d) == ~Executable(d) /\ (d.access \div 2) % 2 = 1

(* init_idt: the gates.  The flags 0x8E make an interrupt gate, which      *)
(* clears the interrupt flag; 0x8F would make a trap gate.                 *)
Gate(stub, sel, flags) == [stub |-> stub, sel |-> sel, flags |-> flags]
Vectors == 0..47
Stubs == {<<"isr", v>> : v \in 0..31} \cup {<<"irq", q>> : q \in 0..15}
KernelCode == 8
KernelData == 16
InitIdtTrap ==   \* a variant: trap gates
    [v \in Vectors |-> Gate(IF v < 32 THEN <<"isr", v>> ELSE <<"irq", v - 32>>, KernelCode, 143)]
InitIdtShifted ==   \* a variant: the gates of the second controller begin one late
    [v \in Vectors |->
        Gate(IF v < 32 THEN <<"isr", v>> ELSE <<"irq", IF v < 40 THEN v - 32 ELSE v - 33>>,
             KernelCode, 142)]
InitIdt ==
    [v \in Vectors |-> Gate(IF v < 32 THEN <<"isr", v>> ELSE <<"irq", v - 32>>, KernelCode, 142)]
NoGates == [v \in Vectors |-> Gate(<<"none", v>>, 0, 0)]
ClearsFlag(gate) == gate.flags % 16 = 14

(* The stubs put the number on the stack and, where the processor has not, *)
(* a word in place of the error code.                                      *)
ErrCodeStubs == {8, 10, 11, 12, 13, 14}
Pushed(stub, stack) ==
    IF stub[1] = "isr"
    THEN IF stub[2] \in ErrCodeStubs THEN <<stub[2]>> \o stack ELSE <<stub[2], 0>> \o stack
    ELSE <<stub[2] + 32, 0>> \o stack
-----------------------------------------------------------------------------
(* An interrupt controller: the initialisation word it expects, the vector *)
(* of its line 0, what it was told about the other one, and its lines that *)
(* are masked, requested and in service.                                   *)
Chip(offset) ==
    [icw |-> 0, offset |-> offset, cascade |-> 0, mask |-> {}, irr |-> {}, isr |-> {}]

Requesting(chip, l) == [chip EXCEPT !.irr = @ \cup {l}]
Serving(chip, l) == [chip EXCEPT !.irr = @ \ {l}, !.isr = @ \cup {l}]
Acknowledge(chip) ==
    IF chip.isr = {} THEN chip
    ELSE [chip EXCEPT !.isr = @ \ {CHOOSE l \in @ : \A k \in @ : l <= k}]

Command(chip, value) ==
    IF (value \div 16) % 2 = 1
    THEN [chip EXCEPT !.icw = 2, !.mask = {}, !.irr = {}, !.isr = {}]
    ELSE Acknowledge(chip)
Data(chip, value) ==
    CASE chip.icw = 2 -> [chip EXCEPT !.icw = 3, !.offset = value]
      [] chip.icw = 3 -> [chip EXCEPT !.icw = 4, !.cascade = value]
      [] chip.icw = 4 -> [chip EXCEPT !.icw = 0]
      [] OTHER -> [chip EXCEPT !.mask = {l \in 0..7 : (value \div 2^l) % 2 = 1}]

Outb(p, port, value) ==
    CASE port = 32  -> [p EXCEPT ![1] = Command(@, value)]
      [] port = 33  -> [p EXCEPT ![1] = Data(@, value)]
      [] port = 160 -> [p EXCEPT ![2] = Command(@, value)]
      [] port = 161 -> [p EXCEPT ![2] = Data(@, value)]

(* The ten writes of init_idt.                                             *)
PicWritesOverlapping ==   \* a variant: both controllers at vector 32
    <<<<32, 17>>, <<160, 17>>, <<33, 32>>, <<161, 32>>, <<33, 4>>, <<161, 2>>,
      <<33, 1>>, <<161, 1>>, <<33, 0>>, <<161, 0>>>>
PicWrites ==
    <<<<32, 17>>, <<160, 17>>, <<33, 32>>, <<161, 40>>, <<33, 4>>, <<161, 2>>,
      <<33, 1>>, <<161, 1>>, <<33, 0>>, <<161, 0>>>>

(* Requests that may interrupt: not masked, and above what is in service.  *)
Pending(chip, irr) == {l \in irr \ chip.mask : \A k \in chip.isr : l < k}
Cascaded == pic[1].cascade = 4 /\ pic[2].cascade = 2 /\ Pending(pic[2], pic[2].irr) # {}
Requests == Pending(pic[1], pic[1].irr \cup (IF Cascaded THEN {2} ELSE {}))
Highest(lines) == CHOOSE l \in lines : \A k \in lines : l <= k
Winner ==
    LET l == Highest(Requests)
    IN  IF l = 2 THEN 8 + Highest(Pending(pic[2], pic[2].irr)) ELSE l

(* The interval timer takes a control word and then the count, low byte    *)
(* first.  init_timer computes the count from a frequency.                 *)
PitWrite(p, write) ==
    CASE write[1] = 67 -> [p EXCEPT !.next = "low"]
      [] write[1] = 64 /\ p.next = "low" -> [p EXCEPT !.low = write[2], !.next = "high"]
      [] OTHER -> [p EXCEPT !.count = p.low + 256 * write[2], !.next = "low"]
Divisor(frequency) == 1193180 \div frequency
TimerWrites(frequency) ==
    <<<<67, 54>>, <<64, Divisor(frequency) % 256>>,
      <<64, (Divisor(frequency) \div 256) % 256>>>>
MainFrequency == 50
CommandFrequency == 1193180

VectorOf(q) == IF q < 8 THEN pic[1].offset + q ELSE pic[2].offset + q - 8
-----------------------------------------------------------------------------
NoReport == [what |-> "none", number |-> 0, digits |-> <<0>>, words |-> {}]

(* boot.s calls main with interrupts disabled; the controllers are as the  *)
(* firmware has left them.                                                 *)
Init ==
    /\ build \in Builds
    /\ pc = 1 /\ out = 0
    /\ gdt = [i \in 1..5 |-> Segment(Zero, Zero, 0, 0)]
    /\ pit = [next |-> "low", low |-> 0, count |-> 0] /\ asked = 0
    /\ idt = NoGates
    /\ pic = <<Chip(8), Chip(112)>>
    /\ handlers = [n \in Vectors |-> "null"]
    /\ iflag = FALSE /\ frames = << >> /\ halted = FALSE
    /\ report = NoReport

(* main, as far as interrupts are concerned, with register_interrupt_handler *)
(* in init_timer, initialize_paging and init_typing.                         *)
InMain == frames = << >> /\ ~halted
Sends(writes) ==
    /\ out' = (out + 1) % Len(writes)
    /\ pc' = IF out' = 0 THEN pc + 1 ELSE pc
Main ==
    /\ InMain /\ ~At("spin")
    /\ CASE At("pic") ->
              /\ Sends(PicWrites)
              /\ pic' = Outb(pic, PicWrites[out + 1][1], PicWrites[out + 1][2])
              /\ UNCHANGED pit
         [] At("pit") ->
              /\ Sends(TimerWrites(MainFrequency))
              /\ pit' = PitWrite(pit, TimerWrites(MainFrequency)[out + 1])
              /\ UNCHANGED pic
         [] OTHER -> pc' = pc + 1 /\ UNCHANGED <<device, out>>
    /\ gdt' = CASE At("gdt") /\ build = "current" -> InitGdt
                [] At("gdt") /\ build # "current" -> InitGdtEarly
                [] OTHER -> gdt
    /\ idt' = IF At("idt") THEN InitIdt ELSE idt
    /\ iflag' = (iflag \/ At("sti"))
    /\ asked' = IF At("timer") THEN MainFrequency ELSE asked
    /\ handlers' = [n \in Vectors |->
           CASE At("timer")  /\ n = 32 -> "timer_callback"
             [] At("paging") /\ n = 14 -> "page_fault"
             [] At("typing") /\ n = 33 -> "typing"
             [] OTHER -> handlers[n]]
    /\ UNCHANGED <<build, frames, report, halted>>

(* A device requests; its line is sensed by its edge.                      *)
Raise(q) ==
    /\ ~halted
    /\ pic' = IF q < 8 THEN [pic EXCEPT ![1] = Requesting(@, q)]
              ELSE [pic EXCEPT ![2] = Requesting(@, q - 8)]
    /\ UNCHANGED <<build, pc, out, gdt, idt, pit, asked, handlers, iflag, frames, report, halted>>

(* The processor goes through a gate.                                      *)
Enter(vector, cause, pushed) ==
    /\ frames' = Append(frames,
           [cause |-> cause, phase |-> "stub", iflag |-> iflag, by |-> idt[vector].stub[1],
            stack |-> Pushed(idt[vector].stub, pushed)])
    /\ iflag' = (iflag /\ ~ClearsFlag(idt[vector]))
    /\ UNCHANGED <<build, pc, out, gdt, idt, pit, asked, handlers, report, halted>>

Ready == iflag /\ ~halted /\ Len(frames) < MaxNest

Interrupt(q) ==
    /\ Ready /\ Requests # {} /\ q = Winner
    /\ pic' = IF q < 8 THEN [pic EXCEPT ![1] = Serving(@, q)]
              ELSE [pic EXCEPT ![1] = Serving(@, 2), ![2] = Serving(@, q - 8)]
    /\ Enter(VectorOf(q), <<"line", q, 0>>, <<"eip">>)

(* A request that is gone by the time the processor asks for its vector is *)
(* answered with line 7 of the controller, which is not in service then.   *)
Spurious(q) ==
    /\ Ready
    /\ pic' = IF q = 7 THEN pic ELSE [pic EXCEPT ![1] = Serving(@, 2)]
    /\ Enter(VectorOf(q), <<"line", q, 0>>, <<"eip">>)

(* An exception, in main or in a handler.  The code of a page fault of the *)
(* kernel says whether it wanted to write: the page is never present.      *)
FaultCodes(v) == IF v = 14 THEN {0, 2} ELSE {0}
Exception(v) ==
    /\ ~halted /\ pc > 3 /\ Len(frames) < MaxNest
    /\ frames # << >> => Last(frames).phase = "called"
    /\ UNCHANGED pic
    /\ \E code \in FaultCodes(v) :
         Enter(v, <<"exception", v, code>>,
               IF v \in ErrorCodes THEN <<code, "eip">> ELSE <<"eip">>)
-----------------------------------------------------------------------------
Top == Last(frames)
IntNo == Top.stack[1]
Becomes(phase) == frames' = [frames EXCEPT ![Len(frames)].phase = phase]

(* cli, and irq_handler's acknowledgement.                                 *)
AcknowledgedOnce ==   \* a variant: only the first controller
    [pic EXCEPT ![1] = Acknowledge(@)]
Acknowledged ==
    IF IntNo >= 40 THEN [pic EXCEPT ![1] = Command(@, 32), ![2] = Command(@, 32)]
    ELSE [pic EXCEPT ![1] = Command(@, 32)]

Call ==
    /\ ~halted /\ frames # << >> /\ Top.phase = "stub"
    /\ iflag' = FALSE
    /\ pic' = IF Top.by = "irq" THEN Acknowledged ELSE pic
    /\ Becomes("called")
    /\ UNCHANGED <<build, pc, out, gdt, idt, pit, asked, handlers, report, halted>>

(* page_fault, which does not return.  It says "present" of a page that is *)
(* not: the bit is negated and so is the word.                             *)
ErrCode == Top.stack[2]
PageFaultWords(code) ==
    {w \in {"present", "read-only", "user-mode", "reserved"} :
        CASE w = "present" -> code % 2 = 0
          [] w = "read-only" -> (code \div 2) % 2 = 1
          [] w = "user-mode" -> (code \div 4) % 2 = 1
          [] OTHER -> (code \div 8) % 2 = 1}
PageFault ==
    /\ \E a \in Addresses :
          report' = [what |-> "fault", number |-> a, digits |-> HexDigits(a),
                     words |-> PageFaultWords(ErrCode)]
    /\ halted' = TRUE
    /\ UNCHANGED <<pit, asked, handlers>>

(* isr_handler names what it has no handler for; in the first sources it   *)
(* did not look for one.                                                   *)
Unhandled == handlers[IntNo] = "null" \/ build = "Nov 15"
NameInterrupt ==
    /\ report' = [what |-> "interrupt", number |-> Top.cause[2], digits |-> DecDigits(IntNo),
                  words |-> {}]
    /\ UNCHANGED <<pit, asked, handlers, halted>>

(* typing: one line in many is the timer command.                          *)
InitTimer(frequency) ==
    /\ handlers' = [handlers EXCEPT ![32] = "timer_callback"] /\ asked' = frequency
    /\ LET w == TimerWrites(frequency)
       IN  pit' = PitWrite(PitWrite(PitWrite(pit, w[1]), w[2]), w[3])
TimerCommand == InitTimer(CommandFrequency) /\ UNCHANGED <<report, halted>>
NoCommand == UNCHANGED <<pit, asked, handlers, report, halted>>

Handle ==
    /\ ~halted /\ frames # << >> /\ Top.phase = "called"
    /\ Becomes("done")
    /\ \/ Top.by = "isr" /\ Unhandled /\ NameInterrupt
       \/ Top.by = "isr" /\ ~Unhandled /\ PageFault
       \/ Top.by = "irq" /\ NoCommand
       \/ Top.by = "irq" /\ handlers[IntNo] = "typing" /\ TimerCommand
    /\ UNCHANGED <<build, pc, out, gdt, idt, pic, iflag>>

(* popa, add esp, sti and iret: the flags come back with the address.      *)
Return ==
    /\ ~halted /\ frames # << >> /\ Top.phase = "done"
    /\ frames' = Front(frames)
    /\ iflag' = Top.iflag
    /\ halted' = (Top.stack[3] # "eip")
    /\ UNCHANGED <<build, pc, out, gdt, idt, device, asked, handlers, report>>

(* kassert, in main or in a handler.  The first sources had none.          *)
Kassert(line) ==
    /\ ~halted /\ pc > 3 /\ build = "current"
    /\ frames # << >> => Top.phase = "called"
    /\ iflag' = FALSE /\ halted' = TRUE
    /\ report' = [what |-> "assert", number |-> line, digits |-> DecDigits(line), words |-> {}]
    /\ UNCHANGED <<build, pc, out, gdt, idt, device, asked, handlers, frames>>

Next ==
    \/ Main
    \/ \E q \in Lines : Raise(q)
    \/ \E q \in Lines : Interrupt(q)
    \/ \E q \in {7, 15} : Spurious(q)
    \/ \E v \in Exceptions : Exception(v)
    \/ Call \/ Handle \/ Return
    \/ \E line \in Asserted : Kassert(line)

(* The processor goes on, and takes a request that can be taken again and   *)
(* again at some time.                                                      *)
Spec ==
    /\ Init /\ [][Next]_vars
    /\ WF_vars(Main) /\ WF_vars(Call) /\ WF_vars(Handle) /\ WF_vars(Return)
    /\ \A q \in Lines : SF_vars(Interrupt(q))
-----------------------------------------------------------------------------
(* What a handler is called with is what happened: line q arrives as       *)
(* number 32 + q and exception v as number v with its error code, through  *)
(* the controllers' vectors, the gates and what the stubs push; and iret   *)
(* finds the interrupted address where it looks for it.                    *)
EntersAsRaised ==
    \A f \in ToSet(frames) :
        /\ f.stack[1] = (IF f.cause[1] = "line" THEN 32 ELSE 0) + f.cause[2]
        /\ f.stack[2] = f.cause[3]
        /\ f.stack[3] = "eip"

(* Handlers of requests do not interrupt each other, which is what the     *)
(* shell and the scheduler, run from two of them, rely on.                 *)
HandlersAtomic ==
    Cardinality({i \in DOMAIN frames : frames[i].cause[1] = "line"}) <= 1

(* No line stays in service behind its handler, or it and all below it     *)
(* would be silent: requests of both controllers and spurious ones are     *)
(* acknowledged as often as they are taken, and never one for another.     *)
NothingLeftInService ==
    pc > 2 /\ (\A f \in ToSet(frames) : f.phase # "stub") => pic[1].isr = {} /\ pic[2].isr = {}

(* When interrupts can occur, every gate is present, for ring 0, clears the *)
(* interrupt flag and leads to a stub in the kernel's code; the segment the *)
(* stubs load is its data: both all of memory, in ring 0.                   *)
GatesInKernel ==
    pc > 3 => /\ \A v \in Vectors :
                     LET d == Selected(idt[v].sel)
                     IN  /\ idt[v].stub \in Stubs /\ Flat(d) /\ Kernels(d) /\ Executable(d)
                         /\ idt[v].flags \div 16 = 8 /\ ClearsFlag(idt[v])
              /\ LET d == Selected(KernelData) IN Flat(d) /\ Kernels(d) /\ Writable(d)

(* The number on the screen is the number of the interrupt, the address of *)
(* the fault or the line of the assertion, without leading zeros; a fault  *)
(* is called read-only exactly when it was a write, and never user-mode or *)
(* reserved.  Nothing is said of the word "present", see PageFault.        *)
ReportsName ==
    /\ Denotes(report.digits, IF report.what = "fault" THEN 16 ELSE 10) = report.number
    /\ Plain(report.digits)
    /\ report.what = "fault" =>
         report.words \ {"present"} = IF Top.cause[3] = 2 THEN {"read-only"} ELSE {}

(* The timer runs at the rate that was asked for last, whenever main is    *)
(* not in the middle of its three writes: nobody programs it between them, *)
(* although they come with interrupts enabled and the shell has writes of  *)
(* its own; and its handler is not there before it has a rate.  Whether    *)
(* the rate is what the shell says of it, one second, is another question. *)
TimerProgrammed ==
    ~At("pit") =>
        /\ pit.next = "low"
        /\ pit.count = IF asked = 0 THEN 0 ELSE Divisor(asked)
        /\ handlers[32] = "timer_callback" => asked # 0

(* A request is not forgotten: it is taken, unless the kernel has stopped,  *)
(* when again and again main is in its last loop and no line of higher      *)
(* priority requests.  The timer command breaks that condition, see Kernel. *)
Waits(q) == IF q < 8 THEN q \in pic[1].irr ELSE q - 8 \in pic[2].irr
Rank(q) == IF q < 8 THEN IF q < 2 THEN q ELSE q + 8 ELSE q - 6
MainRuns(q) == At("spin") /\ frames = << >> /\ \A h \in Lines : Rank(h) < Rank(q) => ~Waits(h)
RequestsTaken ==
    \A q \in Lines : []<>(MainRuns(q) \/ halted) => (Waits(q) ~> ~Waits(q) \/ halted)
=============================================================================
