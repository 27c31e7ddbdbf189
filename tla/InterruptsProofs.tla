-------------------------- MODULE InterruptsProofs --------------------------
(* Handlers of requests do not nest, are called for what happened, and are *)
(* acknowledged; the gates lead into the kernel.  For any set of devices,  *)
(* exceptions and addresses, any depth of nesting and any of the sources.  *)
EXTENDS Interrupts, FiniteSetTheorems, SequenceTheorems, WellFoundedInduction, TLAPS

ChipState ==
    [icw : Nat, offset : Nat, cascade : Nat, mask : SUBSET Int, irr : SUBSET Int,
     isr : SUBSET Int]

Causes == {"line", "exception"} \X (0..31) \X {0, 2}
Frame ==
    [cause : Causes, phase : {"stub", "called", "done"}, iflag : BOOLEAN,
     by : {"isr", "irq"}, stack : (0..47) \X {0, 2} \X {"eip"}]

(* What each controller expects after so many of the ten writes.           *)
Icw1 == [n \in 0..9 |-> CASE n = 0 -> 0 [] n \in 1..2 -> 2 [] n \in 3..4 -> 3
                          [] n \in 5..6 -> 4 [] OTHER -> 0]
Icw2 == [n \in 0..9 |-> CASE n < 2 -> 0 [] n \in 2..3 -> 2 [] n \in 4..5 -> 3
                          [] n \in 6..7 -> 4 [] OTHER -> 0]

Controllers ==
    /\ pic \in [1..2 -> ChipState]
    /\ out \in 0..9
    /\ pc = 1 => out = 0
    /\ pc < 3 => pic[1].icw = Icw1[out] /\ pic[2].icw = Icw2[out]
    /\ pc > 2 \/ (out > 2 /\ pc = 2) => pic[1].offset = 32
    /\ pc > 2 \/ (out > 3 /\ pc = 2) => pic[2].offset = 40

Progress ==
    /\ pc \in 1..Len(Steps)
    /\ pc > 3 => idt = InitIdt
    /\ iflag \in BOOLEAN
    /\ iflag \/ frames # << >> => pc > 3

OfLine(i) == frames[i].cause[1] = "line"

(* Interrupts are enabled in main only, so a request interrupts nothing    *)
(* but main, and only the context of main comes back with them enabled.    *)
Nesting ==
    /\ frames \in Seq(Frame)
    /\ iflag => frames = << >>
    /\ \A i \in 2..Len(frames) : ~frames[i].iflag /\ ~OfLine(i)

Named(f) ==
    /\ f.stack[1] = (IF f.cause[1] = "line" THEN 32 ELSE 0) + f.cause[2]
    /\ f.stack[2] = f.cause[3]
    /\ f.stack[3] = "eip"

IInv == Controllers /\ Progress /\ Nesting /\ \A i \in 1..Len(frames) : Named(frames[i])
-----------------------------------------------------------------------------
(* Where the steps of the three mains are.                                 *)
LEMMA StepPlaces ==
  ASSUME pc \in 1..Len(Steps)
  PROVE  /\ Len(Steps) \in 6..9
         /\ At("gdt") <=> pc = 1
         /\ At("pic") <=> pc = 2
         /\ At("idt") <=> pc = 3
         /\ At("sti") => pc > 3
         /\ At("pit") => pc > 3
         /\ At("spin") <=> pc = Len(Steps)
<1>1. CASE Steps = StepsNov15
  <2>1. /\ Len(Steps) = 6
        /\ Steps[1] = "gdt" /\ Steps[2] = "pic" /\ Steps[3] = "idt" /\ Steps[4] = "sti" /\ Steps[5] = "typing"
        /\ Steps[6] = "spin"
    BY <1>1 DEF StepsNov15
  <2> QED BY <2>1 DEF At
<1>2. CASE Steps = StepsDec3
  <2>1. /\ Len(Steps) = 7
        /\ Steps[1] = "gdt" /\ Steps[2] = "pic" /\ Steps[3] = "idt" /\ Steps[4] = "paging" /\ Steps[5] = "sti"
        /\ Steps[6] = "typing" /\ Steps[7] = "spin"
    BY <1>2 DEF StepsDec3
  <2> QED BY <2>1 DEF At
<1>3. CASE Steps = StepsNow
  <2>1. /\ Len(Steps) = 9
        /\ Steps[1] = "gdt" /\ Steps[2] = "pic" /\ Steps[3] = "idt" /\ Steps[4] = "sti" /\ Steps[5] = "timer"
        /\ Steps[6] = "pit" /\ Steps[7] = "paging" /\ Steps[8] = "typing" /\ Steps[9] = "spin"
    BY <1>3 DEF StepsNow
  <2> QED BY <2>1 DEF At
<1> QED BY <1>1, <1>2, <1>3 DEF Steps

LEMMA InitInv == Init => IInv
<1> SUFFICES ASSUME Init PROVE IInv
  OBVIOUS
<1>1. pc = 1 /\ out = 0 /\ frames = << >>
  BY DEF Init
<1>2. pic[1] = Chip(8) /\ pic[2] = Chip(112) /\ pic \in [1..2 -> ChipState]
  BY DEF Init, Chip, ChipState
<1>3. Controllers
  BY <1>1, <1>2 DEF Controllers, Chip, Icw1, Icw2
<1>4. pc \in 1..Len(Steps) /\ ~(pc > 3)
  BY <1>1 DEF Steps, StepsNov15, StepsDec3, StepsNow
<1>5. iflag = FALSE
  BY DEF Init
<1>6. Progress
  BY <1>1, <1>4, <1>5, Zenon DEF Progress
<1>7. Nesting
  BY <1>1 DEF Nesting
<1> QED BY <1>1, <1>3, <1>6, <1>7 DEF IInv
-----------------------------------------------------------------------------
(* What the controllers do with a byte.                                    *)
LEMMA CommandEffect ==
  ASSUME NEW chip \in ChipState
  PROVE  /\ Acknowledge(chip) \in ChipState
         /\ Acknowledge(chip).icw = chip.icw /\ Acknowledge(chip).offset = chip.offset
         /\ Command(chip, 32) = Acknowledge(chip)
         /\ Command(chip, 17) \in ChipState
         /\ Command(chip, 17).icw = 2 /\ Command(chip, 17).offset = chip.offset
         /\ Command(chip, 17).isr = {}
<1>1. Command(chip, 32) = Acknowledge(chip)
  <2>1. (32 \div 16) % 2 = 0
    OBVIOUS
  <2> QED BY <2>1 DEF Command
<1>2. Command(chip, 17) = [chip EXCEPT !.icw = 2, !.mask = {}, !.irr = {}, !.isr = {}]
  <2>1. (17 \div 16) % 2 = 1
    OBVIOUS
  <2> QED BY <2>1 DEF Command
<1>3. PICK s \in SUBSET Int : Acknowledge(chip) = [chip EXCEPT !.isr = s]
  <2> DEFINE l == CHOOSE l \in chip.isr : \A k \in chip.isr : l <= k
  <2>1. CASE chip.isr = {}
    <3>1. chip = [chip EXCEPT !.isr = chip.isr] /\ chip.isr \in SUBSET Int
      BY DEF ChipState
    <3> QED BY <2>1, <3>1 DEF Acknowledge
  <2>2. CASE chip.isr # {}
    <3>1. chip.isr \ {l} \in SUBSET Int
      BY DEF ChipState
    <3> QED BY <2>2, <3>1 DEF Acknowledge
  <2> QED BY <2>1, <2>2
<1>4. /\ Acknowledge(chip) \in ChipState
      /\ Acknowledge(chip).icw = chip.icw /\ Acknowledge(chip).offset = chip.offset
  BY <1>3 DEF ChipState
<1>5. Command(chip, 17) \in ChipState
  <2> DEFINE a == [chip EXCEPT !.icw = 2]
             b == [a EXCEPT !.mask = {}]
             c == [b EXCEPT !.irr = {}]
  <2>1. a \in ChipState
    BY DEF ChipState
  <2>2. b \in ChipState
    BY <2>1 DEF ChipState
  <2>3. c \in ChipState
    BY <2>2 DEF ChipState
  <2>4. Command(chip, 17) = [c EXCEPT !.isr = {}]
    BY <1>2
  <2> HIDE DEF a, b, c
  <2> QED BY <2>3, <2>4 DEF ChipState
<1>6. /\ Command(chip, 17).icw = 2 /\ Command(chip, 17).offset = chip.offset
      /\ Command(chip, 17).isr = {}
  BY <1>2 DEF ChipState
<1> QED BY <1>1, <1>4, <1>5, <1>6

LEMMA DataEffect ==
  ASSUME NEW chip \in ChipState, NEW value \in Nat
  PROVE  /\ Data(chip, value) \in ChipState
         /\ Data(chip, value).icw = CASE chip.icw = 2 -> 3 [] chip.icw = 3 -> 4
                                      [] chip.icw = 4 -> 0 [] OTHER -> chip.icw
         /\ Data(chip, value).offset = IF chip.icw = 2 THEN value ELSE chip.offset
         /\ Data(chip, value).isr = chip.isr
<1> DEFINE masked == {l \in 0..7 : (value \div 2^l) % 2 = 1}
<1>1. masked \in SUBSET Int
  OBVIOUS
<1>2. Data(chip, value) = CASE chip.icw = 2 -> [chip EXCEPT !.icw = 3, !.offset = value]
                            [] chip.icw = 3 -> [chip EXCEPT !.icw = 4, !.cascade = value]
                            [] chip.icw = 4 -> [chip EXCEPT !.icw = 0]
                            [] OTHER -> [chip EXCEPT !.mask = masked]
  BY DEF Data
<1> HIDE DEF masked
<1>3. CASE chip.icw = 2
  <2>1. Data(chip, value) = [chip EXCEPT !.icw = 3, !.offset = value]
    BY <1>2, <1>3
  <2>2. Data(chip, value) \in ChipState
    <3> DEFINE a == [chip EXCEPT !.icw = 3]
    <3>1. a \in ChipState
      BY DEF ChipState
    <3>2. Data(chip, value) = [a EXCEPT !.offset = value]
      BY <2>1
    <3> HIDE DEF a
    <3> QED BY <3>1, <3>2 DEF ChipState
  <2>3. /\ Data(chip, value).icw = 3 /\ Data(chip, value).offset = value
        /\ Data(chip, value).isr = chip.isr
    BY <2>1 DEF ChipState
  <2> QED BY <1>3, <2>2, <2>3
<1>4. CASE chip.icw = 3
  <2>1. Data(chip, value) = [chip EXCEPT !.icw = 4, !.cascade = value]
    BY <1>2, <1>4
  <2>2. Data(chip, value) \in ChipState
    <3> DEFINE a == [chip EXCEPT !.icw = 4]
    <3>1. a \in ChipState
      BY DEF ChipState
    <3>2. Data(chip, value) = [a EXCEPT !.cascade = value]
      BY <2>1
    <3> HIDE DEF a
    <3> QED BY <3>1, <3>2 DEF ChipState
  <2>3. /\ Data(chip, value).icw = 4 /\ Data(chip, value).offset = chip.offset
        /\ Data(chip, value).isr = chip.isr
    BY <2>1 DEF ChipState
  <2> QED BY <1>4, <2>2, <2>3
<1>5. CASE chip.icw = 4
  <2>1. Data(chip, value) = [chip EXCEPT !.icw = 0]
    BY <1>2, <1>5
  <2> QED BY <1>5, <2>1 DEF ChipState
<1>6. CASE chip.icw \notin {2, 3, 4}
  BY <1>1, <1>2, <1>6 DEF ChipState
<1> QED BY <1>3, <1>4, <1>5, <1>6

(* The ten writes leave the lines of the controllers at vectors 32 and 40. *)
LEMMA MainControllers ==
  ASSUME IInv, Main
  PROVE  /\ Controllers'
         /\ pic[1].isr = {} /\ pic[2].isr = {} => pic'[1].isr = {} /\ pic'[2].isr = {}
<1>1. pc \in 1..Len(Steps) /\ build' = build
  BY DEF IInv, Progress, Main
<1>2. CASE pc = 2
  <2>1. /\ out' = (out + 1) % 10 /\ pc' = IF out' = 0 THEN 3 ELSE 2
        /\ pic' = Outb(pic, PicWrites[out + 1][1], PicWrites[out + 1][2])
    <3>1. Len(PicWrites) = 10
      BY DEF PicWrites
    <3> QED BY <1>1, <1>2, <3>1, StepPlaces DEF Main, Sends
  <2>2. CASE out = 0
    <3>1. pic' = [pic EXCEPT ![1] = Command(@, 17)]
      BY <2>1, <2>2 DEF Outb, PicWrites
    <3> QED BY <1>2, <2>1, <2>2, <3>1, CommandEffect, DataEffect DEF IInv, Controllers, Icw1, Icw2
  <2>3. CASE out = 1
    <3>1. pic' = [pic EXCEPT ![2] = Command(@, 17)]
      BY <2>1, <2>3 DEF Outb, PicWrites
    <3> QED BY <1>2, <2>1, <2>3, <3>1, CommandEffect, DataEffect DEF IInv, Controllers, Icw1, Icw2
  <2>4. CASE out = 2
    <3>1. pic' = [pic EXCEPT ![1] = Data(@, 32)]
      BY <2>1, <2>4 DEF Outb, PicWrites
    <3> QED BY <1>2, <2>1, <2>4, <3>1, CommandEffect, DataEffect DEF IInv, Controllers, Icw1, Icw2
  <2>5. CASE out = 3
    <3>1. pic' = [pic EXCEPT ![2] = Data(@, 40)]
      BY <2>1, <2>5 DEF Outb, PicWrites
    <3> QED BY <1>2, <2>1, <2>5, <3>1, CommandEffect, DataEffect DEF IInv, Controllers, Icw1, Icw2
  <2>6. CASE out = 4
    <3>1. pic' = [pic EXCEPT ![1] = Data(@, 4)]
      BY <2>1, <2>6 DEF Outb, PicWrites
    <3> QED BY <1>2, <2>1, <2>6, <3>1, CommandEffect, DataEffect DEF IInv, Controllers, Icw1, Icw2
  <2>7. CASE out = 5
    <3>1. pic' = [pic EXCEPT ![2] = Data(@, 2)]
      BY <2>1, <2>7 DEF Outb, PicWrites
    <3> QED BY <1>2, <2>1, <2>7, <3>1, CommandEffect, DataEffect DEF IInv, Controllers, Icw1, Icw2
  <2>8. CASE out = 6
    <3>1. pic' = [pic EXCEPT ![1] = Data(@, 1)]
      BY <2>1, <2>8 DEF Outb, PicWrites
    <3> QED BY <1>2, <2>1, <2>8, <3>1, CommandEffect, DataEffect DEF IInv, Controllers, Icw1, Icw2
  <2>9. CASE out = 7
    <3>1. pic' = [pic EXCEPT ![2] = Data(@, 1)]
      BY <2>1, <2>9 DEF Outb, PicWrites
    <3> QED BY <1>2, <2>1, <2>9, <3>1, CommandEffect, DataEffect DEF IInv, Controllers, Icw1, Icw2
  <2>10. CASE out = 8
    <3>1. pic' = [pic EXCEPT ![1] = Data(@, 0)]
      BY <2>1, <2>10 DEF Outb, PicWrites
    <3> QED BY <1>2, <2>1, <2>10, <3>1, CommandEffect, DataEffect DEF IInv, Controllers, Icw1, Icw2
  <2>11. CASE out = 9
    <3>1. pic' = [pic EXCEPT ![2] = Data(@, 0)]
      BY <2>1, <2>11 DEF Outb, PicWrites
    <3> QED BY <1>2, <2>1, <2>11, <3>1, CommandEffect, DataEffect DEF IInv, Controllers, Icw1, Icw2
  <2> QED BY <2>2, <2>3, <2>4, <2>5, <2>6, <2>7, <2>8, <2>9, <2>10, <2>11 DEF IInv, Controllers
<1>3. CASE pc # 2
  <2>1. pic' = pic /\ out' \in 0..9 /\ (out' = out \/ pc > 3) /\ pc' \in {pc, pc + 1}
    <3>1. Len(TimerWrites(MainFrequency)) = 3
      BY DEF TimerWrites
    <3> QED BY <1>1, <1>3, <3>1, StepPlaces DEF Main, Sends, device, IInv, Controllers
  <2>2. pc = 1 => pc' = 2
    BY <1>1, StepPlaces DEF Main
  <2> QED BY <1>1, <1>3, <2>1, <2>2 DEF IInv, Controllers, Icw1, Icw2
<1> QED BY <1>2, <1>3
-----------------------------------------------------------------------------
(* main runs when nothing is interrupted.                                  *)
LEMMA MainInv == ASSUME IInv, Main PROVE IInv'
<1>1. frames = << >> /\ frames' = << >> /\ build' = build /\ pc \in 1..Len(Steps)
  BY DEF Main, InMain, IInv, Progress
<1>2. ~At("spin") /\ pc' \in {pc, pc + 1} /\ Steps' = Steps
  BY <1>1 DEF Main, Sends, Steps
<1>3. pc' \in 1..Len(Steps')
  BY <1>1, <1>2, StepPlaces
<1>4. pc' > 3 => idt' = InitIdt
  BY <1>1, <1>2, StepPlaces DEF Main, IInv, Progress
<1>5. iflag' \in BOOLEAN /\ (iflag' => iflag \/ At("sti"))
  BY Zenon DEF Main, IInv, Progress
<1>6. iflag \/ At("sti") => pc > 3
  BY <1>1, StepPlaces DEF IInv, Progress
<1>7. pc > 3 => pc' > 3
  BY <1>1, <1>2
<1>8. Progress'
  BY <1>1, <1>3, <1>4, <1>5, <1>6, <1>7, Zenon DEF Progress
<1>9. Nesting'
  BY <1>1 DEF Nesting
<1> QED BY <1>1, <1>8, <1>9, MainControllers DEF IInv

(* The gates of init_idt, and what their stubs push.                       *)
LEMMA GateOf ==
  ASSUME NEW v \in 0..47
  PROVE  /\ ClearsFlag(InitIdt[v])
         /\ v < 32 => InitIdt[v].stub = <<"isr", v>>
         /\ v >= 32 => InitIdt[v].stub = <<"irq", v - 32>>
<1> DEFINE stub == IF v < 32 THEN <<"isr", v>> ELSE <<"irq", v - 32>>
<1>1. InitIdt[v] = Gate(stub, KernelCode, 142)
  BY DEF InitIdt, Vectors
<1>2. InitIdt[v].stub = stub /\ InitIdt[v].flags = 142
  <2> HIDE DEF stub
  <2> QED BY <1>1 DEF Gate
<1>3. ClearsFlag(InitIdt[v])
  BY <1>2 DEF ClearsFlag
<1> QED BY <1>2, <1>3

Word == (0..47) \cup {"eip"}

LEMMA ThreeLong ==
  ASSUME NEW a \in Word, NEW b \in Word, NEW c \in Word,
         NEW s \in Seq(Word), Len(s) = 3, s[1] = a, s[2] = b, s[3] = c
  PROVE  s = <<a, b, c>>
  OBVIOUS

LEMMA Joined ==
  ASSUME NEW s \in Seq(Word), NEW t \in Seq(Word), NEW a \in Word, NEW b \in Word, NEW c \in Word,
         \/ Len(s) = 1 /\ Len(t) = 2 /\ s[1] = a /\ t[1] = b /\ t[2] = c
         \/ Len(s) = 2 /\ Len(t) = 1 /\ s[1] = a /\ s[2] = b /\ t[1] = c
  PROVE  s \o t = <<a, b, c>>
<1> DEFINE u == s \o t
<1>1. /\ u \in Seq(Word) /\ Len(u) = Len(s) + Len(t)
      /\ \A i \in 1..(Len(s) + Len(t)) : u[i] = IF i <= Len(s) THEN s[i] ELSE t[i - Len(s)]
  BY ConcatProperties, Zenon
<1> HIDE DEF u
<1>2. Len(u) = 3 /\ u[1] = a /\ u[2] = b /\ u[3] = c
  <2>1. CASE Len(s) = 1 /\ Len(t) = 2 /\ s[1] = a /\ t[1] = b /\ t[2] = c
    BY <1>1, <2>1
  <2>2. CASE Len(s) = 2 /\ Len(t) = 1 /\ s[1] = a /\ s[2] = b /\ t[1] = c
    BY <1>1, <2>2
  <2> QED BY <2>1, <2>2
<1>3. u \in Seq(Word)
  BY <1>1
<1>4. u = <<a, b, c>>
  BY <1>2, <1>3, ThreeLong
<1> QED BY <1>4 DEF u

LEMMA Concatenated ==
  ASSUME NEW a \in Word, NEW b \in Word, NEW c \in Word
  PROVE  <<a>> \o <<b, c>> = <<a, b, c>> /\ <<a, b>> \o <<c>> = <<a, b, c>>
<1> DEFINE s == <<a>>
           t == <<c>>
           ab == <<a, b>>
           bc == <<b, c>>
<1>1. s \in Seq(Word) /\ Len(s) = 1 /\ s[1] = a
  OBVIOUS
<1>2. t \in Seq(Word) /\ Len(t) = 1 /\ t[1] = c
  OBVIOUS
<1>3. ab \in Seq(Word) /\ Len(ab) = 2 /\ ab[1] = a /\ ab[2] = b
  OBVIOUS
<1>4. bc \in Seq(Word) /\ Len(bc) = 2 /\ bc[1] = b /\ bc[2] = c
  OBVIOUS
<1> HIDE DEF s, t, ab, bc
<1>5. s \o bc = <<a, b, c>>
  BY <1>1, <1>4, Joined
<1>6. ab \o t = <<a, b, c>>
  BY <1>2, <1>3, Joined
<1> QED BY <1>5, <1>6 DEF s, t, ab, bc

LEMMA PushedBy ==
  ASSUME NEW n \in 0..31, NEW code \in {0, 2}
  PROVE  /\ n < 16 => Pushed(<<"irq", n>>, <<"eip">>) = <<n + 32, 0, "eip">>
         /\ n \in ErrCodeStubs => Pushed(<<"isr", n>>, <<code, "eip">>) = <<n, code, "eip">>
         /\ n \notin ErrCodeStubs => Pushed(<<"isr", n>>, <<"eip">>) = <<n, 0, "eip">>
<1>1. n \in Word /\ code \in Word /\ 0 \in Word /\ "eip" \in Word /\ (n < 16 => n + 32 \in Word)
  BY DEF Word
<1>2. Pushed(<<"irq", n>>, <<"eip">>) = <<n + 32, 0>> \o <<"eip">>
  BY DEF Pushed
<1>3. n \in ErrCodeStubs => Pushed(<<"isr", n>>, <<code, "eip">>) = <<n>> \o <<code, "eip">>
  BY DEF Pushed
<1>4. n \notin ErrCodeStubs => Pushed(<<"isr", n>>, <<"eip">>) = <<n, 0>> \o <<"eip">>
  BY DEF Pushed
<1>5. n < 16 => Pushed(<<"irq", n>>, <<"eip">>) = <<n + 32, 0, "eip">>
  BY <1>1, <1>2, Concatenated, Zenon
<1>6. <<n>> \o <<code, "eip">> = <<n, code, "eip">> /\ <<n, 0>> \o <<"eip">> = <<n, 0, "eip">>
  BY <1>1, Concatenated, Zenon
<1> QED BY <1>3, <1>4, <1>5, <1>6, Zenon

(* A context is put on top of the others through a gate of init_idt, which *)
(* disables interrupts.                                                    *)
LEMMA EnterInv ==
  ASSUME IInv, NEW vector \in 0..47, NEW cause \in Causes, NEW pushed,
         Enter(vector, cause, pushed), Controllers', pc > 3, NEW stack,
         stack = Pushed(idt[vector].stub, pushed), stack \in (0..47) \X {0, 2} \X {"eip"},
         cause[1] = "line" => iflag,
         Named([cause |-> cause, stack |-> stack])
  PROVE  IInv'
<1> DEFINE f == [cause |-> cause, phase |-> "stub", iflag |-> iflag,
                 by |-> idt[vector].stub[1], stack |-> stack]
<1>1. frames' = Append(frames, f) /\ UNCHANGED <<build, pc, idt>>
  BY DEF Enter
<1>2. f \in Frame /\ Named(f)
  <2>1. idt[vector].stub[1] \in {"isr", "irq"}
    <3>1. idt = InitIdt
      BY DEF IInv, Progress
    <3>2. CASE vector < 32
      <4>1. idt[vector].stub = <<"isr", vector>>
        BY <3>1, <3>2, GateOf
      <4> QED BY <4>1
    <3>3. CASE vector >= 32
      <4>1. idt[vector].stub = <<"irq", vector - 32>>
        BY <3>1, <3>3, GateOf
      <4> QED BY <4>1
    <3> QED BY <3>2, <3>3
  <2>2. iflag \in BOOLEAN
    BY DEF IInv, Progress
  <2> QED BY <2>1, <2>2 DEF Frame, Named
<1>3. iflag' = FALSE
  <2>1. ClearsFlag(idt[vector])
    BY GateOf DEF IInv, Progress
  <2> QED BY <2>1, Zenon DEF Enter
<1>4. frames \in Seq(Frame)
  BY DEF IInv, Nesting
<1>5. /\ frames' \in Seq(Frame) /\ Len(frames') = Len(frames) + 1
      /\ \A i \in 1..Len(frames) : frames'[i] = frames[i]
      /\ frames'[Len(frames) + 1] = f
  BY <1>1, <1>2, <1>4
<1>6. f.cause = cause /\ f.iflag = iflag
  OBVIOUS
<1> HIDE DEF f
<1>7. Nesting'
  <2>1. ASSUME NEW i \in 2..Len(frames') PROVE ~frames'[i].iflag /\ frames'[i].cause[1] # "line"
    <3>1. CASE i \in 2..Len(frames)
      BY <1>4, <1>5, <3>1 DEF IInv, Nesting, OfLine
    <3>2. CASE i = Len(frames) + 1
      <4>1. frames # << >>
        BY <1>4, <2>1, <3>2
      <4>2. ~iflag
        BY <4>1 DEF IInv, Nesting
      <4> QED BY <1>5, <1>6, <3>2, <4>2
    <3> QED BY <1>4, <1>5, <3>1, <3>2
  <2> QED BY <1>3, <1>5, <2>1 DEF Nesting, OfLine
<1>8. \A i \in 1..Len(frames') : Named(frames'[i])
  BY <1>2, <1>4, <1>5 DEF IInv
<1>9. Progress'
  BY <1>1, <1>3 DEF IInv, Progress, Steps
<1> QED BY <1>7, <1>8, <1>9 DEF IInv

(* The request on line q arrives as number 32 + q.                         *)
LEMMA LineGate ==
  ASSUME IInv, iflag, NEW q \in 0..15
  PROVE  /\ pc > 3 /\ idt = InitIdt /\ VectorOf(q) = 32 + q /\ 32 + q \in 0..47
         /\ idt[32 + q].stub = <<"irq", q>>
<1>1. pc > 3 /\ idt = InitIdt
  BY DEF IInv, Progress
<1>2. VectorOf(q) = 32 + q /\ 32 + q \in 0..47
  <2>1. pc > 2
    BY <1>1, StepPlaces DEF IInv, Progress
  <2>2. pic[1].offset = 32 /\ pic[2].offset = 40
    BY <2>1 DEF IInv, Controllers
  <2> QED BY <2>2 DEF VectorOf
<1>3. 32 + q \in 0..47 /\ 32 + q >= 32 /\ (32 + q) - 32 = q
  OBVIOUS
<1> QED BY <1>1, <1>2, <1>3, GateOf

LEMMA LineInv ==
  ASSUME IInv, NEW q \in 0..15, iflag, Enter(VectorOf(q), <<"line", q, 0>>, <<"eip">>),
         Controllers'
  PROVE  IInv'
<1>1. pc > 3 /\ idt = InitIdt /\ VectorOf(q) = 32 + q /\ 32 + q \in 0..47
  BY LineGate
<1>3. idt[32 + q].stub = <<"irq", q>>
  BY LineGate
<1>4. Pushed(idt[32 + q].stub, <<"eip">>) = <<q + 32, 0, "eip">>
  <2>1. q \in 0..31 /\ q < 16 /\ 0 \in {0, 2}
    OBVIOUS
  <2> QED BY <1>3, <2>1, PushedBy
<1> DEFINE cause == <<"line", q, 0>>
           stack == <<q + 32, 0, "eip">>
<1>5. cause \in Causes /\ stack \in (0..47) \X {0, 2} \X {"eip"}
  BY DEF Causes
<1>6. Named([cause |-> cause, stack |-> stack])
  BY DEF Named
<1>7. Enter(32 + q, cause, <<"eip">>) /\ stack = Pushed(idt[32 + q].stub, <<"eip">>)
  BY <1>1, <1>4
<1> HIDE DEF cause, stack
<1> QED BY <1>1, <1>5, <1>6, <1>7, EnterInv

(* Exception v arrives as number v, with its error code or with 0.         *)
LEMMA ExceptionInv == ASSUME IInv, NEW v \in Exceptions, Exception(v) PROVE IInv'
<1>1. v \in 0..31 /\ v # 17 /\ pc > 3 /\ idt = InitIdt
  BY InterruptsAssumption DEF Exception, IInv, Progress
<1>2. PICK code \in FaultCodes(v) :
        Enter(v, <<"exception", v, code>>, IF v \in ErrorCodes THEN <<code, "eip">> ELSE <<"eip">>)
  BY DEF Exception
<1>3. code \in {0, 2} /\ (v # 14 => code = 0)
  BY <1>2 DEF FaultCodes
<1>4. Controllers'
  BY <1>2 DEF Exception, Enter, IInv, Controllers
<1>5. idt[v].stub = <<"isr", v>>
  BY <1>1, GateOf
<1>6. Pushed(idt[v].stub, IF v \in ErrorCodes THEN <<code, "eip">> ELSE <<"eip">>)
        = <<v, code, "eip">>
  <2>1. CASE v \in ErrorCodes
    <3>1. v \in ErrCodeStubs
      BY <1>1, <2>1 DEF ErrorCodes, ErrCodeStubs
    <3> QED BY <1>1, <1>3, <1>5, <2>1, <3>1, PushedBy
  <2>2. CASE v \notin ErrorCodes
    <3>1. v \notin ErrCodeStubs /\ code = 0
      BY <1>1, <1>3, <2>2 DEF ErrorCodes, ErrCodeStubs
    <3> QED BY <1>1, <1>3, <1>5, <2>2, <3>1, PushedBy
  <2> QED BY <2>1, <2>2
<1> DEFINE cause == <<"exception", v, code>>
           stack == <<v, code, "eip">>
           pushed == IF v \in ErrorCodes THEN <<code, "eip">> ELSE <<"eip">>
<1>7. cause \in Causes /\ stack \in (0..47) \X {0, 2} \X {"eip"} /\ cause[1] # "line"
  BY <1>1, <1>3 DEF Causes
<1>8. Named([cause |-> cause, stack |-> stack])
  BY <1>1 DEF Named
<1>9. Enter(v, cause, pushed) /\ stack = Pushed(idt[v].stub, pushed) /\ v \in 0..47
  BY <1>1, <1>2, <1>6
<1> HIDE DEF cause, stack, pushed
<1> QED BY <1>1, <1>4, <1>7, <1>8, <1>9, EnterInv

(* Whatever is requested, taken or acknowledged, the controllers keep what *)
(* they were told.                                                         *)
Kept(new, chip) == new \in ChipState /\ new.icw = chip.icw /\ new.offset = chip.offset

LEMMA KeptControllers ==
  ASSUME IInv, UNCHANGED <<pc, out>>, NEW one, NEW two, Kept(one, pic[1]), Kept(two, pic[2]),
         \/ pic' = pic
         \/ pic' = [pic EXCEPT ![1] = one]
         \/ pic' = [pic EXCEPT ![2] = two]
         \/ pic' = [pic EXCEPT ![1] = one, ![2] = two]
  PROVE  Controllers'
<1>1. pic \in [1..2 -> ChipState] /\ one \in ChipState /\ two \in ChipState
  BY DEF IInv, Controllers, Kept
<1>2. pic' \in [1..2 -> ChipState] /\ pic'[1] \in {pic[1], one} /\ pic'[2] \in {pic[2], two}
  BY <1>1
<1> QED BY <1>2 DEF IInv, Controllers, Kept

LEMMA KeptByRequest ==
  ASSUME NEW chip \in ChipState, NEW l \in Int
  PROVE  Kept(chip, chip) /\ Kept(Requesting(chip, l), chip) /\ Kept(Serving(chip, l), chip)
<1> DEFINE a == [chip EXCEPT !.irr = @ \ {l}]
<1>1. Kept(a, chip)
  BY DEF Kept, ChipState
<1>2. Serving(chip, l) = [a EXCEPT !.isr = @ \cup {l}]
  BY DEF Serving
<1> HIDE DEF a
<1>3. Kept(Serving(chip, l), chip)
  BY <1>1, <1>2 DEF Kept, ChipState
<1> QED BY <1>3 DEF Kept, ChipState, Requesting

(* A step that leaves main, the gates and the contexts alone.              *)
LEMMA RaiseInv == ASSUME IInv, NEW q \in Lines, Raise(q) PROVE IInv'
<1> DEFINE one == Requesting(pic[1], q)
           two == Requesting(pic[2], q - 8)
<1>1. q \in 0..15 /\ pic[1] \in ChipState /\ pic[2] \in ChipState
  BY InterruptsAssumption DEF IInv, Controllers
<1>2. Kept(one, pic[1]) /\ Kept(two, pic[2])
  BY <1>1, KeptByRequest
<1>3. pic' = [pic EXCEPT ![1] = one] \/ pic' = [pic EXCEPT ![2] = two]
  BY DEF Raise
<1>4. UNCHANGED <<build, pc, out, idt, iflag, frames>>
  BY DEF Raise
<1> HIDE DEF one, two
<1>5. Controllers'
  BY <1>2, <1>3, <1>4, KeptControllers
<1> QED BY <1>4, <1>5 DEF IInv, Progress, Steps, Nesting, OfLine

LEMMA InterruptInv == ASSUME IInv, NEW q \in Lines, Interrupt(q) PROVE IInv'
<1> DEFINE one == IF q < 8 THEN Serving(pic[1], q) ELSE Serving(pic[1], 2)
           two == Serving(pic[2], q - 8)
<1>1. q \in 0..15 /\ pic[1] \in ChipState /\ pic[2] \in ChipState
  BY InterruptsAssumption DEF IInv, Controllers
<1>2. Kept(one, pic[1]) /\ Kept(two, pic[2])
  BY <1>1, KeptByRequest
<1>3. pic' = [pic EXCEPT ![1] = one] \/ pic' = [pic EXCEPT ![1] = one, ![2] = two]
  BY DEF Interrupt
<1> HIDE DEF one, two
<1>4. Controllers'
  BY <1>2, <1>3, KeptControllers DEF Interrupt, Enter
<1> QED BY <1>1, <1>4, LineInv DEF Interrupt, Ready

LEMMA SpuriousInv == ASSUME IInv, NEW q \in {7, 15}, Spurious(q) PROVE IInv'
<1> DEFINE one == Serving(pic[1], 2)
<1>1. q \in 0..15 /\ pic[1] \in ChipState /\ pic[2] \in ChipState
  BY DEF IInv, Controllers
<1>2. Kept(one, pic[1]) /\ Kept(pic[2], pic[2])
  BY <1>1, KeptByRequest
<1>3. pic' = pic \/ pic' = [pic EXCEPT ![1] = one]
  BY DEF Spurious
<1> HIDE DEF one
<1>4. Controllers'
  BY <1>2, <1>3, KeptControllers DEF Spurious, Enter
<1> QED BY <1>1, <1>4, LineInv DEF Spurious, Ready
-----------------------------------------------------------------------------
(* Contexts that stay keep their cause, their flags and their stack.       *)
LEMMA FramesKept ==
  ASSUME IInv, frames' \in Seq(Frame), Len(frames') \in {Len(frames), Len(frames) - 1},
         \A i \in 1..Len(frames') :
            /\ frames'[i].cause = frames[i].cause /\ frames'[i].iflag = frames[i].iflag
            /\ frames'[i].stack = frames[i].stack,
         iflag' => frames' = << >>
  PROVE  Nesting' /\ \A i \in 1..Len(frames') : Named(frames'[i])
<1>1. Len(frames) \in Nat /\ Len(frames') \in Nat
  BY DEF IInv, Nesting
<1>2. \A i \in 1..Len(frames') : i \in 1..Len(frames) /\ (frames'[i].cause[1] = "line" <=> OfLine(i))
  BY <1>1 DEF OfLine
<1>3. Nesting'
  BY <1>1, <1>2 DEF IInv, Nesting, OfLine
<1>4. \A i \in 1..Len(frames') : Named(frames'[i])
  BY <1>1, <1>2 DEF IInv, Named
<1> QED BY <1>3, <1>4

(* A handler's progress changes its own context's phase.                   *)
LEMMA BecomesEffect ==
  ASSUME IInv, NEW phase \in {"stub", "called", "done"}, frames # << >>, Becomes(phase)
  PROVE  /\ Len(frames) \in Nat \ {0}
         /\ frames' \in Seq(Frame) /\ Len(frames') = Len(frames)
         /\ frames'[Len(frames)].phase = phase
         /\ \A i \in 1..Len(frames) :
              /\ frames'[i].cause = frames[i].cause /\ frames'[i].iflag = frames[i].iflag
              /\ frames'[i].stack = frames[i].stack /\ frames'[i].by = frames[i].by
              /\ i < Len(frames) => frames'[i] = frames[i]
<1>1. frames \in Seq(Frame) /\ Len(frames) \in Nat \ {0}
  BY DEF IInv, Nesting
<1>2. frames' = [frames EXCEPT ![Len(frames)] = [frames[Len(frames)] EXCEPT !.phase = phase]]
  BY DEF Becomes
<1>3. frames[Len(frames)] \in Frame
  BY <1>1
<1>4. [frames[Len(frames)] EXCEPT !.phase = phase] \in Frame
  BY <1>3 DEF Frame
<1>5. frames' \in Seq(Frame) /\ Len(frames') = Len(frames)
  BY <1>1, <1>2, <1>4
<1>6. \A i \in 1..Len(frames) :
         /\ frames[i] \in Frame
         /\ frames'[i] = IF i = Len(frames) THEN [frames[i] EXCEPT !.phase = phase] ELSE frames[i]
  BY <1>1, <1>2, <1>5
<1>7. frames'[Len(frames)].phase = phase
  <2>1. frames'[Len(frames)] = [frames[Len(frames)] EXCEPT !.phase = phase]
    BY <1>1, <1>6
  <2> QED BY <1>3, <2>1 DEF Frame
<1>8. \A i \in 1..Len(frames) :
         /\ frames'[i].cause = frames[i].cause /\ frames'[i].iflag = frames[i].iflag
         /\ frames'[i].stack = frames[i].stack /\ frames'[i].by = frames[i].by
  <2> TAKE i \in 1..Len(frames)
  <2>1. frames[i] \in Frame
    BY <1>6
  <2>2. frames'[i] \in {[frames[i] EXCEPT !.phase = phase], frames[i]}
    BY <1>6
  <2> QED BY <2>1, <2>2 DEF Frame
<1>9. ASSUME NEW i \in 1..Len(frames), i < Len(frames) PROVE frames'[i] = frames[i]
  <2>1. i # Len(frames)
    BY <1>1, <1>9
  <2> QED BY <1>6, <2>1
<1> QED BY <1>1, <1>5, <1>7, <1>8, <1>9, Zenon

LEMMA BecomesKept ==
  ASSUME IInv, NEW phase \in {"stub", "called", "done"}, frames # << >>, Becomes(phase),
         iflag' => iflag
  PROVE  Nesting' /\ \A i \in 1..Len(frames') : Named(frames'[i])
<1>1. ~iflag'
  BY DEF IInv, Nesting
<1> QED BY <1>1, BecomesEffect, FramesKept

LEMMA CallInv == ASSUME IInv, Call PROVE IInv'
<1>1. Nesting' /\ \A i \in 1..Len(frames') : Named(frames'[i])
  BY BecomesKept DEF Call
<1>2. Controllers'
  <2> DEFINE one == Acknowledge(pic[1])
             two == Acknowledge(pic[2])
  <2>1. pic[1] \in ChipState /\ pic[2] \in ChipState
    BY DEF IInv, Controllers
  <2>2. Kept(one, pic[1]) /\ Kept(two, pic[2])
    BY <2>1, CommandEffect DEF Kept
  <2>3. Command(pic[1], 32) = one /\ Command(pic[2], 32) = two
    BY <2>1, CommandEffect
  <2>4. \/ pic' = pic
        \/ pic' = [pic EXCEPT ![1] = one]
        \/ pic' = [pic EXCEPT ![1] = one, ![2] = two]
    <3> HIDE DEF one, two
    <3> QED BY <2>3 DEF Call, Acknowledged
  <2> HIDE DEF one, two
  <2> QED BY <2>2, <2>4, KeptControllers DEF Call
<1>3. Progress'
  <2>1. UNCHANGED <<build, pc, idt>> /\ iflag' = FALSE /\ frames # << >>
    BY DEF Call
  <2> QED BY <2>1 DEF IInv, Progress, Steps
<1> QED BY <1>1, <1>2, <1>3 DEF IInv

LEMMA HandleInv == ASSUME IInv, Handle PROVE IInv'
<1>1. UNCHANGED <<build, pc, out, idt, pic, iflag>> /\ frames # << >>
  BY DEF Handle
<1>2. Nesting' /\ \A i \in 1..Len(frames') : Named(frames'[i])
  BY <1>1, BecomesKept DEF Handle
<1> QED BY <1>1, <1>2 DEF IInv, Controllers, Progress, Steps

LEMMA ReturnFrames ==
  ASSUME IInv, Return
  PROVE  /\ frames \in Seq(Frame) /\ Len(frames) \in Nat \ {0}
         /\ frames' \in Seq(Frame) /\ Len(frames') = Len(frames) - 1
         /\ \A i \in 1..Len(frames') : frames'[i] = frames[i]
<1> DEFINE n == Len(frames) - 1
<1>1. frames \in Seq(Frame) /\ Len(frames) \in Nat \ {0}
  BY DEF Return, IInv, Nesting
<1>2. frames' = SubSeq(frames, 1, n)
  BY DEF Return, Front
<1>3. n \in Nat /\ n <= Len(frames)
  BY <1>1
<1> HIDE DEF n
<1>4. frames' \in Seq(Frame) /\ Len(frames') = n /\ \A i \in 1..n : frames'[i] = frames[i]
  BY <1>1, <1>2, <1>3
<1> QED BY <1>1, <1>4 DEF n

(* The flags that come back are those of the context on top.               *)
LEMMA ReturnInv == ASSUME IInv, Return PROVE IInv'
<1>1. UNCHANGED <<build, pc, out, idt, pic>> /\ frames # << >> /\ iflag' = frames[Len(frames)].iflag
  BY DEF Return, device, Top, Last
<1>2. frames \in Seq(Frame) /\ Len(frames) \in Nat \ {0}
  BY ReturnFrames
<1>3. /\ frames' \in Seq(Frame) /\ Len(frames') = Len(frames) - 1
      /\ \A i \in 1..Len(frames') : frames'[i] = frames[i]
  BY ReturnFrames
<1>4. iflag' \in BOOLEAN
  <2>1. frames[Len(frames)] \in Frame
    BY <1>2
  <2> QED BY <1>1, <2>1 DEF Frame
<1>5. iflag' => frames' = << >>
  <2>1. CASE Len(frames) = 1
    BY <1>2, <1>3, <2>1
  <2>2. CASE Len(frames) # 1
    <3>1. Len(frames) \in 2..Len(frames)
      BY <1>2, <2>2
    <3>2. ~frames[Len(frames)].iflag
      BY <3>1 DEF IInv, Nesting
    <3> QED BY <1>1, <3>2
  <2> QED BY <2>1, <2>2
<1>6. Nesting' /\ \A i \in 1..Len(frames') : Named(frames'[i])
  BY <1>2, <1>3, <1>5, FramesKept
<1>7. pc > 3
  BY <1>1 DEF IInv, Progress
<1> QED BY <1>1, <1>4, <1>6, <1>7 DEF IInv, Controllers, Progress, Steps

LEMMA KassertInv == ASSUME IInv, NEW line \in Asserted, Kassert(line) PROVE IInv'
<1>1. UNCHANGED <<build, pc, out, idt, pic, frames>> /\ iflag' = FALSE
  BY DEF Kassert, device
<1> QED BY <1>1 DEF IInv, Controllers, Progress, Steps, Nesting, OfLine
-----------------------------------------------------------------------------
LEMMA StepInv == IInv /\ [Next]_vars => IInv'
<1> SUFFICES ASSUME IInv, [Next]_vars PROVE IInv'
  OBVIOUS
<1>1. CASE Main
  BY <1>1, MainInv
<1>2. CASE \E q \in Lines : Raise(q) \/ Interrupt(q)
  BY <1>2, RaiseInv, InterruptInv
<1>3. CASE \E q \in {7, 15} : Spurious(q)
  BY <1>3, SpuriousInv
<1>4. CASE \E v \in Exceptions : Exception(v)
  BY <1>4, ExceptionInv
<1>5. CASE Call \/ Handle \/ Return
  BY <1>5, CallInv, HandleInv, ReturnInv
<1>6. CASE \E line \in Asserted : Kassert(line)
  BY <1>6, KassertInv
<1>7. CASE UNCHANGED vars
  BY <1>7 DEF vars, device, IInv, Controllers, Progress, Steps, Nesting, OfLine
<1> QED BY <1>1, <1>2, <1>3, <1>4, <1>5, <1>6, <1>7 DEF Next

(* At most one request is being handled at any depth of nesting: gates     *)
(* clear the flag, and iret sets it only where it was set.                 *)
LEMMA Alone == IInv => HandlersAtomic
<1> SUFFICES ASSUME IInv PROVE HandlersAtomic
  OBVIOUS
<1> DEFINE handled == {i \in DOMAIN frames : frames[i].cause[1] = "line"}
<1>1. handled \subseteq {1}
  <2> SUFFICES ASSUME NEW i \in handled PROVE i = 1
    OBVIOUS
  <2>1. i \in 1..Len(frames) /\ OfLine(i)
    BY DEF IInv, Nesting, OfLine
  <2> QED BY <2>1 DEF IInv, Nesting
<1>2. handled = {} \/ handled = {1}
  BY <1>1
<1>3. Cardinality(handled) \in {0, 1}
  BY <1>2, FS_EmptySet, FS_Singleton
<1> QED BY <1>3 DEF HandlersAtomic

THEOREM SpecHandlersAtomic == Spec => []HandlersAtomic
  BY InitInv, StepInv, Alone, PTL DEF Spec

(* A handler is called for what happened, in every state of the sources:   *)
(* number 32 + q for line q, number v and its code for exception v.        *)
THEOREM SpecEntersAsRaised == Spec => []EntersAsRaised
<1>1. IInv => EntersAsRaised
  <2> SUFFICES ASSUME IInv, NEW f \in ToSet(frames) PROVE Named(f)
    BY DEF EntersAsRaised, Named
  <2>1. PICK i \in DOMAIN frames : f = frames[i]
    BY DEF ToSet
  <2>2. i \in 1..Len(frames)
    BY DEF IInv, Nesting
  <2> QED BY <2>1, <2>2 DEF IInv
<1> QED BY <1>1, InitInv, StepInv, PTL DEF Spec
-----------------------------------------------------------------------------
(* A context whose stub has not run yet is on top, and the line it is for  *)
(* is all that can be in service.                                          *)
Phases ==
    \A i \in 1..Len(frames) :
        /\ i < Len(frames) => frames[i].phase = "called"
        /\ OfLine(i) <=> frames[i].by = "irq"

Entering(q) ==
    /\ frames # << >> /\ frames[Len(frames)].phase = "stub"
    /\ frames[Len(frames)].cause = <<"line", q, 0>>

InService ==
    \/ pic[1].isr = {} /\ pic[2].isr = {}
    \/ \E q \in 0..7 : Entering(q) /\ pic[1].isr = {q} /\ pic[2].isr = {}
    \/ \E q \in 8..15 : Entering(q) /\ pic[1].isr = {2} /\ pic[2].isr \in {{}, {q - 8}}

Quiet == pic[1].isr = {} /\ pic[2].isr = {}

LEMMA QuietTop ==
  ASSUME InService, frames # << >> => frames[Len(frames)].phase # "stub" PROVE Quiet
  BY DEF InService, Entering, Quiet

LEMMA LineServed ==
  ASSUME IInv, Phases, InService, NEW q \in 0..15, iflag,
         Enter(VectorOf(q), <<"line", q, 0>>, <<"eip">>),
         \/ q < 8 /\ pic' = [pic EXCEPT ![1] = Serving(@, q)]
         \/ q = 7 /\ pic' = pic
         \/ q >= 8 /\ pic' = [pic EXCEPT ![1] = Serving(@, 2), ![2] = Serving(@, q - 8)]
         \/ q = 15 /\ pic' = [pic EXCEPT ![1] = Serving(@, 2)]
  PROVE  Phases' /\ InService'
<1>1. frames = << >>
  BY DEF IInv, Nesting
<1>2. Quiet /\ pic \in [1..2 -> ChipState]
  BY <1>1, QuietTop DEF IInv, Controllers
<1> DEFINE f == [cause |-> <<"line", q, 0>>, phase |-> "stub", iflag |-> iflag,
                 by |-> idt[VectorOf(q)].stub[1],
                 stack |-> Pushed(idt[VectorOf(q)].stub, <<"eip">>)]
<1>3. f.by = "irq" /\ f.cause = <<"line", q, 0>> /\ f.phase = "stub"
  BY LineGate
<1>4. frames' = Append(frames, f)
  BY DEF Enter
<1> HIDE DEF f
<1>5. frames' # << >> /\ Len(frames') = 1 /\ frames'[1] = f
  BY <1>1, <1>4
<1>6. Phases'
  BY <1>3, <1>5 DEF Phases, OfLine
<1>7. Entering(q)'
  BY <1>3, <1>5 DEF Entering
<1>8. \A chip \in ChipState, l \in Int :
         chip.isr = {} => Serving(chip, l).isr = {l}
  BY DEF Serving, ChipState
<1>9. InService'
  <2>1. CASE q < 8 /\ pic'[1].isr \in {{}, {q}} /\ pic'[2].isr = {}
    BY <1>7, <2>1 DEF InService
  <2>2. CASE q >= 8 /\ pic'[1].isr = {2} /\ pic'[2].isr \in {{}, {q - 8}}
    BY <1>7, <2>2 DEF InService
  <2>3. pic[1] \in ChipState /\ pic[2] \in ChipState /\ pic[1].isr = {} /\ pic[2].isr = {}
    BY <1>2 DEF Quiet
  <2>4. /\ Serving(pic[1], q).isr = {q} /\ Serving(pic[1], 2).isr = {2}
        /\ Serving(pic[2], q - 8).isr = {q - 8}
    BY <1>8, <2>3
  <2> QED BY <1>2, <2>1, <2>2, <2>3, <2>4
<1> QED BY <1>6, <1>9

LEMMA ExceptionServed ==
  ASSUME IInv, Phases, InService, NEW v \in Exceptions, Exception(v)
  PROVE  Phases' /\ InService'
<1>1. PICK code \in FaultCodes(v) :
        Enter(v, <<"exception", v, code>>, IF v \in ErrorCodes THEN <<code, "eip">> ELSE <<"eip">>)
  BY DEF Exception
<1> DEFINE f == [cause |-> <<"exception", v, code>>, phase |-> "stub", iflag |-> iflag,
                 by |-> idt[v].stub[1],
                 stack |-> Pushed(idt[v].stub, IF v \in ErrorCodes THEN <<code, "eip">>
                                               ELSE <<"eip">>)]
<1>2. frames \in Seq(Frame) /\ Len(frames) \in Nat /\ pic' = pic
  BY DEF IInv, Nesting, Exception
<1>3. frames # << >> => frames[Len(frames)].phase = "called"
  BY DEF Exception, Last
<1>4. Quiet
  BY <1>3, QuietTop
<1>5. f.by = "isr" /\ f.cause[1] = "exception"
  <2>1. v \in 0..47 /\ v < 32 /\ idt = InitIdt
    BY InterruptsAssumption DEF Exception, IInv, Progress
  <2> QED BY <2>1, GateOf
<1>6. frames' = Append(frames, f)
  BY <1>1 DEF Enter
<1> HIDE DEF f
<1>7. Len(frames') = Len(frames) + 1 /\ frames'[Len(frames) + 1] = f
  BY <1>2, <1>6
<1>8. \A i \in 1..Len(frames) : frames'[i] = frames[i]
  BY <1>2, <1>6
<1>9. Phases'
  <2> SUFFICES ASSUME NEW i \in 1..Len(frames')
               PROVE  /\ i < Len(frames') => frames'[i].phase = "called"
                      /\ frames'[i].cause[1] = "line" <=> frames'[i].by = "irq"
    BY DEF Phases, OfLine
  <2>1. CASE i = Len(frames) + 1
    BY <1>2, <1>5, <1>7, <2>1
  <2>2. CASE i \in 1..Len(frames)
    <3>1. frames'[i].phase = "called"
      <4>1. CASE i = Len(frames)
        BY <1>2, <1>3, <1>8, <2>2, <4>1
      <4>2. CASE i < Len(frames)
        BY <1>8, <2>2, <4>2 DEF Phases
      <4> QED BY <1>2, <2>2, <4>1, <4>2
    <3> QED BY <1>8, <2>2, <3>1 DEF Phases, OfLine
  <2> QED BY <1>2, <1>7, <2>1, <2>2
<1> QED BY <1>2, <1>4, <1>9 DEF InService, Quiet

LEMMA BecomesPhases ==
  ASSUME IInv, Phases, NEW phase \in {"called", "done"}, frames # << >>, Becomes(phase)
  PROVE  Phases'
<1> SUFFICES ASSUME NEW i \in 1..Len(frames')
             PROVE  /\ i < Len(frames') => frames'[i].phase = "called"
                    /\ frames'[i].cause[1] = "line" <=> frames'[i].by = "irq"
  BY DEF Phases, OfLine
<1>1. i \in 1..Len(frames) /\ (i < Len(frames') => frames'[i] = frames[i])
      /\ frames'[i].cause = frames[i].cause /\ frames'[i].by = frames[i].by
  BY BecomesEffect
<1>2. Len(frames') = Len(frames)
  BY BecomesEffect
<1> QED BY <1>1, <1>2 DEF Phases, OfLine

(* The acknowledgement in the stub's call is for the line in service.      *)
LEMMA CallServed == ASSUME IInv, Phases, InService, Call PROVE Phases' /\ InService'
<1>1. Phases'
  BY BecomesPhases DEF Call
<1>2. pic \in [1..2 -> ChipState] /\ pic[1] \in ChipState /\ pic[2] \in ChipState
  BY DEF IInv, Controllers
<1>3. /\ Command(pic[1], 32) = Acknowledge(pic[1])
      /\ Command(pic[2], 32) = Acknowledge(pic[2])
  BY <1>2, CommandEffect
<1>4. \A chip \in ChipState : /\ chip.isr = {} => Acknowledge(chip).isr = {}
                              /\ \A l : chip.isr = {l} => Acknowledge(chip).isr = {}
  <2> TAKE chip \in ChipState
  <2>1. CASE chip.isr = {}
    BY <2>1 DEF Acknowledge
  <2>2. ASSUME NEW l, chip.isr = {l} PROVE Acknowledge(chip).isr = {}
    <3> DEFINE lowest == CHOOSE k \in chip.isr : \A j \in chip.isr : k <= j
    <3>1. \E k \in chip.isr : \A j \in chip.isr : k <= j
      BY <2>2 DEF ChipState
    <3>2. lowest \in chip.isr
      BY <3>1
    <3>3. Acknowledge(chip) = [chip EXCEPT !.isr = @ \ {lowest}]
      BY <2>2 DEF Acknowledge
    <3> HIDE DEF lowest
    <3> QED BY <2>2, <3>2, <3>3 DEF ChipState
  <2> QED BY <2>1, <2>2
<1> DEFINE top == frames[Len(frames)]
<1>5. Len(frames) \in 1..Len(frames) /\ Top = top /\ top.phase = "stub"
  BY DEF Call, Top, Last, IInv, Nesting
<1>6. IntNo = (IF top.cause[1] = "line" THEN 32 ELSE 0) + top.cause[2]
  BY <1>5 DEF IntNo, IInv, Named
<1>7. ASSUME top.by # "irq" PROVE Quiet'
  <2>1. \A q : ~Entering(q)
    BY <1>5, <1>7 DEF Phases, OfLine, Entering
  <2>2. Quiet
    BY <2>1 DEF InService, Quiet
  <2>3. pic' = pic
    BY <1>5, <1>7 DEF Call
  <2> QED BY <2>2, <2>3 DEF Quiet
<1>8. ASSUME top.by = "irq" PROVE Quiet'
  <2>1. pic' = IF IntNo >= 40
               THEN [pic EXCEPT ![1] = Acknowledge(pic[1]), ![2] = Acknowledge(pic[2])]
               ELSE [pic EXCEPT ![1] = Acknowledge(pic[1])]
    BY <1>3, <1>5, <1>8 DEF Call, Acknowledged
  <2>2. ASSUME Quiet PROVE Quiet'
    BY <1>2, <1>4, <2>1, <2>2 DEF Quiet
  <2>3. ASSUME NEW q \in 0..7, Entering(q), pic[1].isr = {q}, pic[2].isr = {} PROVE Quiet'
    <3>1. IntNo = 32 + q
      BY <1>6, <2>3 DEF Entering
    <3>2. pic' = [pic EXCEPT ![1] = Acknowledge(pic[1])]
      BY <2>1, <3>1
    <3> QED BY <1>2, <1>4, <2>3, <3>2 DEF Quiet
  <2>4. ASSUME NEW q \in 8..15, Entering(q), pic[1].isr = {2}, pic[2].isr \in {{}, {q - 8}}
        PROVE  Quiet'
    <3>1. IntNo = 32 + q
      BY <1>6, <2>4 DEF Entering
    <3>2. pic' = [pic EXCEPT ![1] = Acknowledge(pic[1]), ![2] = Acknowledge(pic[2])]
      BY <2>1, <3>1
    <3>3. Acknowledge(pic[1]).isr = {}
      BY <1>2, <1>4, <2>4
    <3>4. Acknowledge(pic[2]).isr = {}
      BY <1>2, <1>4, <2>4
    <3> QED BY <1>2, <3>2, <3>3, <3>4 DEF Quiet
  <2> QED BY <2>2, <2>3, <2>4 DEF InService, Quiet
<1>9. Quiet'
  BY <1>7, <1>8
<1> QED BY <1>1, <1>9 DEF InService, Quiet

LEMMA HandleServed == ASSUME IInv, Phases, InService, Handle PROVE Phases' /\ InService'
<1>1. Phases' /\ pic' = pic
  BY BecomesPhases DEF Handle
<1>2. Quiet
  BY QuietTop DEF Handle, Top, Last
<1> QED BY <1>1, <1>2 DEF InService, Quiet

LEMMA ReturnServed == ASSUME IInv, Phases, InService, Return PROVE Phases' /\ InService'
<1>1. Quiet /\ pic' = pic
  BY QuietTop DEF Return, Top, Last, device
<1>2. /\ Len(frames) \in Nat /\ Len(frames') = Len(frames) - 1
      /\ \A i \in 1..Len(frames') : frames'[i] = frames[i]
  BY ReturnFrames
<1>3. Phases'
  BY <1>2 DEF Phases, OfLine
<1> QED BY <1>1, <1>3 DEF InService, Quiet

LEMMA ServedStep ==
  IInv /\ Phases /\ InService /\ [Next]_vars => Phases' /\ InService'
<1> SUFFICES ASSUME IInv, Phases, InService, [Next]_vars PROVE Phases' /\ InService'
  OBVIOUS
<1>1. CASE Main
  <2>1. frames = << >> /\ frames' = << >>
    BY <1>1 DEF Main, InMain
  <2>2. Quiet
    BY <2>1, QuietTop
  <2> QED BY <1>1, <2>1, <2>2, MainControllers DEF InService, Quiet, Phases
<1>2. ASSUME NEW q \in Lines, Raise(q) PROVE Phases' /\ InService'
  <2>1. q \in 0..15 /\ pic \in [1..2 -> ChipState] /\ frames' = frames
    BY <1>2, InterruptsAssumption DEF IInv, Controllers, Raise
  <2>2. \A chip \in ChipState, l \in Int : Requesting(chip, l).isr = chip.isr
    BY DEF Requesting, ChipState
  <2>3. \/ pic' = [pic EXCEPT ![1] = Requesting(pic[1], q)]
        \/ pic' = [pic EXCEPT ![2] = Requesting(pic[2], q - 8)]
    BY <1>2 DEF Raise
  <2>4. pic'[1].isr = pic[1].isr /\ pic'[2].isr = pic[2].isr
    BY <2>1, <2>2, <2>3
  <2> QED BY <2>1, <2>4 DEF Phases, OfLine, InService, Entering
<1>3. ASSUME NEW q \in Lines, Interrupt(q) PROVE Phases' /\ InService'
  <2>1. q \in 0..15 /\ iflag /\ Enter(VectorOf(q), <<"line", q, 0>>, <<"eip">>)
    BY <1>3, InterruptsAssumption DEF Interrupt, Ready
  <2>2. \/ q < 8 /\ pic' = [pic EXCEPT ![1] = Serving(@, q)]
        \/ q >= 8 /\ pic' = [pic EXCEPT ![1] = Serving(@, 2), ![2] = Serving(@, q - 8)]
    BY <1>3, <2>1 DEF Interrupt
  <2> QED BY <2>1, <2>2, LineServed
<1>4. ASSUME NEW q \in {7, 15}, Spurious(q) PROVE Phases' /\ InService'
  <2>1. q \in 0..15 /\ iflag /\ Enter(VectorOf(q), <<"line", q, 0>>, <<"eip">>)
    BY <1>4 DEF Spurious, Ready
  <2>2. \/ q = 7 /\ pic' = pic
        \/ q = 15 /\ pic' = [pic EXCEPT ![1] = Serving(@, 2)]
    BY <1>4 DEF Spurious
  <2> QED BY <2>1, <2>2, LineServed
<1>5. ASSUME NEW v \in Exceptions, Exception(v) PROVE Phases' /\ InService'
  BY <1>5, ExceptionServed
<1>6. CASE Call \/ Handle \/ Return
  BY <1>6, CallServed, HandleServed, ReturnServed
<1>7. CASE UNCHANGED <<pic, frames>>
  BY <1>7 DEF Phases, OfLine, InService, Entering
<1>8. CASE (\E line \in Asserted : Kassert(line)) \/ UNCHANGED vars
  BY <1>7, <1>8 DEF Kassert, vars, device
<1> QED BY <1>1, <1>2, <1>3, <1>4, <1>5, <1>6, <1>8 DEF Next

(* Requests are acknowledged as often as they are taken and none for       *)
(* another: between the stubs' calls no line of any device is in service,  *)
(* spurious requests included.                                             *)
THEOREM SpecNothingLeft == Spec => []NothingLeftInService
<1>1. Init => Phases /\ InService
  BY DEF Init, Phases, InService, Chip
<1>2. IInv /\ Phases /\ InService => NothingLeftInService
  <2> SUFFICES ASSUME IInv, InService, \A f \in ToSet(frames) : f.phase # "stub" PROVE Quiet
    BY DEF NothingLeftInService, Quiet
  <2>1. frames # << >> => frames[Len(frames)] \in ToSet(frames)
    BY DEF IInv, Nesting, ToSet
  <2> QED BY <2>1, QuietTop
<1> QED BY <1>1, <1>2, InitInv, StepInv, ServedStep, PTL DEF Spec
-----------------------------------------------------------------------------
Tables == pc > 1 => gdt = IF build = "current" THEN InitGdt ELSE InitGdtEarly

LEMMA TablesStep == IInv /\ Tables /\ [Next]_vars => Tables'
<1> SUFFICES ASSUME IInv, Tables, [Next]_vars PROVE Tables'
  OBVIOUS
<1>1. CASE Main
  <2>1. pc \in 1..Len(Steps) /\ build' = build /\ pc' \in {pc, pc + 1}
    BY <1>1 DEF IInv, Progress, Main, Sends
  <2>2. CASE pc = 1
    BY <1>1, <2>1, <2>2, StepPlaces DEF Main, Tables
  <2>3. CASE pc # 1
    <3>1. ~At("gdt") /\ pc > 1
      BY <2>1, <2>3, StepPlaces
    <3>2. gdt' = gdt
      BY <1>1, <3>1 DEF Main
    <3> QED BY <2>1, <3>1, <3>2 DEF Tables
  <2> QED BY <2>2, <2>3
<1>2. CASE UNCHANGED <<build, pc, gdt>>
  BY <1>2 DEF Tables
<1> QED BY <1>1, <1>2 DEF Next, vars, Raise, Interrupt, Spurious, Exception, Enter, Call, Handle,
                          Return, Kassert

(* The descriptors of code and data are those of all memory, in ring 0.    *)
LEMMA Descriptors ==
  ASSUME NEW d, NEW access \in {154, 146}, d = Segment(Zero, All, access, 207)
  PROVE  Flat(d) /\ Kernels(d) /\ (access = 154 => Executable(d)) /\ (access = 146 => Writable(d))
<1>1. /\ d.base_low = 0 /\ d.base_middle = 0 % 256 /\ d.base_high = 0 \div 256
      /\ d.limit_low = 65535 /\ d.granularity = (65535 % 16) + (207 \div 16) * 16
      /\ d.access = access
  BY DEF Segment, Zero, All
<1> QED BY <1>1 DEF Flat, Kernels, Executable, Writable

(* Once interrupts can occur, every gate of every state of the sources     *)
(* leads to a stub in the kernel's code, in ring 0, with interrupts off.   *)
THEOREM SpecGatesInKernel == Spec => []GatesInKernel
<1>1. Init => Tables
  BY DEF Init, Tables
<1>2. IInv /\ Tables => GatesInKernel
  <2> SUFFICES ASSUME IInv, Tables, pc > 3 PROVE
         /\ \A v \in Vectors : LET d == Selected(idt[v].sel)
                               IN  /\ idt[v].stub \in Stubs /\ Flat(d) /\ Kernels(d)
                                   /\ Executable(d)
                                   /\ idt[v].flags \div 16 = 8 /\ ClearsFlag(idt[v])
         /\ LET d == Selected(KernelData) IN Flat(d) /\ Kernels(d) /\ Writable(d)
    BY DEF GatesInKernel
  <2>1. idt = InitIdt /\ pc > 1
    BY DEF IInv, Progress
  <2>2. gdt \in {InitGdt, InitGdtEarly}
    BY <2>1 DEF Tables
  <2>3. gdt[2] = Segment(Zero, All, 154, 207) /\ gdt[3] = Segment(Zero, All, 146, 207)
    BY <2>2 DEF InitGdt, InitGdtEarly
  <2>4. Selected(KernelCode) = gdt[2] /\ Selected(KernelData) = gdt[3]
    BY DEF Selected, KernelCode, KernelData
  <2>5. ASSUME NEW v \in Vectors PROVE idt[v].stub \in Stubs /\ idt[v].sel = KernelCode
    <3>1. v \in 0..47 /\ idt[v].sel = KernelCode
      BY <2>1 DEF InitIdt, Vectors, Gate
    <3>2. CASE v < 32
      <4>1. idt[v].stub = <<"isr", v>>
        BY <2>1, <3>1, <3>2, GateOf
      <4>2. v \in 0..31
        BY <3>1, <3>2
      <4> QED BY <3>1, <4>1, <4>2 DEF Stubs
    <3>3. CASE v >= 32
      <4>1. idt[v].stub = <<"irq", v - 32>>
        BY <2>1, <3>1, <3>3, GateOf
      <4>2. v - 32 \in 0..15
        BY <3>1, <3>3
      <4> QED BY <3>1, <4>1, <4>2 DEF Stubs
    <3> QED BY <3>1, <3>2, <3>3
  <2>6. ASSUME NEW v \in Vectors PROVE idt[v].flags \div 16 = 8 /\ ClearsFlag(idt[v])
    <3>1. idt[v].flags = 142
      BY <2>1 DEF InitIdt, Gate
    <3> QED BY <3>1 DEF ClearsFlag
  <2> QED BY <2>3, <2>4, <2>5, <2>6, Descriptors
<1> QED BY <1>1, <1>2, InitInv, StepInv, TablesStep, PTL DEF Spec
-----------------------------------------------------------------------------
(* Which of the three writes the timer expects: nobody but main has it     *)
(* wait in the middle of them, since the shell, which writes all three in  *)
(* one handler, is only called once main is through.                       *)
Pit == [next : {"low", "high"}, low : 0..255,
        count : {0, Divisor(MainFrequency), Divisor(CommandFrequency)}]

Timer ==
    /\ pit \in Pit /\ DOMAIN handlers = Vectors
    /\ pc # 2 /\ ~At("pit") => out = 0
    /\ ~At("pit") => pit.next = "low"
    /\ ~At("pit") => pit.count = IF asked = 0 THEN 0 ELSE Divisor(asked)
    /\ At("pit") => asked = MainFrequency
    /\ At("pit") => /\ out \in 0..2 /\ pit.next = (IF out = 2 THEN "high" ELSE "low")
                    /\ out = 2 => pit.low = Divisor(MainFrequency) % 256
    /\ \A n \in Vectors : handlers[n] = "typing" => At("spin")
    /\ handlers[32] = "timer_callback" /\ ~At("pit") => asked # 0

LEMMA Divisors ==
    /\ Divisor(MainFrequency) = 23863 /\ Divisor(CommandFrequency) = 1
    /\ 23863 % 256 = 55 /\ (23863 \div 256) % 256 = 93 /\ 55 + 256 * 93 = 23863
    /\ 1 % 256 = 1 /\ (1 \div 256) % 256 = 0 /\ 1 + 256 * 0 = 1
<1>1. 1193180 \div 50 = 23863 /\ 1193180 \div 1193180 = 1
  OBVIOUS
<1> QED BY <1>1 DEF Divisor, MainFrequency, CommandFrequency

(* What the three writes do to a timer.                                    *)
AnyPit == [next : {"low", "high"}, low : 0..255, count : Nat]

LEMMA PitEffect ==
  ASSUME NEW p \in AnyPit, NEW w, w[2] \in 0..255
  PROVE  /\ PitWrite(p, w) \in AnyPit
         /\ w[1] = 67 => /\ PitWrite(p, w).next = "low" /\ PitWrite(p, w).low = p.low
                         /\ PitWrite(p, w).count = p.count
         /\ w[1] = 64 /\ p.next = "low" =>
              /\ PitWrite(p, w).next = "high" /\ PitWrite(p, w).low = w[2]
              /\ PitWrite(p, w).count = p.count
         /\ w[1] = 64 /\ p.next = "high" =>
              /\ PitWrite(p, w).next = "low" /\ PitWrite(p, w).low = p.low
              /\ PitWrite(p, w).count = p.low + 256 * w[2]
<1> DEFINE r == PitWrite(p, w)
<1>1. CASE w[1] = 67
  <2>1. r = [p EXCEPT !.next = "low"]
    BY <1>1 DEF PitWrite
  <2> HIDE DEF r
  <2>2. r \in AnyPit /\ r.next = "low" /\ r.low = p.low /\ r.count = p.count
    BY <2>1 DEF AnyPit
  <2> QED BY <1>1, <2>2 DEF r
<1>2. CASE w[1] # 67 /\ w[1] = 64 /\ p.next = "low"
  <2> DEFINE z == [p EXCEPT !.low = w[2]]
  <2>1. r = [z EXCEPT !.next = "high"]
    BY <1>2 DEF PitWrite
  <2>2. z \in AnyPit /\ z.low = w[2] /\ z.count = p.count
    BY DEF AnyPit
  <2> HIDE DEF r, z
  <2>3. r \in AnyPit /\ r.next = "high" /\ r.low = w[2] /\ r.count = p.count
    BY <2>1, <2>2 DEF AnyPit
  <2> QED BY <1>2, <2>3 DEF r
<1>3. CASE w[1] # 67 /\ ~(w[1] = 64 /\ p.next = "low")
  <2> DEFINE c == p.low + 256 * w[2]
             z == [p EXCEPT !.count = c]
  <2>1. r = [z EXCEPT !.next = "low"]
    BY <1>3 DEF PitWrite
  <2>2. c \in Nat
    <3>1. p.low \in Nat /\ w[2] \in Nat
      BY DEF AnyPit
    <3> DEFINE l == p.low
               h == w[2]
    <3> HIDE DEF l, h
    <3>2. l \in Nat /\ h \in Nat => l + 256 * h \in Nat
      OBVIOUS
    <3> QED BY <3>1, <3>2 DEF l, h
  <2> HIDE DEF c
  <2>3. z \in AnyPit /\ z.low = p.low /\ z.count = c
    BY <2>2 DEF AnyPit
  <2> HIDE DEF r, z
  <2>4. r \in AnyPit /\ r.next = "low" /\ r.low = p.low /\ r.count = c
    BY <2>1, <2>3 DEF AnyPit
  <2> QED BY <1>3, <2>4 DEF r, c
<1> QED BY <1>1, <1>2, <1>3

LEMMA PitsAre == \A p : p \in Pit <=> p \in AnyPit /\ p.count \in {0, 23863, 1}
  BY Divisors DEF Pit, AnyPit

LEMMA Writes ==
  /\ TimerWrites(MainFrequency)[1] = <<67, 54>> /\ TimerWrites(MainFrequency)[2] = <<64, 55>>
  /\ TimerWrites(MainFrequency)[3] = <<64, 93>>
  /\ TimerWrites(CommandFrequency)[1] = <<67, 54>> /\ TimerWrites(CommandFrequency)[2] = <<64, 1>>
  /\ TimerWrites(CommandFrequency)[3] = <<64, 0>>
  BY Divisors DEF TimerWrites

(* All three, one after the other, program what was asked for.             *)
LEMMA Programmed ==
  ASSUME NEW p \in Pit, NEW w, w = TimerWrites(CommandFrequency)
  PROVE  LET r == PitWrite(PitWrite(PitWrite(p, w[1]), w[2]), w[3])
         IN  r \in Pit /\ r.next = "low" /\ r.count = 1
<1> DEFINE w1 == w[1]
           w2 == w[2]
           w3 == w[3]
           a == PitWrite(p, w1)
           b == PitWrite(a, w2)
           r == PitWrite(b, w3)
<1>1. w1[1] = 67 /\ w1[2] = 54 /\ w2[1] = 64 /\ w2[2] = 1 /\ w3[1] = 64 /\ w3[2] = 0
  BY Writes
<1>2. p \in AnyPit
  BY PitsAre
<1> HIDE DEF w1, w2, w3
<1>3. w1[2] \in 0..255 /\ w2[2] \in 0..255 /\ w3[2] \in 0..255
  BY <1>1
<1>4. a \in AnyPit /\ a.next = "low"
  BY <1>1, <1>2, <1>3, PitEffect
<1> HIDE DEF a
<1>5. b \in AnyPit /\ b.next = "high" /\ b.low = 1
  <2>1. w2[1] = 64 /\ a.next = "low" =>
              /\ PitWrite(a, w2).next = "high" /\ PitWrite(a, w2).low = w2[2]
              /\ PitWrite(a, w2) \in AnyPit
    BY <1>4, <1>3, PitEffect
  <2> QED BY <1>1, <1>4, <2>1
<1> HIDE DEF b
<1>6. r \in AnyPit /\ r.next = "low" /\ r.count = 1 + 256 * 0
  <2>1. w3[1] = 64 /\ b.next = "high" =>
              /\ PitWrite(b, w3).next = "low" /\ PitWrite(b, w3).count = b.low + 256 * w3[2]
              /\ PitWrite(b, w3) \in AnyPit
    BY <1>5, <1>3, PitEffect
  <2> QED BY <1>1, <1>5, <2>1
<1>7. r \in Pit /\ r.count = 1
  BY <1>6, PitsAre, Divisors
<1> QED BY <1>6, <1>7 DEF a, b, w1, w2, w3

(* Where the timer is programmed, and that the shell comes last.           *)
LEMMA TimerPlaces ==
  ASSUME pc \in 1..Len(Steps)
  PROVE  /\ At("pit") => pc # 2 /\ ~At("spin") /\ ~At("typing") /\ ~At("timer") /\ Steps[pc + 1] # "pit"
         /\ At("pit") => pc + 1 \in 1..Len(Steps)
         /\ At("timer") => Steps[pc + 1] = "pit"
         /\ At("typing") => Steps[pc + 1] = "spin"
         /\ ~At("timer") /\ ~At("pit") /\ ~At("spin") => Steps[pc + 1] # "pit"
         /\ Steps[1] # "pit" /\ Steps[2] # "pit"
<1>1. CASE Steps = StepsNov15
  BY <1>1 DEF StepsNov15, At
<1>2. CASE Steps = StepsDec3
  BY <1>2 DEF StepsDec3, At
<1>3. CASE Steps = StepsNow
  BY <1>3 DEF StepsNow, At
<1> QED BY <1>1, <1>2, <1>3 DEF Steps

LEMMA TimerInit == Init => Timer
<1> SUFFICES ASSUME Init PROVE Timer
  OBVIOUS
<1>1. pc = 1 /\ out = 0 /\ pit = [next |-> "low", low |-> 0, count |-> 0] /\ asked = 0
      /\ handlers = [n \in Vectors |-> "null"]
  BY DEF Init
<1>2. ~At("pit")
  <2>1. pc \in 1..Len(Steps)
    BY InitInv DEF IInv, Progress
  <2> QED BY <1>1, <2>1, TimerPlaces DEF At
<1>3. pit \in Pit
  BY <1>1 DEF Pit
<1>4. 32 \in Vectors
  BY DEF Vectors
<1> QED BY <1>1, <1>2, <1>3, <1>4 DEF Timer

(* main's writes, one at a time; the other steps of main leave the timer.  *)
LEMMA TimerMain == ASSUME IInv, Timer, Main PROVE Timer'
<1>1. /\ pc \in 1..Len(Steps) /\ Steps' = Steps /\ ~At("spin") /\ out \in 0..9
      /\ handlers' = [n \in Vectors |->
             CASE At("timer")  /\ n = 32 -> "timer_callback"
               [] At("paging") /\ n = 14 -> "page_fault"
               [] At("typing") /\ n = 33 -> "typing"
               [] OTHER -> handlers[n]]
      /\ asked' = IF At("timer") THEN MainFrequency ELSE asked
  BY DEF Main, IInv, Progress, Controllers, Steps
<1>2. \A n \in Vectors : handlers[n] # "typing"
  BY <1>1 DEF Timer
<1>3. CASE At("pit")
  <2>1. /\ out' = (out + 1) % 3 /\ pc' = IF out' = 0 THEN pc + 1 ELSE pc
        /\ pit' = PitWrite(pit, TimerWrites(MainFrequency)[out + 1])
    <3>1. Len(TimerWrites(MainFrequency)) = 3 /\ ~At("pic")
      BY <1>1, <1>3, TimerPlaces, StepPlaces DEF TimerWrites
    <3> QED BY <1>3, <3>1 DEF Main, Sends
  <2>2. handlers' = [n \in Vectors |-> CASE At("paging") /\ n = 14 -> "page_fault"
                                         [] OTHER -> handlers[n]]
    BY <1>1, <1>3, TimerPlaces
  <2>3. (\A n \in Vectors : handlers'[n] # "typing") /\ DOMAIN handlers' = Vectors
    BY <1>2, <2>2
  <2>9. asked = MainFrequency /\ asked' = MainFrequency
    BY <1>1, <1>3, TimerPlaces DEF Timer
  <2>4. pit \in AnyPit /\ pit.count \in {0, 23863, 1}
    BY PitsAre DEF Timer
  <2> DEFINE w == TimerWrites(MainFrequency)[out + 1]
  <2>5. /\ out = 0 => w[1] = 67 /\ w[2] = 54
        /\ out = 1 => w[1] = 64 /\ w[2] = 55
        /\ out = 2 => w[1] = 64 /\ w[2] = 93
    BY Writes
  <2> HIDE DEF w
  <2>6. CASE out = 0
    <3>1. pit' \in AnyPit /\ pit'.next = "low" /\ pit'.count = pit.count
      BY <2>1, <2>4, <2>5, <2>6, PitEffect DEF w
    <3>2. out' = 1 /\ pc' = pc
      BY <2>1, <2>6
    <3> QED BY <1>1, <1>3, <2>3, <2>4, <2>9, <3>1, <3>2, PitsAre DEF Timer, At
  <2>7. CASE out = 1
    <3>1. pit.next = "low"
      BY <1>3, <2>7 DEF Timer
    <3>2. pit' \in AnyPit /\ pit'.next = "high" /\ pit'.low = 55 /\ pit'.count = pit.count
      BY <2>1, <2>4, <2>5, <2>7, <3>1, PitEffect DEF w
    <3>3. out' = 2 /\ pc' = pc
      BY <2>1, <2>7
    <3> QED BY <1>1, <1>3, <2>3, <2>4, <2>9, <3>2, <3>3, PitsAre, Divisors DEF Timer, At
  <2>8. CASE out = 2
    <3>1. pit.next = "high" /\ pit.low = 55
      BY <1>3, <2>8, Divisors DEF Timer
    <3>2. pit' \in AnyPit /\ pit'.next = "low" /\ pit'.count = 55 + 256 * 93
      BY <2>1, <2>4, <2>5, <2>8, <3>1, PitEffect DEF w
    <3>3. pit' \in Pit /\ pit'.count = 23863
      BY <3>2, PitsAre, Divisors
    <3>4. out' = 0 /\ pc' = pc + 1
      BY <2>1, <2>8
    <3>5. ~At("pit")' /\ pc' # 2
      BY <1>1, <1>3, <3>4, TimerPlaces, StepPlaces DEF At
    <3>6. MainFrequency # 0 /\ Divisor(MainFrequency) = 23863
      BY Divisors DEF MainFrequency
    <3> QED BY <2>3, <2>9, <3>2, <3>3, <3>4, <3>5, <3>6 DEF Timer
  <2> QED BY <1>3, <2>6, <2>7, <2>8 DEF Timer
<1>4. CASE ~At("pit")
  <2>1. pit' = pit
    BY <1>4 DEF Main, device
  <2>2. /\ pc' \in {pc, pc + 1} /\ (pc' = pc => pc = 2)
        /\ (pc # 2 => pc' = pc + 1 /\ out' = out) /\ (pc' # pc /\ pc = 2 => out' = 0)
    <3>1. Len(PicWrites) = 10
      BY DEF PicWrites
    <3> QED BY <1>1, <1>4, <3>1, StepPlaces DEF Main, Sends
  <2>3. DOMAIN handlers' = Vectors
    BY <1>1
  <2>4. pc' # 2 => out' = 0
    BY <1>4, <2>2 DEF Timer
  <2>5. \A n \in Vectors : handlers'[n] = "typing" => At("typing")
    BY <1>1, <1>2
  <2>6. At("typing") => At("spin")'
    <3>1. At("typing") => pc # 2
      BY <1>1, StepPlaces DEF At
    <3> QED BY <1>1, <2>2, <3>1, TimerPlaces DEF At
  <2>7. pit.next = "low" /\ (handlers[32] = "timer_callback" => asked # 0)
        /\ pit.count = IF asked = 0 THEN 0 ELSE Divisor(asked)
    BY <1>4 DEF Timer
  <2>8. At("pit")' => pc' = pc + 1 /\ out' = 0
    BY <1>1, <1>4, <2>2, <2>4, TimerPlaces DEF At
  <2>9. 32 \in Vectors /\ (handlers'[32] = "timer_callback" => handlers[32] = "timer_callback" \/ At("timer"))
    BY <1>1 DEF Vectors
  <2>10. At("timer") => At("pit")'
    <3>1. At("timer") => pc # 2
      BY <1>1, StepPlaces DEF At
    <3> QED BY <1>1, <2>2, <3>1, TimerPlaces DEF At
  <2>11. asked' = IF At("timer") THEN MainFrequency ELSE asked
    BY <1>1
  <2>12. At("pit")' => At("timer")
    <3>1. At("pit")' => Steps[pc + 1] = "pit"
      BY <1>1, <2>8 DEF At
    <3> QED BY <1>1, <1>4, <3>1, TimerPlaces
  <2>13. ~At("pit")' => pit'.count = IF asked' = 0 THEN 0 ELSE Divisor(asked')
    BY <2>1, <2>7, <2>10, <2>11
  <2>14. At("pit")' => asked' = MainFrequency
    BY <2>11, <2>12
  <2>15. handlers'[32] = "timer_callback" /\ ~At("pit")' => asked' # 0
    BY <2>7, <2>9, <2>10, <2>11
  <2>16. pit' \in Pit /\ pit'.next = "low"
    BY <2>1, <2>7 DEF Timer
  <2>17. \A n \in Vectors : handlers'[n] = "typing" => At("spin")'
    BY <2>5, <2>6
  <2>18. At("pit")' => out' = 0
    BY <2>8
  <2> QED BY <2>3, <2>4, <2>13, <2>14, <2>15, <2>16, <2>17, <2>18 DEF Timer
<1> QED BY <1>3, <1>4

(* The timer command is one step of a handler that main has set up last.   *)
LEMMA TimerHandle == ASSUME IInv, Timer, Handle PROVE Timer'
<1>1. UNCHANGED <<build, pc, out>> /\ Steps' = Steps
  BY DEF Handle, Steps
<1>2. CASE UNCHANGED <<pit, asked, handlers>>
  BY <1>1, <1>2 DEF Timer, At
<1>3. CASE Top.by = "irq" /\ handlers[IntNo] = "typing" /\ TimerCommand
  <2>1. IntNo \in Vectors
    <3>1. frames \in Seq(Frame) /\ Len(frames) \in Nat \ {0}
      BY DEF Handle, IInv, Nesting
    <3>2. Top \in Frame
      BY <3>1 DEF Top, Last
    <3> QED BY <3>2 DEF IntNo, Frame, Vectors
  <2>2. At("spin") /\ ~At("pit") /\ pc \in 1..Len(Steps)
    BY <1>3, <2>1, TimerPlaces DEF Timer, IInv, Progress
  <2>3. /\ handlers' = [handlers EXCEPT ![32] = "timer_callback"] /\ asked' = CommandFrequency
        /\ LET w == TimerWrites(CommandFrequency)
           IN  pit' = PitWrite(PitWrite(PitWrite(pit, w[1]), w[2]), w[3])
    BY <1>3 DEF TimerCommand, InitTimer
  <2>4. pit' \in Pit /\ pit'.next = "low" /\ pit'.count = 1
    <3>1. pit \in Pit
      BY DEF Timer
    <3> QED BY <2>3, <3>1, Programmed
  <2>5. DOMAIN handlers' = Vectors
    BY <2>3 DEF Timer
  <2>6. At("spin")' /\ ~At("pit")'
    BY <1>1, <2>2 DEF At
  <2>7. pc' # 2 => out' = 0
    BY <1>1, <2>2 DEF Timer
  <2>8. CommandFrequency # 0 /\ Divisor(CommandFrequency) = 1
    BY Divisors DEF CommandFrequency
  <2> QED BY <2>3, <2>4, <2>5, <2>6, <2>7, <2>8 DEF Timer
<1> QED BY <1>2, <1>3 DEF Handle, NameInterrupt, PageFault, NoCommand

(* Nobody programs the timer between the three writes of somebody else,    *)
(* although main's come with interrupts enabled: it has the divisor of the *)
(* frequency that was asked for last, in any of the sources.               *)
THEOREM SpecTimerProgrammed == Spec => []TimerProgrammed
<1>1. IInv /\ Timer /\ [Next]_vars => Timer'
  <2> SUFFICES ASSUME IInv, Timer, [Next]_vars PROVE Timer'
    OBVIOUS
  <2>1. CASE UNCHANGED <<build, pc, out, pit, asked, handlers>>
    BY <2>1 DEF Timer, At, Steps
  <2> QED BY <2>1, TimerMain, TimerHandle
        DEF Next, vars, device, Raise, Interrupt, Spurious, Exception, Enter, Call, Return, Kassert
<1>2. Timer => TimerProgrammed
  BY Divisors DEF Timer, TimerProgrammed, Pit
<1> QED BY <1>1, <1>2, InitInv, StepInv, TimerInit, PTL DEF Spec
-----------------------------------------------------------------------------
(* What is on the screen.  First, induction over the digits and rounds of  *)
(* the two number formats: a set that holds 0, and n + 1 with every n, has *)
(* all numbers, because there is no least one that it has not.             *)
LEMMA SetInduction ==
  ASSUME NEW S, 0 \in S, \A n \in Nat : n \in S => n + 1 \in S
  PROVE  Nat \subseteq S
<1> DEFINE T == Nat \ S
           R == OpToRel(<, Nat)
<1>1. CASE T # {}
  <2>1. IsWellFoundedOn(R, Nat)
    BY NatLessThanWellFounded, Zenon
  <2>2. \A y, x \in Nat : y < x => <<y, x>> \in R
    BY DEF OpToRel
  <2> HIDE DEF R
  <2>3. PICK x \in T : \A y \in T : ~(<<y, x>> \in R)
    <3> HIDE DEF T
    <3>1. T \subseteq Nat
      BY DEF T
    <3> QED BY <1>1, <2>1, <3>1, WFMin, Zenon
  <2>4. x \in Nat /\ x # 0 /\ x \notin S
    BY <2>3
  <2>5. x - 1 \in Nat /\ x - 1 < x /\ (x - 1) + 1 = x
    BY <2>4
  <2>6. x - 1 \in S
    BY <2>2, <2>3, <2>4, <2>5
  <2> QED BY <2>4, <2>5, <2>6
<1> QED BY <1>1

LEMMA StrongInduction ==
  ASSUME NEW T, NEW M \in Nat,
         \A k \in 0..M : (\A j \in 0..(k - 1) : j \in T) => k \in T
  PROVE  0..M \subseteq T
<1> DEFINE U == {n \in Nat : \A j \in 0..n : j \in 0..M => j \in T}
<1>1. 0 \in U
  <2>1. 0 \in T
    OBVIOUS
  <2> QED BY <2>1
<1>2. ASSUME NEW n \in Nat, n \in U PROVE n + 1 \in U
  <2>1. n + 1 \in 0..M => \A j \in 0..((n + 1) - 1) : j \in T
    BY <1>2
  <2>2. n + 1 \in 0..M => n + 1 \in T
    BY <2>1
  <2>3. \A j \in 0..(n + 1) : j = n + 1 \/ j \in 0..n
    OBVIOUS
  <2> QED BY <1>2, <2>2, <2>3
<1>3. Nat \subseteq U
  <2> HIDE DEF U
  <2> QED BY <1>1, <1>2, SetInduction
<1> QED BY <1>3

(* A function on an interval is determined by its first value and by how   *)
(* each of the others comes from an earlier one.                           *)
Recursive(S, b, M, p, g) ==
    /\ b \in S /\ M \in Nat
    /\ p \in [1..M -> Nat] /\ \A k \in 1..M : p[k] < k
    /\ g \in [(1..M) \X S -> S]
Solves(f, S, b, M, p, g) ==
    f \in [0..M -> S] /\ f[0] = b /\ \A k \in 1..M : f[k] = g[<<k, f[p[k]]>>]

LEMMA Recursion ==
  ASSUME NEW S, NEW b, NEW M, NEW p, NEW g, Recursive(S, b, M, p, g)
  PROVE  \E f : Solves(f, S, b, M, p, g)
<1>0. /\ b \in S /\ M \in Nat
      /\ p \in [1..M -> Nat] /\ \A k \in 1..M : p[k] < k
      /\ g \in [(1..M) \X S -> S]
  BY DEF Recursive
<1> DEFINE Good(n, f) == f[0] = b /\ \A k \in 1..n : f[k] = g[<<k, f[p[k]]>>]
           T == {n \in Nat : n <= M => \E f \in [0..n -> S] : Good(n, f)}
<1>1. 0 \in T
  <2>1. [k \in 0..0 |-> b] \in [0..0 -> S] /\ Good(0, [k \in 0..0 |-> b])
    BY <1>0
  <2> QED BY <2>1
<1>2. ASSUME NEW n \in Nat, n \in T PROVE n + 1 \in T
  <2> SUFFICES ASSUME n + 1 <= M PROVE \E f \in [0..(n + 1) -> S] : Good(n + 1, f)
    OBVIOUS
  <2>1. PICK f \in [0..n -> S] : Good(n, f)
    BY <1>0, <1>2
  <2>2. p[n + 1] \in 0..n /\ n + 1 \in 1..M
    BY <1>0
  <2> DEFINE next == g[<<n + 1, f[p[n + 1]]>>]
             h == [k \in 0..(n + 1) |-> IF k = n + 1 THEN next ELSE f[k]]
  <2>3. next \in S
    BY <1>0, <2>1, <2>2
  <2>4. h \in [0..(n + 1) -> S] /\ h[0] = b
    <3> HIDE DEF next
    <3> QED BY <1>0, <2>1, <2>3
  <2>5. ASSUME NEW k \in 1..(n + 1) PROVE h[k] = g[<<k, h[p[k]]>>]
    <3>1. p[k] \in 0..n /\ k \in 1..M
      BY <1>0
    <3>2. h[p[k]] = f[p[k]]
      BY <3>1
    <3>3. CASE k = n + 1
      <4>1. h[n + 1] = next /\ k = n + 1
        BY <3>3
      <4> HIDE DEF h
      <4> QED BY <3>2, <4>1
    <3>4. CASE k # n + 1
      <4>1. k \in 1..n /\ h[k] = f[k]
        BY <3>4
      <4> HIDE DEF h
      <4> QED BY <2>1, <3>2, <4>1
    <3> QED BY <3>3, <3>4
  <2> HIDE DEF h
  <2> QED BY <2>4, <2>5
<1>3. Nat \subseteq T
  <2> HIDE DEF T
  <2> QED BY <1>1, <1>2, SetInduction
<1>4. PICK f \in [0..M -> S] : Good(M, f)
  <2>1. M \in T
    <3> HIDE DEF T
    <3> QED BY <1>0, <1>3
  <2>2. M <= M
    BY <1>0
  <2> QED BY <2>1, <2>2
<1> QED BY <1>4 DEF Solves

LEMMA Solution ==
  ASSUME NEW S, NEW b, NEW M, NEW p, NEW g, Recursive(S, b, M, p, g),
         NEW h, h = [k \in 0..M |-> h[k]], h[0] = b,
         \A k \in 1..M : h[p[k]] \in S => h[k] = g[<<k, h[p[k]]>>]
  PROVE  Solves(h, S, b, M, p, g)
<1>0. /\ b \in S /\ M \in Nat
      /\ p \in [1..M -> Nat] /\ \A k \in 1..M : p[k] < k
      /\ g \in [(1..M) \X S -> S]
  BY DEF Recursive
<1> DEFINE T == {k \in 0..M : h[k] \in S}
<1>1. ASSUME NEW k \in 0..M, \A j \in 0..(k - 1) : j \in T PROVE k \in T
  <2>1. CASE k = 0
    BY <1>0, <2>1
  <2>2. CASE k # 0
    <3>1. k \in 1..M /\ p[k] \in 0..(k - 1)
      BY <1>0, <2>2
    <3>2. h[p[k]] \in S
      BY <1>1, <3>1
    <3>3. h[k] = g[<<k, h[p[k]]>>]
      BY <3>1, <3>2
    <3>4. g[<<k, h[p[k]]>>] \in S
      BY <1>0, <3>1, <3>2
    <3> QED BY <3>3, <3>4
  <2> QED BY <2>1, <2>2
<1>2. 0..M \subseteq T
  <2> HIDE DEF T
  <2> QED BY <1>0, <1>1, StrongInduction
<1>3. \A k \in 0..M : h[k] \in S
  BY <1>2
<1>4. \A k \in 1..M : p[k] \in 0..M
  BY <1>0
<1> QED BY <1>3, <1>4 DEF Solves

LEMMA PowersOf16 ==
  /\ PowerOf16 \in [0..Nibbles -> Nat \ {0}]
  /\ PowerOf16[0] = 1
  /\ \A i \in 1..Nibbles : PowerOf16[i] = 16 * PowerOf16[i - 1]
<1> DEFINE S == Nat \ {0}
           p == [i \in 1..Nibbles |-> i - 1]
           g == [x \in (1..Nibbles) \X S |-> 16 * x[2]]
<1>0. Nibbles \in Nat
  BY NibblesAssumption
<1>1. p \in [1..Nibbles -> Nat] /\ \A i \in 1..Nibbles : p[i] = i - 1 /\ p[i] < i
  BY <1>0
<1>2. /\ g \in [(1..Nibbles) \X S -> S]
      /\ \A i \in 1..Nibbles, v \in S : g[<<i, v>>] = 16 * v
  OBVIOUS
<1>3. 1 \in S
  OBVIOUS
<1>4. PICK f : Solves(f, S, 1, Nibbles, p, g)
  <2>1. Recursive(S, 1, Nibbles, p, g)
    BY <1>0, <1>1, <1>2, <1>3 DEF Recursive
  <2> HIDE DEF S, p, g
  <2> QED BY <2>1, Recursion
<1> USE DEF Solves
<1>5. \A i \in 1..Nibbles : f[i] = 16 * f[i - 1]
  <2> SUFFICES ASSUME NEW i \in 1..Nibbles PROVE f[i] = 16 * f[i - 1]
    OBVIOUS
  <2>1. f[i - 1] \in S
    BY <1>0, <1>4
  <2> HIDE DEF S, p, g
  <2> QED BY <1>1, <1>2, <1>4, <2>1
<1> DEFINE Eq(h) == h = [i \in 0..Nibbles |-> IF i = 0 THEN 1 ELSE 16 * h[i - 1]]
<1>6. Eq(f)
  BY <1>0, <1>4, <1>5
<1>7. Eq(PowerOf16)
  BY <1>6 DEF PowerOf16
<1>8. /\ PowerOf16 = [i \in 0..Nibbles |-> PowerOf16[i]] /\ PowerOf16[0] = 1
      /\ \A i \in 1..Nibbles : PowerOf16[i] = 16 * PowerOf16[i - 1]
  BY <1>0, <1>7
<1>9. Solves(PowerOf16, S, 1, Nibbles, p, g)
  <2>1. Recursive(S, 1, Nibbles, p, g)
    BY <1>0, <1>1, <1>2, <1>3 DEF Recursive
  <2>2. \A i \in 1..Nibbles : PowerOf16[p[i]] \in S => PowerOf16[i] = g[<<i, PowerOf16[p[i]]>>]
    <3> HIDE DEF S, p, g, Solves
    <3> QED BY <1>1, <1>2, <1>8
  <2> HIDE DEF S, p, g, Solves
  <2> QED BY <1>8, <2>1, <2>2, Solution
<1>10. PowerOf16 \in [0..Nibbles -> S]
  BY <1>9
<1> QED BY <1>8, <1>10

LEMMA ValuesOf ==
  ASSUME NEW digits \in Seq(Nat), NEW base \in Nat
  PROVE  /\ Values(digits, base) \in [0..Len(digits) -> Nat]
         /\ Values(digits, base)[0] = 0
         /\ \A k \in 1..Len(digits) :
               Values(digits, base)[k] = Values(digits, base)[k - 1] * base + digits[k]
<1> DEFINE M == Len(digits)
           V == Values(digits, base)
           p == [k \in 1..M |-> k - 1]
           g == [x \in (1..M) \X Nat |-> x[2] * base + digits[x[1]]]
<1>0. M \in Nat /\ \A k \in 1..M : digits[k] \in Nat
  OBVIOUS
<1>1. /\ p \in [1..M -> Nat]
      /\ \A k \in 1..M : p[k] = k - 1 /\ p[k] < k /\ k - 1 \in 0..M
  BY <1>0
<1>2. \A k \in 1..M, v \in Nat : v * base + digits[k] \in Nat
  BY <1>0
<1>3. /\ g \in [(1..M) \X Nat -> Nat]
      /\ \A k \in 1..M, v \in Nat : g[<<k, v>>] = v * base + digits[k]
  <2> HIDE DEF M
  <2> QED BY <1>2
<1>4. Recursive(Nat, 0, M, p, g)
  <2> HIDE DEF M, p, g
  <2> QED BY <1>0, <1>1, <1>3 DEF Recursive
<1>5. PICK f : Solves(f, Nat, 0, M, p, g)
  <2> HIDE DEF M, p, g
  <2> QED BY <1>4, Recursion
<1> DEFINE step(k, v) == v * base + digits[k]
           Eq(h) == h = [k \in 0..M |-> IF k = 0 THEN 0 ELSE step(k, h[k - 1])]
<1>6. f = [k \in 0..M |-> f[k]] /\ f[0] = 0
  BY <1>5 DEF Solves
<1>7. \A k \in 1..M : f[k] = step(k, f[k - 1])
  <2> HIDE DEF M, p, g
  <2> QED BY <1>1, <1>3, <1>5 DEF Solves
<1>8. Eq(f)
  <2>1. \A k \in 0..M : k = 0 \/ k \in 1..M
    BY <1>0
  <2> HIDE DEF M, step
  <2>2. \A k \in 0..M : f[k] = IF k = 0 THEN 0 ELSE step(k, f[k - 1])
    BY <1>6, <1>7, <2>1
  <2> QED BY <1>6, <2>2, Zenon
<1>9. Eq(V)
  BY <1>8 DEF Values
<1>10. /\ V = [k \in 0..M |-> V[k]] /\ V[0] = 0
       /\ \A k \in 1..M : V[k] = step(k, V[k - 1])
  <2>1. 0 \in 0..M /\ \A k \in 1..M : k \in 0..M /\ k # 0
    BY <1>0
  <2> HIDE DEF M, V, step
  <2>2. \A k \in 0..M : V[k] = IF k = 0 THEN 0 ELSE step(k, V[k - 1])
    BY <1>9, Zenon
  <2>3. V = [k \in 0..M |-> V[k]]
    BY <1>9, <2>2, Zenon
  <2> QED BY <2>1, <2>2, <2>3
<1>11. \A k \in 1..M : V[p[k]] \in Nat => V[k] = g[<<k, V[p[k]]>>]
  <2> HIDE DEF M, V, p, g, step
  <2>1. \A k \in 1..M : V[k] = step(k, V[k - 1])
    BY <1>10
  <2>2. \A k \in 1..M, v \in Nat : p[k] = k - 1 /\ g[<<k, v>>] = step(k, v)
    BY <1>1, <1>3 DEF step
  <2> QED BY <2>1, <2>2
<1>12. Solves(V, Nat, 0, M, p, g)
  <2> HIDE DEF M, V, p, g
  <2> QED BY <1>4, <1>10, <1>11, Solution
<1> QED BY <1>10, <1>12 DEF Solves

LEMMA DenotesNothing ==
  ASSUME NEW base \in Nat PROVE Denotes(<< >>, base) = 0
<1>1. << >> \in Seq(Nat) /\ Len(<< >>) = 0
  OBVIOUS
<1> QED BY <1>1, ValuesOf DEF Denotes

LEMMA DenotesAppend ==
  ASSUME NEW digits \in Seq(Nat), NEW base \in Nat, NEW d \in Nat
  PROVE  /\ Denotes(digits, base) \in Nat
         /\ Denotes(Append(digits, d), base) = Denotes(digits, base) * base + d
<1> DEFINE M == Len(digits)
           longer == Append(digits, d)
           V == Values(digits, base)
           W == Values(longer, base)
           T == {k \in 0..M : W[k] = V[k]}
<1>1. /\ longer \in Seq(Nat) /\ Len(longer) = M + 1 /\ M \in Nat /\ longer[M + 1] = d
      /\ \A k \in 1..M : longer[k] = digits[k]
  OBVIOUS
<1>2. /\ V \in [0..M -> Nat] /\ V[0] = 0
      /\ \A k \in 1..M : V[k] = V[k - 1] * base + digits[k]
  BY ValuesOf
<1>3. /\ W[0] = 0
      /\ \A k \in 1..(M + 1) : W[k] = W[k - 1] * base + longer[k]
  <2> HIDE DEF M, longer
  <2> QED BY <1>1, ValuesOf
<1>4. ASSUME NEW k \in 0..M, \A j \in 0..(k - 1) : j \in T PROVE k \in T
  <2>1. CASE k = 0
    BY <1>2, <1>3, <2>1
  <2>2. CASE k # 0
    <3>1. k \in 1..M /\ k \in 1..(M + 1) /\ k - 1 \in T
      BY <1>1, <1>4, <2>2
    <3> HIDE DEF M, longer, V, W
    <3> QED BY <1>1, <1>2, <1>3, <3>1
  <2> QED BY <2>1, <2>2
<1>5. W[M] = V[M]
  <2>1. 0..M \subseteq T
    <3> HIDE DEF T
    <3> QED BY <1>1, <1>4, StrongInduction
  <2> QED BY <1>1, <2>1
<1>6. W[M + 1] = W[M] * base + d
  <2>1. M + 1 \in 1..(M + 1) /\ (M + 1) - 1 = M
    BY <1>1
  <2> HIDE DEF M, longer, W
  <2> QED BY <1>1, <1>3, <2>1
<1>7. V[M] \in Nat
  <2> HIDE DEF M, V
  <2> QED BY <1>1, <1>2
<1> QED BY <1>1, <1>5, <1>6, <1>7 DEF Denotes

LEMMA AppendHex ==
  ASSUME NEW s \in Seq(0..15), NEW x \in 0..15
  PROVE  /\ Append(s, x) \in Seq(0..15) /\ Append(s, x) # << >>
         /\ s # << >> => Append(s, x)[1] = s[1]
         /\ s = << >> => Append(s, x)[1] = x
         /\ Len(Append(s, x)) > 1 => s # << >>
         /\ s \in Seq(Nat)
<1>1. Len(Append(s, x)) = Len(s) + 1 /\ Append(s, x) \in Seq(0..15)
  OBVIOUS
<1> QED BY <1>1

LEMMA Quotient ==
  ASSUME NEW n \in Nat, NEW d \in Nat \ {0}
  PROVE  n \div d \in Nat /\ (n < d => n \div d = 0)
OBVIOUS

LEMMA QuotientIs ==
  ASSUME NEW d \in Nat \ {0}, NEW q \in Nat, NEW r \in Nat, r < d
  PROVE  (d * q + r) \div d = q
OBVIOUS

LEMMA NextNibble ==
  ASSUME NEW n \in Nat, NEW d \in Nat \ {0}
  PROVE  /\ n \div d \in Nat /\ (n \div d) % 16 \in 0..15
         /\ n \div d = (n \div (16 * d)) * 16 + ((n \div d) % 16)
<1> DEFINE q == n \div d
           r == n % d
<1>1. q \in Nat /\ r \in 0..(d - 1) /\ n = d * q + r
  OBVIOUS
<1>2. PICK q2 \in Nat, r2 \in 0..15 : q = 16 * q2 + r2
  <2>1. q \div 16 \in Nat /\ q % 16 \in 0..15 /\ q = 16 * (q \div 16) + (q % 16)
    BY <1>1
  <2> QED BY <2>1
<1>3. n = (16 * d) * q2 + (d * r2 + r)
  <2>1. d * q = d * (16 * q2) + d * r2
    BY <1>2
  <2>2. d * (16 * q2) = (16 * d) * q2
    OBVIOUS
  <2>3. d * r2 \in Nat /\ (16 * d) * q2 \in Nat
    OBVIOUS
  <2> QED BY <1>1, <2>1, <2>2, <2>3
<1>4. d * r2 + r \in Nat /\ d * r2 + r < 16 * d
  <2>1. d * r2 <= d * 15 /\ d * r2 \in Nat
    OBVIOUS
  <2> QED BY <1>1, <2>1
<1>5. n \div (16 * d) = q2
  <2>1. 16 * d \in Nat \ {0}
    OBVIOUS
  <2> HIDE DEF q, r
  <2> QED BY ONLY <1>2, <1>3, <1>4, <2>1, QuotientIs
<1>6. (n \div d) % 16 = r2
  BY <1>2
<1> QED BY <1>1, <1>2, <1>5, <1>6

LEMMA NibblesAre ==
  ASSUME NEW n \in Unsigned
  PROVE  /\ n \in Nat /\ n \div PowerOf16[Nibbles] = 0 /\ n \div PowerOf16[0] = n
         /\ \A i \in 0..Nibbles : n \div PowerOf16[i] \in Nat
         /\ \A i \in 0..(Nibbles - 1) :
               /\ Nibble(n, i) \in 0..15
               /\ n \div PowerOf16[i] = (n \div PowerOf16[i + 1]) * 16 + Nibble(n, i)
<1>0. Nibbles \in Nat \ {0, 1}
  BY NibblesAssumption
<1>1. n \in Nat /\ n < PowerOf16[Nibbles] /\ PowerOf16[Nibbles] \in Nat
  BY <1>0, PowersOf16 DEF Unsigned
<1>2. n \div PowerOf16[Nibbles] = 0 /\ n \div PowerOf16[0] = n
  <2>1. PowerOf16[Nibbles] \in Nat \ {0}
    BY <1>0, PowersOf16
  <2> QED BY <1>1, <2>1, PowersOf16, Quotient
<1>3. ASSUME NEW i \in 0..Nibbles PROVE n \div PowerOf16[i] \in Nat
  <2>1. PowerOf16[i] \in Nat \ {0}
    BY PowersOf16
  <2> QED BY <1>1, <2>1, Quotient
<1>4. ASSUME NEW i \in 0..(Nibbles - 1)
      PROVE  /\ Nibble(n, i) \in 0..15
             /\ n \div PowerOf16[i] = (n \div PowerOf16[i + 1]) * 16 + Nibble(n, i)
  <2>1. i + 1 \in 1..Nibbles /\ (i + 1) - 1 = i /\ i \in 0..Nibbles
    BY <1>0
  <2>2. PowerOf16[i] \in Nat \ {0} /\ PowerOf16[i + 1] = 16 * PowerOf16[i]
    BY <2>1, PowersOf16
  <2> QED BY <1>1, <2>2, NextNibble DEF Nibble
<1> QED BY <1>1, <1>2, <1>3, <1>4

LEMMA RoundsAre ==
  ASSUME NEW n \in Unsigned
  PROVE  /\ Rounds(n) \in [0..(Nibbles - 1) -> Seq(0..15)]
         /\ Rounds(n)[0] = << >>
         /\ \A k \in 1..(Nibbles - 1) :
               Rounds(n)[k] = PutNibble(n, Rounds(n)[k - 1], Nibbles - k)
<1> DEFINE M == Nibbles - 1
           V == Rounds(n)
           S == Seq(0..15)
           p == [k \in 1..M |-> k - 1]
           step(k, v) == PutNibble(n, v, Nibbles - k)
           g == [x \in (1..M) \X S |-> step(x[1], x[2])]
<1>0. M \in Nat /\ Nibbles \in Nat /\ << >> \in S
  BY NibblesAssumption
<1>1. /\ p \in [1..M -> Nat]
      /\ \A k \in 1..M : p[k] = k - 1 /\ p[k] < k /\ k - 1 \in 0..M
  BY <1>0
<1>2. \A k \in 1..M, v \in S : step(k, v) \in S
  <2> SUFFICES ASSUME NEW k \in 1..M, NEW v \in S PROVE step(k, v) \in S
    OBVIOUS
  <2>1. Nibble(n, Nibbles - k) \in 0..15
    BY <1>0, NibblesAre
  <2> QED BY <2>1, AppendHex DEF PutNibble
<1>3. /\ g \in [(1..M) \X S -> S]
      /\ \A k \in 1..M, v \in S : g[<<k, v>>] = step(k, v)
  <2> HIDE DEF M, S, step
  <2> QED BY <1>2
<1>4. Recursive(S, << >>, M, p, g)
  <2> HIDE DEF M, p, g, S, step
  <2> QED BY <1>0, <1>1, <1>3 DEF Recursive
<1>5. PICK f : Solves(f, S, << >>, M, p, g)
  <2> HIDE DEF M, p, g, S
  <2> QED BY <1>4, Recursion
<1> DEFINE Eq(h) == h = [k \in 0..M |-> IF k = 0 THEN << >> ELSE step(k, h[k - 1])]
<1>6. f = [k \in 0..M |-> f[k]] /\ f[0] = << >>
  BY <1>5 DEF Solves
<1>7. \A k \in 1..M : f[k] = step(k, f[k - 1])
  <2> HIDE DEF M, p, g, S, step
  <2> QED BY <1>1, <1>3, <1>5 DEF Solves
<1>8. Eq(f)
  <2>1. \A k \in 0..M : k = 0 \/ k \in 1..M
    BY <1>0
  <2> HIDE DEF M, step
  <2>2. \A k \in 0..M : f[k] = IF k = 0 THEN << >> ELSE step(k, f[k - 1])
    BY <1>6, <1>7, <2>1
  <2> QED BY <1>6, <2>2, Zenon
<1>9. Eq(V)
  BY <1>8 DEF Rounds
<1>10. /\ V = [k \in 0..M |-> V[k]] /\ V[0] = << >>
       /\ \A k \in 1..M : V[k] = step(k, V[k - 1])
  <2>1. 0 \in 0..M /\ \A k \in 1..M : k \in 0..M /\ k # 0
    BY <1>0
  <2> HIDE DEF M, V, step
  <2>2. \A k \in 0..M : V[k] = IF k = 0 THEN << >> ELSE step(k, V[k - 1])
    BY <1>9, Zenon
  <2>3. V = [k \in 0..M |-> V[k]]
    BY <1>9, <2>2, Zenon
  <2> QED BY <2>1, <2>2, <2>3
<1>11. \A k \in 1..M : V[p[k]] \in S => V[k] = g[<<k, V[p[k]]>>]
  <2> HIDE DEF M, V, p, g, S, step
  <2> QED BY <1>1, <1>3, <1>10
<1>12. Solves(V, S, << >>, M, p, g)
  <2> HIDE DEF M, V, p, g, S, step
  <2> QED BY <1>4, <1>10, <1>11, Solution
<1> QED BY <1>10, <1>12 DEF Solves

LEMMA HexDigitsDenote ==
  ASSUME NEW n \in Unsigned
  PROVE  Denotes(HexDigits(n), 16) = n /\ Plain(HexDigits(n))
<1> DEFINE M == Nibbles - 1
           V == Rounds(n)
           H(i) == n \div PowerOf16[i]
           Right(k) == /\ Denotes(V[k], 16) = H(Nibbles - k)
                       /\ V[k] # << >> => V[k][1] # 0
           T == {k \in 0..M : Right(k)}
<1>0. Nibbles \in Nat \ {0, 1} /\ M \in Nat
  BY NibblesAssumption
<1>1. /\ \A k \in 0..M : V[k] \in Seq(0..15)
      /\ V[0] = << >>
      /\ \A k \in 1..M : V[k] = PutNibble(n, V[k - 1], Nibbles - k)
  BY RoundsAre
<1>2. ASSUME NEW k \in 0..M, \A j \in 0..(k - 1) : j \in T PROVE k \in T
  <2>1. CASE k = 0
    <3>1. H(Nibbles) = 0 /\ Denotes(<< >>, 16) = 0
      BY NibblesAre, DenotesNothing
    <3>2. Nibbles - k = Nibbles
      BY <1>0, <2>1
    <3> HIDE DEF V, H
    <3> QED BY <1>1, <2>1, <3>1, <3>2
  <2>2. CASE k # 0
    <3> DEFINE i == Nibbles - k
    <3>1. k \in 1..M /\ k - 1 \in T /\ k - 1 \in 0..M /\ i \in 0..(Nibbles - 1)
          /\ i + 1 = Nibbles - (k - 1)
      BY <1>0, <1>2, <2>2
    <3>2. Nibble(n, i) \in 0..15 /\ H(i) = H(i + 1) * 16 + Nibble(n, i) /\ H(i + 1) \in Nat
      <4>1. i \in 0..(Nibbles - 1) /\ i + 1 \in 0..Nibbles
        BY <1>0, <3>1
      <4> HIDE DEF i
      <4> QED BY <4>1, NibblesAre
    <3>3. Right(k - 1) /\ V[k - 1] \in Seq(0..15)
      BY <1>1, <3>1
    <3>4. V[k] = PutNibble(n, V[k - 1], i)
      BY <1>1, <3>1
    <3> HIDE DEF i, V, H
    <3>5. CASE Nibble(n, i) = 0 /\ V[k - 1] = << >>
      <4>1. V[k] = V[k - 1]
        BY <3>4, <3>5 DEF PutNibble
      <4>2. H(i + 1) = 0
        BY <3>1, <3>3, <3>5, DenotesNothing
      <4>3. H(i) = 0
        BY <3>2, <3>5, <4>2
      <4> QED BY <3>3, <3>5, <4>1, <4>3, DenotesNothing DEF i
    <3>6. CASE ~(Nibble(n, i) = 0 /\ V[k - 1] = << >>)
      <4>1. V[k] = Append(V[k - 1], Nibble(n, i))
        BY <3>4, <3>6 DEF PutNibble
      <4>2. Denotes(V[k], 16) = H(i)
        <5> DEFINE s == V[k - 1]
                   x == Nibble(n, i)
        <5>4. s \in Seq(0..15) /\ x \in 0..15
          BY <3>2, <3>3
        <5> HIDE DEF s, x
        <5>5. s \in Seq(Nat) /\ x \in Nat
          BY <5>4, AppendHex
        <5>1. V[k - 1] \in Seq(Nat) /\ Nibble(n, i) \in Nat
          BY <5>5 DEF s, x
        <5>2. Denotes(V[k], 16) = Denotes(V[k - 1], 16) * 16 + Nibble(n, i)
          BY <4>1, <5>1, DenotesAppend
        <5>3. Denotes(V[k - 1], 16) = H(i + 1)
          BY <3>1, <3>3
        <5> QED BY <3>2, <5>2, <5>3
      <4>3. V[k][1] # 0
        <5> DEFINE s == V[k - 1]
                   x == Nibble(n, i)
        <5>1. s \in Seq(0..15) /\ x \in 0..15 /\ ~(x = 0 /\ s = << >>)
          BY <3>2, <3>3, <3>6
        <5>2. s # << >> => s[1] # 0
          BY <3>3
        <5>3. V[k] = Append(s, x)
          BY <4>1
        <5> HIDE DEF s, x
        <5>4. Append(s, x)[1] # 0
          BY <5>1, <5>2, AppendHex
        <5> QED BY <5>3, <5>4
      <4> QED BY <4>2, <4>3 DEF i
    <3> QED BY <3>5, <3>6
  <2> QED BY <2>1, <2>2
<1>3. M \in T
  <2> HIDE DEF T, M
  <2>1. 0..M \subseteq T
    BY <1>0, <1>2, StrongInduction
  <2> QED BY <1>0, <2>1
<1>4. /\ H(0) = n /\ H(0) = H(1) * 16 + Nibble(n, 0) /\ Nibble(n, 0) \in 0..15
  <2>1. 0 \in 0..(Nibbles - 1) /\ 0 + 1 = 1
    BY <1>0
  <2> QED BY <2>1, NibblesAre
<1>5. V[M] \in Seq(0..15) /\ Denotes(V[M], 16) = H(1) /\ (V[M] # << >> => V[M][1] # 0)
  <2>1. Nibbles - M = 1 /\ M \in 0..M
    BY <1>0
  <2> HIDE DEF V, H, M
  <2> QED BY <1>1, <1>3, <2>1
<1> DEFINE d == Nibble(n, 0)
<1>6. HexDigits(n) = Append(V[M], d)
  BY DEF HexDigits
<1> HIDE DEF V, H, M, d
<1>7. V[M] \in Seq(Nat) /\ d \in Nat
  BY <1>4, <1>5, AppendHex DEF d
<1>8. Denotes(Append(V[M], d), 16) = H(1) * 16 + d
  BY <1>5, <1>7, DenotesAppend
<1>9. Plain(Append(V[M], d))
  BY <1>4, <1>5, AppendHex DEF Plain, d
<1> QED BY <1>4, <1>6, <1>8, <1>9 DEF d

LEMMA HalfHas48 == 0..47 \subseteq LowerHalf
<1> DEFINE T == {i \in 0..Nibbles : i < 2 \/ PowerOf16[i] >= 256}
<1>0. Nibbles \in Nat /\ Nibbles >= 2
  BY NibblesAssumption
<1>1. ASSUME NEW i \in 0..Nibbles, \A j \in 0..(i - 1) : j \in T PROVE i \in T
  <2>1. CASE i < 2
    BY <2>1
  <2>2. CASE i = 2
    <3>1. 1 \in 1..Nibbles /\ 2 \in 1..Nibbles
      BY <1>0
    <3>2. PowerOf16[1] = 16 * PowerOf16[0] /\ PowerOf16[2] = 16 * PowerOf16[1]
      <4>1. 1 - 1 = 0 /\ 2 - 1 = 1
        OBVIOUS
      <4> QED BY <3>1, <4>1, PowersOf16
    <3> QED BY <2>2, <3>2, PowersOf16
  <2>3. CASE i > 2
    <3>1. i \in 1..Nibbles /\ i - 1 \in 0..(i - 1) /\ i - 1 \in 0..Nibbles /\ ~(i - 1 < 2)
      BY <1>0, <2>3
    <3>2. PowerOf16[i - 1] >= 256 /\ PowerOf16[i - 1] \in Nat
      BY <1>1, <3>1, PowersOf16
    <3>3. PowerOf16[i] = 16 * PowerOf16[i - 1]
      BY <3>1, PowersOf16
    <3> QED BY <3>2, <3>3
  <2> QED BY <2>1, <2>2, <2>3
<1>2. Nibbles \in T
  <2> HIDE DEF T
  <2>1. 0..Nibbles \subseteq T
    BY <1>0, <1>1, StrongInduction
  <2> QED BY <1>0, <2>1
<1>3. PowerOf16[Nibbles] >= 256 /\ PowerOf16[Nibbles] \in Nat
  BY <1>0, <1>2, PowersOf16
<1> QED BY <1>3 DEF LowerHalf

LEMMA ReversedIs ==
  /\ Reversed \in [LowerHalf -> Seq(0..9)]
  /\ Reversed[0] = << >>
  /\ \A acc \in LowerHalf \ {0} : Reversed[acc] = <<acc % 10>> \o Reversed[acc \div 10]
<1> DEFINE M == PowerOf16[Nibbles] \div 2 - 1
           S == Seq(0..9)
           p == [acc \in 1..M |-> acc \div 10]
           step(acc, v) == <<acc % 10>> \o v
           g == [x \in (1..M) \X S |-> step(x[1], x[2])]
<1>0. M \in Nat /\ LowerHalf = 0..M /\ << >> \in S
  <2>1. 47 \in LowerHalf
    BY HalfHas48
  <2>2. PowerOf16[Nibbles] \in Nat /\ PowerOf16[Nibbles] \div 2 \in Int
    BY PowersOf16, NibblesAssumption
  <2> QED BY <2>1, <2>2 DEF LowerHalf
<1>1. /\ p \in [1..M -> Nat]
      /\ \A acc \in 1..M : p[acc] = acc \div 10 /\ p[acc] < acc /\ acc \div 10 \in 0..M
  BY <1>0
<1>2. \A acc \in 1..M, v \in S : step(acc, v) \in S
  <2> SUFFICES ASSUME NEW acc \in 1..M, NEW v \in S PROVE step(acc, v) \in S
    OBVIOUS
  <2>1. acc % 10 \in 0..9
    BY <1>0
  <2>2. <<acc % 10>> \in S
    BY <2>1
  <2> QED BY <2>2
<1>3. /\ g \in [(1..M) \X S -> S]
      /\ \A acc \in 1..M, v \in S : g[<<acc, v>>] = step(acc, v)
  <2> HIDE DEF M, S, step
  <2> QED BY <1>2
<1>4. Recursive(S, << >>, M, p, g)
  <2> HIDE DEF M, p, g, S, step
  <2> QED BY <1>0, <1>1, <1>3 DEF Recursive
<1>5. PICK f : Solves(f, S, << >>, M, p, g)
  <2> HIDE DEF M, p, g, S
  <2> QED BY <1>4, Recursion
<1> DEFINE Eq(h) ==
             h = [acc \in LowerHalf |-> IF acc = 0 THEN << >> ELSE step(acc, h[acc \div 10])]
<1>6. f = [acc \in LowerHalf |-> f[acc]] /\ f[0] = << >>
  BY <1>0, <1>5 DEF Solves
<1>7. \A acc \in 1..M : f[acc] = step(acc, f[acc \div 10])
  <2> HIDE DEF M, p, g, S, step
  <2> QED BY <1>1, <1>3, <1>5 DEF Solves
<1>8. Eq(f)
  <2>1. \A acc \in LowerHalf : acc = 0 \/ acc \in 1..M
    BY <1>0
  <2> HIDE DEF M, step
  <2>2. \A acc \in LowerHalf : f[acc] = IF acc = 0 THEN << >> ELSE step(acc, f[acc \div 10])
    BY <1>6, <1>7, <2>1
  <2> QED BY <1>6, <2>2, Zenon
<1>9. Eq(Reversed)
  BY <1>8 DEF Reversed
<1>10. /\ Reversed = [acc \in LowerHalf |-> Reversed[acc]] /\ Reversed[0] = << >>
       /\ \A acc \in 1..M : Reversed[acc] = step(acc, Reversed[acc \div 10])
  <2>1. 0 \in LowerHalf /\ \A acc \in 1..M : acc \in LowerHalf /\ acc # 0
    BY <1>0
  <2> HIDE DEF M, step
  <2>2. \A acc \in LowerHalf :
           Reversed[acc] = IF acc = 0 THEN << >> ELSE step(acc, Reversed[acc \div 10])
    BY <1>9, Zenon
  <2>3. Reversed = [acc \in LowerHalf |-> Reversed[acc]]
    BY <1>9, <2>2, Zenon
  <2> QED BY <2>1, <2>2, <2>3
<1>11. \A acc \in 1..M : Reversed[p[acc]] \in S => Reversed[acc] = g[<<acc, Reversed[p[acc]]>>]
  <2> HIDE DEF M, p, g, S, step
  <2> QED BY <1>1, <1>3, <1>10
<1>12. Solves(Reversed, S, << >>, M, p, g)
  <2> HIDE DEF M, p, g, S, step
  <2>1. Reversed = [acc \in 0..M |-> Reversed[acc]]
    BY <1>0, <1>10
  <2> QED BY <1>4, <1>10, <1>11, <2>1, Solution
<1>13. LowerHalf \ {0} = 1..M
  BY <1>0
<1> QED BY <1>0, <1>10, <1>12, <1>13 DEF Solves

LEMMA ReversePut ==
  ASSUME NEW d \in 0..9, NEW t \in Seq(0..9)
  PROVE  /\ Reverse(<<d>> \o t) = Append(Reverse(t), d)
         /\ Reverse(t) \in Seq(Nat)
         /\ Len(<<d>> \o t) = Len(t) + 1
         /\ (<<d>> \o t)[1] = d
         /\ t # << >> => (<<d>> \o t)[Len(t) + 1] = t[Len(t)]
<1> DEFINE s == <<d>> \o t
           M == Len(t)
<1>1. /\ M \in Nat /\ s \in Seq(0..9) /\ Len(s) = M + 1 /\ s[1] = d
      /\ \A i \in 1..M : s[i + 1] = t[i] /\ t[i] \in 0..9
  OBVIOUS
<1>2. /\ Reverse(t) = [i \in 1..M |-> t[(M - i) + 1]]
      /\ Reverse(s) = [i \in 1..(M + 1) |-> s[((M + 1) - i) + 1]]
  BY <1>1 DEF Reverse
<1> HIDE DEF s, M
<1>3. \A i \in 1..M : (M - i) + 1 \in 1..M
  BY <1>1
<1>4. Reverse(t) \in Seq(Nat) /\ Len(Reverse(t)) = M
  <2>1. ASSUME NEW i \in 1..M PROVE t[(M - i) + 1] \in Nat
    <3>1. t[(M - i) + 1] \in 0..9
      BY <1>1, <1>3
    <3> QED BY <3>1
  <2>2. Reverse(t) \in [1..M -> Nat]
    BY <1>2, <2>1
  <2> QED BY <1>1, <2>2
<1>5. Append(Reverse(t), d) = [i \in 1..(M + 1) |-> IF i = M + 1 THEN d ELSE Reverse(t)[i]]
  <2> DEFINE r == Reverse(t)
             a == Append(r, d)
  <2>1. r \in Seq(Nat) /\ Len(r) = M /\ d \in Nat
    BY <1>4
  <2> HIDE DEF r
  <2>2. a \in Seq(Nat) /\ Len(a) = M + 1
    BY <1>1, <2>1
  <2>3. \A i \in 1..(M + 1) : a[i] = IF i = M + 1 THEN d ELSE r[i]
    BY <1>1, <2>1
  <2> HIDE DEF a
  <2>4. a = [i \in 1..(M + 1) |-> a[i]]
    BY <1>1, <2>2
  <2>5. a = [i \in 1..(M + 1) |-> IF i = M + 1 THEN d ELSE r[i]]
    BY <2>3, <2>4, Zenon
  <2> QED BY <2>5 DEF a, r
<1>6. ASSUME NEW i \in 1..(M + 1)
      PROVE  s[((M + 1) - i) + 1] = IF i = M + 1 THEN d ELSE Reverse(t)[i]
  <2>1. CASE i = M + 1
    BY <1>1, <2>1
  <2>2. CASE i # M + 1
    <3>1. i \in 1..M /\ (M + 1) - i = (M - i) + 1
      BY <1>1, <2>2
    <3> QED BY <1>1, <1>2, <1>3, <3>1, <2>2
  <2> QED BY <2>1, <2>2
<1>7. Reverse(s) = Append(Reverse(t), d)
  BY <1>2, <1>5, <1>6, Zenon
<1>8. t # << >> => M \in 1..M
  BY <1>1 DEF M
<1> QED BY <1>1, <1>4, <1>7, <1>8 DEF s, M

LEMMA DecDigitsDenote ==
  ASSUME NEW n \in LowerHalf
  PROVE  Denotes(DecDigits(n), 10) = n /\ Plain(DecDigits(n))
<1> DEFINE M == PowerOf16[Nibbles] \div 2 - 1
           R == Reversed
           Right(k) == /\ Denotes(Reverse(R[k]), 10) = k
                       /\ k # 0 => R[k] # << >> /\ R[k][Len(R[k])] # 0
           T == {k \in 0..M : Right(k)}
<1>0. LowerHalf = 0..M /\ M \in Nat
  <2>1. n \in 0..M /\ PowerOf16[Nibbles] \in Nat
    BY PowersOf16, NibblesAssumption DEF LowerHalf
  <2> QED BY <2>1 DEF LowerHalf
<1>1. /\ R \in [0..M -> Seq(0..9)] /\ R[0] = << >>
      /\ \A k \in 1..M : R[k] = <<k % 10>> \o R[k \div 10]
  <2>1. LowerHalf \ {0} = 1..M
    BY <1>0
  <2> HIDE DEF M
  <2> QED BY <1>0, <2>1, ReversedIs
<1> HIDE DEF R, M
<1>2. ASSUME NEW k \in 0..M, \A j \in 0..(k - 1) : j \in T PROVE k \in T
  <2>1. CASE k = 0
    <3>1. Reverse(<< >>) = << >>
      BY DEF Reverse
    <3>2. Denotes(<< >>, 10) = 0
      BY DenotesNothing
    <3> QED BY <1>1, <2>1, <3>1, <3>2
  <2>2. CASE k # 0
    <3> DEFINE d == k % 10
               j == k \div 10
               t == R[j]
    <3>1. /\ k \in 1..M /\ d \in 0..9 /\ j \in 0..(k - 1) /\ j \in 0..M
          /\ k = j * 10 + d
      BY <1>0, <2>2
    <3>2. t \in Seq(0..9) /\ Right(j) /\ R[k] = <<d>> \o t
      BY <1>1, <1>2, <3>1
    <3> HIDE DEF d, j
    <3>3. Reverse(R[k]) = Append(Reverse(t), d) /\ Reverse(t) \in Seq(Nat)
      BY <3>1, <3>2, ReversePut
    <3>4. Denotes(Reverse(R[k]), 10) = k
      <4>1. Denotes(Append(Reverse(t), d), 10) = Denotes(Reverse(t), 10) * 10 + d
        <5>1. d \in Nat
          BY <3>1
        <5> HIDE DEF t
        <5> QED BY <3>3, <5>1, DenotesAppend
      <4> QED BY <3>1, <3>2, <3>3, <4>1
    <3>5. R[k] # << >> /\ R[k][Len(R[k])] # 0
      <4>1. Len(R[k]) = Len(t) + 1 /\ R[k][1] = d
            /\ (t # << >> => R[k][Len(t) + 1] = t[Len(t)])
        <5> HIDE DEF t
        <5> QED BY <3>1, <3>2, ReversePut
      <4>2. CASE j = 0
        BY <1>1, <2>2, <3>1, <4>1, <4>2
      <4>3. CASE j # 0
        BY <3>2, <4>1, <4>3
      <4> QED BY <4>2, <4>3
    <3> QED BY <3>4, <3>5
  <2> QED BY <2>1, <2>2
<1>3. Right(n)
  <2> HIDE DEF T
  <2>1. 0..M \subseteq T
    BY <1>0, <1>2, StrongInduction
  <2> QED BY <1>0, <2>1 DEF T
<1>4. CASE n = 0
  <2>1. DecDigits(n) = <<0>> /\ <<0>> = Append(<< >>, 0) /\ << >> \in Seq(Nat)
    BY <1>4 DEF DecDigits
  <2>2. Denotes(Append(<< >>, 0), 10) = Denotes(<< >>, 10) * 10 + 0 /\ Denotes(<< >>, 10) = 0
    <3> DEFINE e == << >>
    <3>1. e \in Seq(Nat) /\ Denotes(e, 10) = 0
      BY DenotesNothing
    <3> HIDE DEF e
    <3>2. Denotes(Append(e, 0), 10) = Denotes(e, 10) * 10 + 0
      BY <3>1, DenotesAppend
    <3> QED BY <3>1, <3>2 DEF e
  <2>3. Plain(<<0>>)
    BY DEF Plain
  <2> QED BY <1>4, <2>1, <2>2, <2>3
<1>5. CASE n # 0
  <2>1. DecDigits(n) = Reverse(R[n]) /\ R[n] \in Seq(0..9)
    BY <1>0, <1>1, <1>5 DEF DecDigits, R
  <2>2. Len(Reverse(R[n])) = Len(R[n]) /\ Reverse(R[n])[1] = R[n][Len(R[n])]
        /\ Reverse(R[n]) # << >>
    BY <1>3, <1>5, <2>1 DEF Reverse
  <2> QED BY <1>3, <1>5, <2>1, <2>2 DEF Plain
<1> QED BY <1>4, <1>5

-----------------------------------------------------------------------------
(* A fault halts the kernel, so the context it was in stays on top.        *)
Reported ==
    /\ Denotes(report.digits, IF report.what = "fault" THEN 16 ELSE 10) = report.number
    /\ Plain(report.digits)
    /\ report.what = "fault" =>
         /\ halted
         /\ report.words \ {"present"} = IF Top.cause[3] = 2 THEN {"read-only"} ELSE {}

LEMMA InitReported == Init => Reported
<1> SUFFICES ASSUME Init PROVE Reported
  OBVIOUS
<1>1. report.digits = <<0>> /\ report.number = 0 /\ report.what # "fault"
  BY DEF Init, NoReport
<1>2. 0 \in LowerHalf
  BY HalfHas48
<1>3. DecDigits(0) = <<0>>
  BY DEF DecDigits
<1>4. Denotes(<<0>>, 10) = 0 /\ Plain(<<0>>)
  BY <1>2, <1>3, DecDigitsDenote
<1> QED BY <1>1, <1>4 DEF Reported

LEMMA FaultWords ==
  ASSUME NEW code \in {0, 2}
  PROVE  PageFaultWords(code) \ {"present"} = IF code = 2 THEN {"read-only"} ELSE {}
<1>1. /\ code % 2 = 0 /\ (code \div 4) % 2 = 0 /\ (code \div 8) % 2 = 0
      /\ (code \div 2) % 2 = 1 <=> code = 2
  <2>1. CASE code = 0
    BY <2>1
  <2>2. CASE code = 2
    BY <2>2
  <2> QED BY <2>1, <2>2
<1> QED BY <1>1 DEF PageFaultWords

LEMMA HandleReported == ASSUME IInv, Phases, Reported, Handle PROVE Reported'
<1>1. /\ frames \in Seq(Frame) /\ Len(frames) \in 1..Len(frames) /\ Top = frames[Len(frames)]
      /\ Becomes("done") /\ frames # << >> /\ ~halted
  BY DEF Handle, IInv, Nesting, Top, Last
<1>2. Top \in Frame /\ Named(Top) /\ (Top.cause[1] = "line" <=> Top.by = "irq")
  BY <1>1 DEF IInv, Phases, OfLine
<1>3. Len(frames') = Len(frames) /\ Top'.cause = Top.cause
  BY <1>1, BecomesEffect DEF Top, Last
<1>4. CASE Top.by = "isr" /\ NameInterrupt
  <2>1. Top.cause[2] = IntNo /\ IntNo \in 0..47
    BY <1>2, <1>4 DEF Named, IntNo, Frame, Causes
  <2>2. Denotes(DecDigits(IntNo), 10) = IntNo /\ Plain(DecDigits(IntNo))
    BY <2>1, HalfHas48, DecDigitsDenote
  <2>3. report' = [what |-> "interrupt", number |-> Top.cause[2], digits |-> DecDigits(IntNo),
                   words |-> {}]
    BY <1>4 DEF NameInterrupt
  <2> QED BY <2>1, <2>2, <2>3 DEF Reported
<1>5. CASE PageFault
  <2>1. PICK a \in Addresses :
          report' = [what |-> "fault", number |-> a, digits |-> HexDigits(a),
                     words |-> PageFaultWords(ErrCode)]
    BY <1>5 DEF PageFault
  <2>2. Denotes(HexDigits(a), 16) = a /\ Plain(HexDigits(a))
    BY InterruptsAssumption, HexDigitsDenote
  <2>3. ErrCode = Top.cause[3] /\ ErrCode \in {0, 2}
    BY <1>2 DEF Named, ErrCode, Frame, Causes
  <2>4. PageFaultWords(ErrCode) \ {"present"} =
          IF Top.cause[3] = 2 THEN {"read-only"} ELSE {}
    BY <2>3, FaultWords
  <2>5. halted'
    BY <1>5 DEF PageFault
  <2> QED BY <1>3, <2>1, <2>2, <2>4, <2>5 DEF Reported
<1>6. CASE UNCHANGED <<report, halted>>
  BY <1>1, <1>6 DEF Reported
<1> QED BY <1>4, <1>5, <1>6 DEF Handle, NoCommand, TimerCommand

(* Every number the kernel prints about an interrupt, a fault or a failed  *)
(* assertion is the right one, however many digits it has, and a fault is  *)
(* called read-only exactly when it was a write.                           *)
THEOREM SpecReportsName == Spec => []ReportsName
<1>1. IInv /\ Phases /\ Reported /\ [Next]_vars => Reported'
  <2> SUFFICES ASSUME IInv, Phases, Reported, [Next]_vars PROVE Reported'
    OBVIOUS
  <2>1. CASE UNCHANGED report /\ ~halted
    BY <2>1 DEF Reported
  <2>2. CASE UNCHANGED vars
    BY <2>2 DEF Reported, vars, Top
  <2>3. CASE Handle
    BY <2>3, HandleReported
  <2>4. ASSUME NEW line \in Asserted, Kassert(line) PROVE Reported'
    <3>1. Denotes(DecDigits(line), 10) = line /\ Plain(DecDigits(line))
      BY InterruptsAssumption, DecDigitsDenote
    <3>2. report' = [what |-> "assert", number |-> line, digits |-> DecDigits(line),
                     words |-> {}]
      BY <2>4 DEF Kassert
    <3> QED BY <3>1, <3>2 DEF Reported
  <2> QED BY <2>1, <2>2, <2>3, <2>4
        DEF Next, Main, InMain, Raise, Interrupt, Spurious, Ready, Exception, Enter, Call, Return
<1>2. Reported => ReportsName
  BY DEF Reported, ReportsName
<1>3. Init => Phases /\ InService
  BY DEF Init, Phases, InService, Chip
<1> QED BY <1>1, <1>2, <1>3, InitInv, StepInv, ServedStep, InitReported, PTL DEF Spec
=============================================================================
