------------------------------- MODULE Terminal -------------------------------
(***************************************************************************)
(* The keyboard and the screen together: a scan code becomes a character,  *)
(* typing puts it into the line buffer and onto the screen, and at the end *)
(* of a line the shell prints what it likes and then a prompt.  What users *)
(* see is all they know of the line that is interpreted.                   *)
(* The shell of "Dec 3" (that of "Nov 15" is the same) has a command that  *)
(* starts a timer whose every tick prints a line, between any two keys.    *)
(* Handlers exclude each other, see Interrupts: while one has something    *)
(* left to print, no other runs.  A handler's stores to the line buffer,   *)
(* which only handlers read, are made before it prints.                    *)
(***************************************************************************)
EXTENDS Monitor

CONSTANTS
    Builds,     \* which of "Dec 3" and "current" are looked at
    Codes,      \* the scan codes that the keyboard sends
    Letter,     \* the glyph of all keys that have one, the space bar aside
    Texts,      \* what commands print, with "clear" for a call of clear
    BufSize,    \* 100, size of buf; no line is longer, see Shell
    Byte,       \* 256, what a register of the screen's controller holds
    MaxTicks    \* bound: ticks that print

ASSUME TerminalAssumption ==
    /\ Codes \subseteq 0..255 /\ Letter \in Glyphs \ {Blank}
    /\ {"nul", "clear"} \cap Glyphs = {}
    /\ Texts \subseteq Seq(Glyphs \cup Controls \cup {"clear"})
    /\ {BufSize, Byte} \subseteq Nat \ {0} /\ Width * Height <= Byte * Byte /\ MaxTicks \in Nat

VARIABLES
    build,      \* the state of the sources that is running
    crtc,       \* the screen's controller: selected register, registers 14, 15
    buf, char_ptr,
    out,        \* what the handler that runs has still to print
    timing,     \* whether the Dec 3 timer has its handler
    tick,       \* how often that has printed
    base, from  \* history: where in buf and on the paper the text begins that
                \* was typed since something was printed

tvars == <<build, crtc, buf, char_ptr, out, timing, tick, base, from>>
-----------------------------------------------------------------------------
(* kbarray: the keys without a character have a 0 there, which typing      *)
(* takes for one.  Codes from 128 on say that a key was released.          *)
NoCharacter == {0, 29, 42, 54, 56, 75, 76, 77} \cup 58..73 \cup 79..127
kbarray(code) ==
    CASE code \in NoCharacter -> "nul"
      [] code = 1  -> "other"
      [] code = 14 -> "backspace"
      [] code = 15 -> "tab"
      [] code = 28 -> "newline"
      [] code = 57 -> Blank
      [] OTHER -> Letter
Released(code) == code >= 128

(* move_cursor tells the controller where the cursor is, in two registers. *)
CrtcWrite(c, write) ==
    CASE write[1] = "index" -> [c EXCEPT !.index = write[2]]
      [] write[1] = "data" /\ c.index = 14 -> [c EXCEPT !.high = write[2]]
      [] write[1] = "data" /\ c.index = 15 -> [c EXCEPT !.low = write[2]]
MoveCursor(location) ==
    <<<<"index", 14>>, <<"data", location \div Byte>>,
      <<"index", 15>>, <<"data", location % Byte>>>>
Blinks ==
    LET w == MoveCursor(cursor_y' * Width + cursor_x')
    IN  crtc' = CrtcWrite(CrtcWrite(CrtcWrite(CrtcWrite(crtc, w[1]), w[2]), w[3]), w[4])

MonitorPut(c) == Put(IF c = "nul" THEN "other" ELSE c) /\ Blinks
MonitorClear == Clear /\ Blinks

(* A place on the endless paper, of which the screen shows the end.        *)
Place == (Len(above) + cursor_y) * Width + cursor_x
TextTo(place) ==
    [i \in 1..(place - from) |->
        (above \o [y \in 1..Height |-> Row(y - 1)])
            [(from + i - 1) \div Width + 1][(from + i - 1) % Width]]

(* monitor_write, a character a step, and monitor_clear.                   *)
MonitorWrite ==
    /\ out # << >>
    /\ IF Head(out) = "clear" THEN MonitorClear ELSE MonitorPut(Head(out))
    /\ out' = Tail(out)
    /\ from' = Place'
    /\ UNCHANGED <<build, buf, char_ptr, timing, tick, base>>
-----------------------------------------------------------------------------
(* init_buf: a prompt, and a buffer full of the digit 0.                   *)
InitBufKeepsPtr ==   \* a variant: char_ptr is not reset
    /\ buf' = [i \in 0..(BufSize - 1) |-> "0"]
    /\ UNCHANGED char_ptr
InitBuf ==
    /\ buf' = [i \in 0..(BufSize - 1) |-> "0"]
    /\ char_ptr' = 0
PromptText == IF build = "Dec 3" THEN <<Letter>> ELSE <<Letter, Blank>>

(* main prints, and ends with init_typing.                                 *)
InitTerminal ==
    /\ Init
    /\ build \in Builds
    /\ crtc = [index |-> 14, high |-> 0, low |-> 0]
    /\ buf = [i \in 0..(BufSize - 1) |-> "0"] /\ char_ptr = 0
    /\ \E text \in Texts : out = text \o PromptText
    /\ timing = FALSE /\ tick = 0 /\ base = 0 /\ from = 0

(* typing.  Every key but Enter goes into the buffer and to monitor_put.   *)
Stores(c) == [buf EXCEPT ![char_ptr] = c]
Character(c) ==
    /\ c # "newline" /\ char_ptr < BufSize - 1
    /\ MonitorPut(c)
    /\ buf' = Stores(c) /\ char_ptr' = char_ptr + 1
    /\ UNCHANGED <<out, timing, base, from>>

(* interpret prints something or not, and calls init_buf.  In Dec 3 the    *)
(* timer command registers the handler that prints.                        *)
Enter ==
    /\ MonitorPut("newline")
    /\ \E text \in Texts : out' = text \o PromptText
    /\ timing' \in {timing, timing \/ build = "Dec 3"}
    /\ InitBuf
    /\ base' = 0 /\ from' = Place'

Typing(code) ==
    /\ out = << >> /\ ~Released(code)
    /\ \/ Character(kbarray(code))
       \/ kbarray(code) = "newline" /\ Enter
    /\ UNCHANGED <<build, tick>>

(* The first timer's handler.  The digits of the number are left out.      *)
Tick ==
    /\ timing /\ out = << >> /\ tick < MaxTicks
    /\ out' = <<Letter, "newline">>
    /\ tick' = tick + 1
    /\ base' = char_ptr
    /\ UNCHANGED <<vars, build, crtc, buf, char_ptr, timing, from>>

NextTerminal == MonitorWrite \/ Tick \/ \E code \in Codes : Typing(code)

SpecTerminal == InitTerminal /\ [][NextTerminal]_<<vars, tvars>>
-----------------------------------------------------------------------------
(* The cursor blinks where the next character goes, and the line in the    *)
(* buffer is what the screen shows: the glyphs from where the text begins  *)
(* to the cursor are those that were stored, in their order, over the ends *)
(* of rows and while rows scroll away; and with the 0 that Enter stores,   *)
(* they are the string that interpret finds.  A key without a character    *)
(* shows nothing and yet ends that string.  Lines with backspaces, tabs    *)
(* and escapes are excluded: the screen moves its cursor, the buffer keeps *)
(* the characters.                                                         *)
Typed == [i \in 1..(char_ptr - base) |-> buf[base + i - 1]]
Echoed(line) == \A i \in DOMAIN line : line[i] \notin Controls
Shows(text, line) ==   \* text is line without the keys that show nothing
    \E key \in [DOMAIN text -> DOMAIN line] :
        /\ \A i, j \in DOMAIN text : i < j => key[i] < key[j]
        /\ \A i \in DOMAIN text : text[i] = line[key[i]]
        /\ \A k \in DOMAIN line : line[k] = "nul" <=> \A i \in DOMAIN text : key[i] # k
Interpreted ==
    LET ends == {i \in 0..(BufSize - 1) : Stores("nul")[i] = "nul"}
    IN  [i \in 1..Min(ends) |-> buf[i - 1]]
LineAsShown ==
    /\ crtc.high * Byte + crtc.low = cursor_y * Width + cursor_x
    /\ out = << >> /\ Echoed(Typed) =>
         /\ Shows(TextTo(Place), Typed)
         /\ base = 0 => IsPrefix(Interpreted, TextTo(Place))
         /\ base = 0 /\ "nul" \notin ToSet(Typed) => Interpreted = TextTo(Place)
=============================================================================
