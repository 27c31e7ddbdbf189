-------------------------------- MODULE Shell --------------------------------
(***************************************************************************)
(* main.c's shell over the ramdisk.  interpret runs inside the keyboard's  *)
(* handler, and every way out of it clears the line buffer, so a line and  *)
(* what it does are one step.  Characters are strings; a command word      *)
(* counts as one character.  "nul" is the character 0, "0" the digit, with *)
(* which the kernel fills its buffers, "space" the space.  What a command  *)
(* does to the timer or the threads is left to other modules.              *)
(***************************************************************************)
EXTENDS Initrd

CONSTANTS
    Lines,        \* what users type before they press Enter
    BufSize,      \* 100, size of buf
    Spare,        \* 68, bytes between buf and the code segment's descriptor
    InternalSize, \* 1024, size of internal_buf
    ReadSize      \* 256, what cat reads of a file

ASSUME ShellAssumption ==
    /\ Lines \subseteq Seq(Characters)
    /\ {BufSize, Spare, InternalSize, ReadSize} \subseteq Nat
    /\ BufSize + Spare <= InternalSize

VARIABLES
    image,          \* the bytes of all files, as the image has them in memory
    behind,         \* what lies behind buf
    internal_buf,
    dirent,         \* the name in the directory entry
    input,          \* whether the next line is a text
    status,         \* "ok", or "wild": memory of others is read or overwritten
    shown,          \* history: what the last line has printed of a file
    listing,        \* history: the names the last line has printed
    query,          \* history: the last line, if it was to show something
    asked           \* history: the file name that came with "write", until the text

history == <<shown, listing, query, asked>>
vars == <<image, behind, internal_buf, dirent, input, status, history>>

Filler(n) == [i \in 1..n |-> "0"]

(* typing: the line as interpret finds it in buf, and what a line that is  *)
(* too long for it leaves behind it.  init_buf has cleared only buf.       *)
Typed(line) == Over(Append(line, "nul"), Filler(BufSize) \o behind)
TooLong(line) == Len(line) + 1 > BufSize + Spare

(* strtail: what follows the first space, as far as the next "0".  A line  *)
(* of at most BufSize - 2 characters has left one behind itself; behind a  *)
(* longer one lies what lay there before, and the copy may find no end.    *)
(* The first character is copied without being looked at.                  *)
TailAt(b) == SelectInSeq(b, LAMBDA c : c = "space") + 1
StrTailText(b) ==   \* a variant: the terminating 0 is not copied
    LET t == SubSeq(b, TailAt(b), Len(b)) IN UpTo("nul", t)
StrTail(b) ==
    LET t == SubSeq(b, TailAt(b), Len(b)) IN <<t[1]>> \o UpTo("0", SubSeq(t, 2, Len(t)))
Ends(b) == \E i, j \in DOMAIN b : b[i] = "space" /\ i + 2 <= j /\ b[j] = "0"
Tailed(b, dest) == Over(StrTail(b), dest)

(* cat and write go through the directory to its end and act on every      *)
(* entry of that name; list prints the names that are not empty.           *)
Named(b) ==
    LET entry == Entries(dirent)
    IN  {FinddirFs(RootNode, entry[i]) :
            i \in {j \in DOMAIN entry : Strcmp(entry[j], b)}}
FilesNamed(b) == {node \in Named(b) : node.flags = "file"}
Cat(b) ==
    IF FilesNamed(b) = {} THEN << >>
    ELSE UpTo("nul", ReadFs(image, CHOOSE node \in FilesNamed(b) : TRUE, 0, ReadSize))
Write(b, text) ==
    {WriteFs(image, node, 0, 0, text) : node \in FilesNamed(b)}
Listed ==
    LET entry == Entries(dirent)
        name(i) == UpTo("nul", entry[i - 1])
        listed[i \in 0..(Len(Host) + 1)] ==
            CASE i = 0 -> << >>
              [] i > 0 /\ name(i) = << >> -> listed[i - 1]
              [] OTHER -> Append(listed[i - 1], name(i))
    IN  listed
List == Listed[Len(Host) + 1]
-----------------------------------------------------------------------------
Init ==
    /\ image = Image
    /\ behind = [i \in 1..Spare |-> "nul"]
    /\ internal_buf = [i \in 1..InternalSize |-> "nul"]
    /\ dirent = [i \in 1..NodeNameSize |-> "nul"]
    /\ input = FALSE /\ status = "ok"
    /\ shown = << >> /\ listing = << >> /\ query = << >> /\ asked = << >>

Is(word, b) == UpTo("nul", b) = <<word>>
StartsWith(word, b) == b[1] = word

(* interpret, in its own order: a text is looked at as a command first.    *)
(* A file name is looked for in what lies in buf and behind it; a command  *)
(* without a space, or without a digit that ends the name, takes strtail   *)
(* out of there.                                                           *)
Interpret(line) ==
    LET b == Typed(line)
        lists == Is("ls", b)
        cats == StartsWith("cat", b)
        writes == StartsWith("write", b) /\ ~input
        saves == input
        clean == IF input THEN internal_buf ELSE Filler(InternalSize)
        named == IF cats \/ writes THEN Tailed(b, clean) ELSE clean
        saved == IF saves THEN Write(named, b) ELSE {}
        lost == TooLong(line) \/ ((cats \/ writes) /\ ~Ends(b))
    IN  /\ status = "ok"
        /\ \/ /\ lost
              /\ status' = "wild"
              /\ query' = << >>
              /\ UNCHANGED <<image, behind, internal_buf, dirent, input>>
              /\ UNCHANGED <<shown, listing, asked>>
           \/ /\ ~lost
              /\ behind' = SubSeq(b, BufSize + 1, BufSize + Spare)
              /\ internal_buf' = named
              /\ dirent' = IF lists \/ cats \/ saves
                           THEN Entries(dirent)[Len(Host)] ELSE dirent
              /\ listing' = IF lists THEN List ELSE << >>
              /\ query' = IF lists \/ cats THEN line ELSE << >>
              /\ shown' = IF cats THEN Cat(named) ELSE << >>
              /\ input' = writes
              /\ asked' = IF writes THEN UpTo("nul", SubSeq(b, TailAt(b), Len(b))) ELSE << >>
              /\ IF saved # {} THEN image' \in saved ELSE UNCHANGED image
              /\ UNCHANGED status

Next == \E line \in Lines : Interpret(line)

Spec == Init /\ [][Next]_vars
-----------------------------------------------------------------------------
(* What belongs to a file: the stretch of the bytes it had on the host.    *)
Content(f) == [i \in 1..Len(Host[f].data) |-> image[SizeBefore(f) + i]]

Store == INSTANCE FileStore WITH
    Initial <- [f \in Files |-> Host[f].data],
    Texts <- Lines, End <- "nul", Limit <- ReadSize,
    store <- [f \in Files |-> Content(f)], writing <- input

(* The files start as the host had them and change only by the line that   *)
(* follows a "write", one file at a time and within its length, though the *)
(* copy ignores the size it is given; the file then begins with the text,  *)
(* and cat shows what is there.                                            *)
ImplementsFileStore == Store!Spec

Reachable(f) == "0" \notin ToSet(Tail(Host[f].name)) /\ Host[f].name # Dev

(* "cat" followed by the name of a host file shows that file, whatever     *)
(* longer names were in internal_buf and in the directory entry before.    *)
(* Names with a 0 in them are out of reach, because strtail takes the      *)
(* digit for the end of the buffer, and so is a host file called "dev".    *)
CatFinds ==
    [][\A f \in Files :
        Reachable(f) /\ query' = <<"cat", "space">> \o Host[f].name
        => shown' = Store!Visible(Content(f))]_vars

(* "ls" prints every name once, and none with the rest of another one.     *)
ListsAll ==
    [][query' = <<"ls">> =>
        listing' = <<Dev>> \o [f \in Files |-> Host[f].name]]_vars

(* "write [to file]": the file that changes is the one that was named.     *)
(* (Finding: a text that begins with "cat" names another one.)             *)
WritesToNamed ==
    [][\A f \in Files : Content(f)' # Content(f) => Host[f].name = asked]_vars
=============================================================================
