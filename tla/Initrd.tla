------------------------------- MODULE Initrd -------------------------------
(***************************************************************************)
(* The initial ramdisk, from the host to the kernel: initrd_create.c lays  *)
(* out the image, GRUB loads it at Location, init_initrd makes a node for  *)
(* each of its files, and fs.c calls through the nodes.  A string in       *)
(* memory is a sequence of characters that ends before the first "nul".    *)
(* The functions are operators on the bytes of the files (img) and on the  *)
(* one directory entry that readdir fills and returns (dirent).            *)
(***************************************************************************)
EXTENDS Integers, SequencesExt

CONSTANTS
    Characters,   \* what a byte can be; "beyond" stands for what nobody knows
    Host,         \* what initrd_create is given: <<[name, data], ...>>
    Slots,        \* 64, headers in an image
    HeaderSize,   \* sizeof(initrd_header), on the host and in the kernel
    IntSize,      \* sizeof(int)
    NameSize,     \* 64, of the name in a header
    NodeNameSize, \* 128, of the name in a node and in a directory entry
    Location,     \* where the image is loaded
    Fresh         \* what the memory kmalloc gives out holds, "nul" if cleared

Files == DOMAIN Host
Dev == <<"dev">>

ASSUME InitrdAssumption ==
    /\ {"nul", "0", "beyond", "dev", "initrd", Fresh} \subseteq Characters
    /\ Host \in Seq([name : Seq(Characters), data : Seq(Characters)])
    /\ Slots \in Nat /\ Len(Host) <= Slots
    /\ {HeaderSize, IntSize, Location, NameSize, NodeNameSize} \subseteq Nat
    /\ NameSize < NodeNameSize
    /\ \A f \in Files : Len(Host[f].name) \in 1..(NameSize - 1)
    /\ \A f \in Files : "nul" \notin ToSet(Host[f].name)
    /\ \A f, g \in Files : Host[f].name = Host[g].name => f = g

UpTo(c, s) ==   \* s as far as the first c
    LET i == SelectInSeq(s, LAMBDA x : x = c) IN IF i = 0 THEN s ELSE SubSeq(s, 1, i - 1)
Over(text, dest) == text \o SubSeq(dest, Len(text) + 1, Len(dest))
Strcmp(s, t) == UpTo("nul", s) = UpTo("nul", t)
-----------------------------------------------------------------------------
(* initrd_create: the headers, with offsets from the start of the image,   *)
(* and the files one behind the other.                                     *)
SizeOfFirst[n \in 0..Len(Host)] ==
    IF n = 0 THEN 0 ELSE SizeOfFirst[n - 1] + Len(Host[n].data)
SizeBefore(f) == SizeOfFirst[f - 1]
DataAtNoCount == HeaderSize * Slots   \* a variant: without the word in front
DataAt == HeaderSize * Slots + IntSize
Header(f) == [name |-> Append(Host[f].name, "nul"),
              offset |-> DataAt + SizeBefore(f),
              length |-> Len(Host[f].data)]

(* What it then writes: the number of files, all the headers, the files.   *)
FilesAt == IntSize + HeaderSize * Slots
Written[n \in 0..Len(Host)] == IF n = 0 THEN << >> ELSE Written[n - 1] \o Host[n].data
Image == Written[Len(Host)]

(* init_initrd makes the offsets addresses and copies the names.  This     *)
(* strcpy does not copy the 0 that ends a string.                          *)
Mounted(f) == [Header(f) EXCEPT !.offset = @ + Location]
FreshName == [i \in 1..NodeNameSize |-> Fresh]
FileNode(f) ==
    [name |-> Over(UpTo("nul", Header(f).name), FreshName), flags |-> "file", inode |-> f,
     read |-> TRUE, write |-> TRUE, readdir |-> FALSE, finddir |-> FALSE]
Directory(name) ==
    [name |-> Over(name, FreshName), flags |-> "directory", inode |-> 0,
     read |-> FALSE, write |-> FALSE, readdir |-> TRUE, finddir |-> TRUE]
RootNode == Directory(<<"initrd">>)
DevNode == Directory(Dev)
NoNode == [flags |-> "none"]
-----------------------------------------------------------------------------
(* initrd.c behind fs.c.  readdir ends the name it copies into the entry   *)
(* by hand, so nothing of a longer name from before stays visible.         *)
CopiedUnended(name, dirent) == Over(name, dirent)   \* a variant: not by hand
Copied(name, dirent) == Over(Append(name, "nul"), dirent)
IsRoot(node) == node = RootNode
NoEntry == << >>
InitrdReaddir(node, index, dirent) ==
    CASE IsRoot(node) /\ index = 0 -> Copied(Dev, dirent)
      [] index \in Files -> Copied(UpTo("nul", FileNode(index).name), dirent)
      [] OTHER -> NoEntry

InitrdFinddir(node, name) ==
    LET same == {f \in Files : Strcmp(name, FileNode(f).name)}
    IN  CASE IsRoot(node) /\ Strcmp(name, Dev) -> DevNode
          [] ~(IsRoot(node) /\ Strcmp(name, Dev)) /\ same = {} -> NoNode
          [] OTHER -> FileNode(CHOOSE f \in same : \A g \in same : f <= g)

Byte(address) == address - Location - FilesAt + 1   \* its place in the files' bytes

(* What is left of the file when it is shorter than the size asked for.    *)
ReadUnlimited(header, offset, size) ==   \* a variant: as much as was asked for
    IF offset > header.length THEN 0 ELSE size
ReadLength(header, offset, size) ==
    CASE offset > header.length -> 0
      [] offset <= header.length /\ offset + size > header.length -> header.length - offset
      [] OTHER -> size
InitrdRead(img, node, offset, size) ==
    LET header == Mounted(node.inode)
    IN  [i \in 1..ReadLength(header, offset, size) |->
            IF Byte(header.offset + offset + i - 1) \in DOMAIN img
            THEN img[Byte(header.offset + offset + i - 1)] ELSE "beyond"]

Memcpy(memory, dest, src, len) ==
    [i \in DOMAIN memory |->
        IF i \notin dest..(dest + len - 1) THEN memory[i]
        ELSE IF i - dest + 1 \in DOMAIN src THEN src[i - dest + 1] ELSE "beyond"]

(* write is given a size and ignores it: it copies as much as the file is  *)
(* long, from the buffer and from what lies behind it.                     *)
WriteLengthLine(header, size) ==   \* a variant: the length of a line
    8
WriteLength(header, size) == header.length
InitrdWrite(img, node, offset, size, buffer) ==
    LET header == Mounted(node.inode)
    IN  Memcpy(img, Byte(header.offset + offset), buffer, WriteLength(header, size))
-----------------------------------------------------------------------------
(* fs.c: a node without the function has nothing done to it.               *)
ReadFs(img, node, offset, size) ==
    IF node.read THEN InitrdRead(img, node, offset, size) ELSE << >>
WriteFs(img, node, offset, size, buffer) ==
    IF node.write THEN InitrdWrite(img, node, offset, size, buffer) ELSE img
ReaddirFs(node, index, dirent) ==
    IF node.flags = "directory" /\ node.readdir
    THEN InitrdReaddir(node, index, dirent) ELSE NoEntry
FinddirFs(node, name) ==
    IF node.flags = "directory" /\ node.finddir THEN InitrdFinddir(node, name) ELSE NoNode

(* The entry after every round of a loop over the root directory.          *)
Entries(dirent) ==
    LET entry[i \in 0..Len(Host)] ==
            ReaddirFs(RootNode, i, IF i = 0 THEN dirent ELSE entry[i - 1])
    IN  entry
=============================================================================
