------------------------------ MODULE FileStore ------------------------------
(***************************************************************************)
(* What the shell promises about files: writing takes two lines, the one   *)
(* that asks for it and the text; the text replaces the beginning of at    *)
(* most one file, whose length stays; and what is shown of a file is the   *)
(* text it begins with.                                                    *)
(***************************************************************************)
EXTENDS SequencesExt

CONSTANTS
    Files,
    Initial,   \* their contents at first
    Texts,     \* what can be typed
    End,       \* the character that ends a text
    Limit      \* how much of a file is shown at most

VARIABLES
    store,     \* the contents of every file
    writing,   \* whether the next line is a text
    shown      \* what the last line has shown of a file

vars == <<store, writing, shown>>

Visible(content) ==
    LET ends == {i \in DOMAIN content : content[i] = End \/ i = Limit + 1}
    IN  IF ends = {} THEN content ELSE SubSeq(content, 1, Min(ends) - 1)

BeginsWith(content, text) ==
    \A i \in DOMAIN content \cap DOMAIN text : content[i] = text[i]

Shows == shown' = << >> \/ \E f \in Files : shown' = Visible(store[f])

Command == Shows /\ UNCHANGED <<store, writing>>
Ask     == ~writing /\ writing' = TRUE /\ Shows /\ UNCHANGED store
Drop    == writing /\ writing' = FALSE /\ Shows /\ UNCHANGED store
Save(f, text) ==
    /\ writing /\ writing' = FALSE
    /\ \A g \in Files \ {f} : store'[g] = store[g]
    /\ Len(store'[f]) = Len(store[f])
    /\ BeginsWith(store'[f], Append(text, End))
    /\ Shows

Init == store = Initial /\ ~writing /\ shown = << >>
Next == Command \/ Ask \/ Drop \/ \E f \in Files, text \in Texts : Save(f, text)

Spec == Init /\ [][Next]_vars
=============================================================================
