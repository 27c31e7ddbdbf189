------------------------------ MODULE MCTerminal ------------------------------
(* Terminal for TLC: commands print nothing, take the cursor near the end   *)
(* of a row, only move it, or clear the screen.                             *)
EXTENDS Terminal

MCTexts == {<< >>, <<"clear">>, <<"tab", "other", "newline">>,
            <<" ", "backspace", " ", " ", "return">>,
            <<"newline", "tab", " ", " ", " ", " ", " ">>}
=============================================================================
