------------------------------- MODULE MCShell -------------------------------
(* Shell for TLC: a file shorter than a line, one longer than the line     *)
(* buffer, one longer than what cat reads; a name that begins with another,*)
(* one with a 0 in it, and a file called like the directory.               *)
EXTENDS Shell

Bytes(n) == [i \in 1..n |-> IF i % 4 = 0 THEN "nul" ELSE "y"]
MCHost == <<
    [name |-> <<"a", "b">>, data |-> <<"x", "z", "x">>],
    [name |-> <<"a">>, data |-> Bytes(3) \o <<"z">> \o Bytes(8)],
    [name |-> <<"dev">>, data |-> <<"u", "v">>],
    [name |-> <<"b", "0">>, data |-> <<"x">> \o Bytes(12)]>>
MCLines == {
    <<"ls">>, << >>, <<"x", "nul", "x">>,
    <<"x", "y", "y", "y", "y", "y", "y", "y", "z">>, Bytes(14),
    <<"cat", "space", "a">>, <<"cat", "space", "a", "b">>, <<"cat", "space", "b", "0">>, <<"cat">>,
    <<"cat", "space", "dev">>, <<"cat", "space">> \o Bytes(5), <<"cat", "space">> \o Bytes(8),
    <<"x", "y", "y", "y", "y", "y", "y", "y", "0">>, <<"write", "space", "a", "nul", "y", "y", "y">>,
    <<"write", "space", "a">>, <<"write", "space", "a", "b">>, <<"write", "space", "b", "0">>}
MCCharacters == {"nul", "0", "beyond", "dev", "initrd", "space", "a", "b", "u", "v", "x", "y", "z",
                 "ls", "cat", "write"}
=============================================================================
