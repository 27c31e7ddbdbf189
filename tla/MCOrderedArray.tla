--------------------------- MODULE MCOrderedArray ---------------------------
(* OrderedArray for TLC: three holes of three sizes, which change, three   *)
(* slots, and two words behind them.                                       *)
EXTENDS OrderedArray

CONSTANTS h1, h2, h3

MCItems == {h1, h2, h3}
MCKeys == 1..3
=============================================================================
