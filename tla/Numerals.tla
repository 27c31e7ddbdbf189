------------------------------ MODULE Numerals ------------------------------
(***************************************************************************)
(* monitor_write_hex and monitor_write_dec: the digits they put, most      *)
(* significant first, as numbers.  The prefix 0x is left out.              *)
(***************************************************************************)
EXTENDS Integers, SequencesExt

CONSTANT Nibbles     \* hexadecimal digits of an unsigned int, 8

ASSUME NibblesAssumption == Nibbles \in Nat \ {0, 1}

(* The powers of 16 as a function: the provers know nothing about ^.       *)
PowerOf16[i \in 0..Nibbles] == IF i = 0 THEN 1 ELSE 16 * PowerOf16[i - 1]
Unsigned == 0..(PowerOf16[Nibbles] - 1)
LowerHalf == 0..(PowerOf16[Nibbles] \div 2 - 1)

Nibble(n, i) == (n \div PowerOf16[i]) % 16

(* The loop looks at all nibbles but the last, which is always put.  Its   *)
(* flag noZeroes stays set for as long as nothing has been put.            *)
PutNibbleEager(n, out, i) ==   \* a variant: every zero is skipped
    IF Nibble(n, i) = 0 THEN out ELSE Append(out, Nibble(n, i))
PutNibble(n, out, i) ==
    IF Nibble(n, i) = 0 /\ out = << >> THEN out ELSE Append(out, Nibble(n, i))
Rounds(n) ==
    LET put[k \in 0..(Nibbles - 1)] ==
            IF k = 0 THEN << >> ELSE PutNibble(n, put[k - 1], Nibbles - k)
    IN  put
HexDigits(n) == Append(Rounds(n)[Nibbles - 1], Nibble(n, 0))

(* The decimal digits come out of the loop in reverse.  The number is kept *)
(* in a signed variable: from half of the range on there are none.         *)
Reversed[acc \in LowerHalf] ==
    IF acc = 0 THEN << >> ELSE <<acc % 10>> \o Reversed[acc \div 10]
DecDigits(n) ==
    IF n = 0 THEN <<0>>
    ELSE IF n \in LowerHalf THEN Reverse(Reversed[n]) ELSE << >>

(* What a reader makes of digits: the value of the first k of them.        *)
Values(digits, base) ==
    LET value[k \in 0..Len(digits)] ==
            IF k = 0 THEN 0 ELSE value[k - 1] * base + digits[k]
    IN  value
Denotes(digits, base) == Values(digits, base)[Len(digits)]
Plain(digits) == digits # << >> /\ (Len(digits) > 1 => digits[1] # 0)
=============================================================================
