------------------------------- MODULE CNumber -------------------------------
(***************************************************************************)
(* The number conversions of read_int and read_hex as the builds compute  *)
(* them (glibc, x86-64): strtol accumulates in a 64-bit unsigned long,    *)
(* and a value past LONG_MAX (or past 2^64) gives LONG_MAX; atoi is       *)
(* (int) strtol(s, NULL, 10); the long is converted to int by keeping its *)
(* low 32 bits (gcc's conversion, two's complement).                       *)
(*                                                                         *)
(* TLC integers are 32-bit, so the long is kept as four 16-bit limbs,     *)
(* most significant first.  A digit string is a sequence of digit values. *)
(***************************************************************************)
EXTENDS Integers, Sequences

Limb == 65536

\* LONG_MAX = 2^63 - 1.
LONG_MAX == << Limb \div 2 - 1, Limb - 1, Limb - 1, Limb - 1 >>

\* v * base + d on the limbs, from the least significant one up; the carry
\* out of the top limb is returned with the result.
MulAddLimbs(v, base, d) ==
    LET x4 == v[4] * base + d
        x3 == v[3] * base + x4 \div Limb
        x2 == v[2] * base + x3 \div Limb
        x1 == v[1] * base + x2 \div Limb
    IN  [limbs |-> <<x1 % Limb, x2 % Limb, x3 % Limb, x4 % Limb>>, carry |-> x1 \div Limb]

\* Nothing read yet: the value 0, no overflow.
NoDigits == [limbs |-> <<0, 0, 0, 0>>, over |-> FALSE]

\* One turn of strtol's loop: the value times base plus the digit, and
\* whether it ever passed 2^64 - 1 (glibc's overflow flag, which stays set).
AddDigit(acc, base, d) ==
    LET m == MulAddLimbs(acc.limbs, base, d)
    IN  [limbs |-> m.limbs, over |-> acc.over \/ m.carry > 0]

\* What strtol returns after the loop: past LONG_MAX, LONG_MAX.
Saturate(acc) ==
    IF acc.over \/ acc.limbs[1] >= Limb \div 2 THEN LONG_MAX ELSE acc.limbs

\* strtol(num, NULL, base) for a string of digits.
RECURSIVE Digits2Acc(_, _, _)
Digits2Acc(ds, base, acc) ==
    IF ds = << >> THEN acc
    ELSE CHOOSE r \in {Digits2Acc(Tail(ds), base, a) : a \in {AddDigit(acc, base, Head(ds))}} : TRUE
strtol(ds, base) == Saturate(Digits2Acc(ds, base, NoDigits))

\* (int) of a long: its low 32 bits, read as a signed int.
CastInt(l) ==
    IF l[3] >= Limb \div 2 THEN (l[3] - Limb) * Limb + l[4] ELSE l[3] * Limb + l[4]

atoi(ds) == CastInt(strtol(ds, 10))

\* What the conversions give at the edges: INT_MAX and INT_MIN; 2^32 + 1
\* read as 1 and 2^32 - 2 as -2 (NO_CL); LONG_MAX and anything past it as
\* -1 (IS_TE); a chunk size of 0x100000000 as 0 and 0xfffffffe as -2.
ASSUME /\ atoi(<<2, 1, 4, 7, 4, 8, 3, 6, 4, 7>>) = 2147483647
       /\ atoi(<<2, 1, 4, 7, 4, 8, 3, 6, 4, 8>>) = -2147483647 - 1
       /\ atoi(<<4, 2, 9, 4, 9, 6, 7, 2, 9, 7>>) = 1
       /\ atoi(<<4, 2, 9, 4, 9, 6, 7, 2, 9, 4>>) = -2
       /\ atoi(<<9, 2, 2, 3, 3, 7, 2, 0, 3, 6, 8, 5, 4, 7, 7, 5, 8, 0, 7>>) = -1
       /\ atoi(<<9, 9, 9, 9, 9, 9, 9, 9, 9, 9, 9, 9, 9, 9, 9, 9, 9, 9, 9, 9>>) = -1
       /\ CastInt(strtol(<<1, 0, 0, 0, 0, 0, 0, 0, 0>>, 16)) = 0
       /\ CastInt(strtol(<<15, 15, 15, 15, 15, 15, 15, 14>>, 16)) = -2

=============================================================================
