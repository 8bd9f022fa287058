---------------------------- MODULE Fingerprint ----------------------------
(***************************************************************************)
(* The cache file name of cache.c: `hash(host, resource)`.  The resource  *)
(* is read as 4-byte little-endian unsigned words, n = n * 31 + word with *)
(* unsigned 32-bit wrap-around, and a last partial word is padded with    *)
(* zero bytes on the right.  The host argument is never read.             *)
(*                                                                         *)
(* TLC integers are 32-bit signed, so an unsigned int is kept as its two  *)
(* 16-bit halves <<hi, lo>>.  `sprintf("%u")` renders the value in        *)
(* decimal, which is injective, so the pair itself stands for the name.   *)
(* Strings are sequences of byte values 1..255 (a C string has no NUL).   *)
(***************************************************************************)
EXTENDS Naturals, Sequences

Half == 65536

\* *((unsigned int*) p) for p = &s[i], on a little-endian machine.
Word(s, i) == << s[i + 2] + 256 * s[i + 3], s[i] + 256 * s[i + 1] >>

\* n * 31 + w in unsigned 32-bit arithmetic.
MulAdd31(n, w) ==
    LET lo == n[2] * 31 + w[2]
    IN  << (n[1] * 31 + w[1] + lo \div Half) % Half, lo % Half >>

\* The first loop: whole words while four more bytes are non-zero.
\* Returns the index of the first byte not consumed and the value.
RECURSIVE HashWords(_, _, _)
HashWords(s, i, n) ==
    IF i + 3 <= Len(s)
    THEN HashWords(s, i + 4, MulAdd31(n, Word(s, i)))
    ELSE [i |-> i, n |-> n]

\* rem[]: the 0..3 remaining bytes, then memset(rem + i, 0, 4 - i).
ZeroPad(t) == t \o [j \in 1..(4 - Len(t)) |-> 0]

hash(resource) ==
    LET h == HashWords(resource, 1, <<0, 0>>)
    IN  IF h.i > Len(resource)
        THEN h.n
        ELSE MulAdd31(h.n, Word(ZeroPad(SubSeq(resource, h.i, Len(resource))), 1))

=============================================================================
