-------------------------------- MODULE Word --------------------------------
(***************************************************************************)
(* The machine words of the emulator: uint8_t bytes and uint16_t words,    *)
(* and the C operators on them that execute.c uses.  A byte seen by a      *)
(* bitwise operator is the set of the positions of its one bits, so that   *)
(* &, | and ^ are intersection, union and symmetric difference.            *)
(***************************************************************************)
EXTENDS Integers

Byte == 0 .. 255
Addr == 0 .. 65535

\* Truncation by assignment to a uint8_t and to a uint16_t.
U8(x)  == x % 256
U16(x) == x % 65536

\* The bytes of a word, and the word h << 8 | l of two bytes.
Lo(w) == w % 256
Hi(w) == (w \div 256) % 256
Pair(h, l) == (256 * h) + l

\* x & (1 << i), as a truth value.
Pow2 == [i \in 0 .. 7 |-> <<1, 2, 4, 8, 16, 32, 64, 128>>[i + 1]]
HasBit(x, i) == (x \div Pow2[i]) % 2 = 1

\* The sign bit of the low byte of x, and the byte read as an int8_t.
Sign(x) == U8(x) >= 128
Signed(x) == IF Sign(x) THEN U8(x) - 256 ELSE U8(x)

Bits(x) == {i \in 0 .. 7 : HasBit(x, i)}
BitIn(s, i) == IF i \in s THEN Pow2[i] ELSE 0
FromBits(s) == BitIn(s, 0) + BitIn(s, 1) + BitIn(s, 2) + BitIn(s, 3)
                 + BitIn(s, 4) + BitIn(s, 5) + BitIn(s, 6) + BitIn(s, 7)

And8(a, b) == FromBits(Bits(a) \cap Bits(b))
Or8(a, b)  == FromBits(Bits(a) \cup Bits(b))
Xor8(a, b) == FromBits((Bits(a) \cup Bits(b)) \ (Bits(a) \cap Bits(b)))
Not8(a)    == 255 - a
=============================================================================
