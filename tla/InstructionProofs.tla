------------------------- MODULE InstructionProofs -------------------------
(***************************************************************************)
(* The operators that the emulator and the assembler are built from, and   *)
(* the programs one writes and the other runs.                             *)
(*                                                                         *)
(* The operations of Alu return bytes and sets of flags, whatever bytes    *)
(* and flags they are given.                                               *)
(*                                                                         *)
(* The chain of masks in execute has one answer for every word: HandlerIs  *)
(* says by the digits of an opcode which handler its first match is, and   *)
(* there is a lemma for every operand type of the assembler that says the  *)
(* opcode of a line reaches a handler of the line's mnemonic, which finds  *)
(* the operands of the line in it.  The four hexadecimal digits of the     *)
(* opcode carry these proofs: every mask of the chain, every operand       *)
(* field, and every place where get_operand puts an operand is a matter of *)
(* whole digits, or of one digit divided.                                  *)
(*                                                                         *)
(* A program is the bytes of its lines, one line after the other: each     *)
(* lies where pass 1 placed it, by induction over the lines (ImageHolds).  *)
(***************************************************************************)
EXTENDS Alu, ProgramText, SequenceTheorems, WellFoundedInduction, TLAPS

\* Membership of Addr as bounds; the provers would list the 65536 elements of
\* a literal interval, hence the name for its end.
LEMMA AddrBounds ==
  ASSUME NEW n
  PROVE  n \in Addr <=> n \in Int /\ 0 <= n /\ n <= 65535
<1> DEFINE top == 65535
<1>1. Addr = 0 .. top
  BY DEF Addr
<1>2. top \in Int /\ \A m \in Int : m <= top <=> m <= 65535
  OBVIOUS
<1> HIDE DEF top
<1>3. n \in 0 .. top <=> n \in Int /\ 0 <= n /\ n <= top
  BY <1>2
<1> QED
  BY <1>1, <1>2, <1>3

\* A byte is a number.
LEMMA ByteIsInt ==
  ASSUME NEW b \in Byte
  PROVE  b \in Int
BY DEF Byte

\* Truncation yields bytes and words.
LEMMA Truncation ==
  ASSUME NEW x \in Int
  PROVE  U8(x) \in Byte /\ U16(x) \in Addr
<1>1. U16(x) \in Int /\ 0 <= U16(x) /\ U16(x) <= 65535
  BY DEF U16
<1>2. U8(x) \in Byte
  BY DEF U8, Byte
<1> QED
  BY <1>1, <1>2, AddrBounds

\* A byte read as an int8_t is a number.
LEMMA SignedIsInt ==
  ASSUME NEW x \in Int
  PROVE  Signed(x) \in Int
<1>1. U8(x) \in Int
  BY Truncation, ByteIsInt
<1> QED
  BY <1>1 DEF Signed

\* The two bytes of a word.
LEMMA Halves ==
  ASSUME NEW w \in Addr
  PROVE  Lo(w) \in Byte /\ Hi(w) \in Byte
<1>1. w \in Int /\ w \div 256 \in Int
  BY AddrBounds
<1> QED
  BY <1>1 DEF Lo, Hi, Byte

\* Two bytes make a word.
LEMMA PairIsAddr ==
  ASSUME NEW h \in Byte, NEW l \in Byte
  PROVE  Pair(h, l) \in Addr
<1>1. Pair(h, l) \in Int /\ 0 <= Pair(h, l) /\ Pair(h, l) <= 65535
  BY DEF Pair, Byte
<1> QED
  BY <1>1, AddrBounds

\* Any set of positions makes a byte.
LEMMA FromBitsIsByte ==
  ASSUME NEW s
  PROVE  FromBits(s) \in Byte
BY DEF FromBits, BitIn, Pow2, Byte

\* The bitwise operators yield bytes.
LEMMA BitwiseBytes ==
  ASSUME NEW a \in Byte, NEW b \in Byte
  PROVE  /\ And8(a, b) \in Byte /\ Or8(a, b) \in Byte
         /\ Xor8(a, b) \in Byte /\ Not8(a) \in Byte
<1>1. Not8(a) \in Byte
  BY DEF Not8, Byte
<1> QED
  BY <1>1, FromBitsIsByte DEF And8, Or8, Xor8

\* The flag helpers keep sreg a set of flags.
LEMMA PutFlags ==
  ASSUME NEW s \in SUBSET Flags, NEW flag \in Flags, NEW on \in BOOLEAN
  PROVE  Put(s, flag, on) \in SUBSET Flags
BY DEF Put

\* check_zsnf, check_cv and check_subf of run_misc.c keep sreg a set of flags.
LEMMA FlagHelpers ==
  ASSUME NEW s \in SUBSET Flags, NEW r, NEW a, NEW b
  PROVE  /\ CheckZsnf(r, s) \in SUBSET Flags
         /\ CheckCv(r, a, b, s) \in SUBSET Flags
         /\ CheckSubf(r, a, b, s) \in SUBSET Flags
BY DEF CheckZsnf, CheckCv, CheckSubf, Put, Flags

\* The carry into an operation is a bit.
LEMMA CarryIsBit ==
  ASSUME NEW s
  PROVE  CarryIn(s) \in 0 .. 1
BY DEF CarryIn

------------------------------------------------------------------------------
\* A byte with its flags, and a pair of bytes.
IsResult(res) == res.val \in Byte /\ res.sreg \in SUBSET Flags
IsPair(res) == res.lo \in Byte /\ res.hi \in Byte

\* The operations that store in Rd.
LEMMA SumsAreResults ==
  ASSUME NEW a \in Byte, NEW b \in Byte, NEW c \in 0 .. 1, NEW s \in SUBSET Flags
  PROVE  /\ IsResult(AddBytes(a, b, c, s))
         /\ IsResult(SubBytes(a, b, c, s))
         /\ CompareBytes(a, b, c, s) \in SUBSET Flags
<1>1. a + b + c \in Int /\ a - b - c \in Int
  BY DEF Byte
<1>2. U16(a + b + c) \in Int /\ U16(a - b - c) \in Int
  <2>1. U16(a + b + c) \in Addr /\ U16(a - b - c) \in Addr
    BY <1>1, Truncation
  <2> QED
    BY <2>1, AddrBounds
<1>3. U8(U16(a + b + c)) \in Byte /\ U8(U16(a - b - c)) \in Byte
  BY <1>2, Truncation
<1>4. CheckCv(U16(a + b + c), a, b, s) \in SUBSET Flags
      /\ CheckCv(U16(a - b - c), a, b, s) \in SUBSET Flags
  BY FlagHelpers
<1> QED
  BY <1>3, <1>4, FlagHelpers DEF IsResult, AddBytes, SubBytes, CompareBytes

\* The operations on one byte.
LEMMA UnaryResults ==
  ASSUME NEW a \in Byte, NEW s \in SUBSET Flags
  PROVE  /\ IsResult(Logical(a, s))
         /\ IsResult(Complement(a, s))
         /\ IsResult(Increment(a, s))
         /\ IsResult(Decrement(a, s))
         /\ IsResult(Negate(a, s))
<1>1. s \ {"V"} \in SUBSET Flags /\ (s \cup {"C"}) \ {"V"} \in SUBSET Flags
  BY DEF Flags
<1>2. \A on \in BOOLEAN : Put(s, "V", on) \in SUBSET Flags
  BY PutFlags DEF Flags
<1>3. Not8(a) \in Byte /\ U8(a + 1) \in Byte /\ U8(a - 1) \in Byte
      /\ U8(256 - a) \in Byte
  <2>1. a + 1 \in Int /\ a - 1 \in Int /\ 256 - a \in Int
    BY DEF Byte
  <2> QED
    BY <2>1, Truncation, BitwiseBytes
<1>4. IsResult(Logical(a, s)) /\ IsResult(Complement(a, s))
  BY <1>1, <1>3, FlagHelpers DEF IsResult, Logical, Complement
<1>5. IsResult(Increment(a, s)) /\ IsResult(Decrement(a, s))
  BY <1>2, <1>3, FlagHelpers DEF IsResult, Increment, Decrement
<1>6. IsResult(Negate(a, s))
  <2> DEFINE v == IF a = 128 THEN a ELSE U8(256 - a)
  <2>1. v \in Byte
    BY <1>3
  <2>2. Put(Put(s, "V", v = 128), "C", v # 0) \in SUBSET Flags
    BY DEF Put, Flags
  <2> QED
    BY <2>1, <2>2, FlagHelpers DEF IsResult, Negate
<1> QED
  BY <1>4, <1>5, <1>6

\* The shifts to the right, and swap.
LEMMA ShiftResults ==
  ASSUME NEW a \in Byte, NEW top \in BOOLEAN, NEW s \in SUBSET Flags
  PROVE  IsResult(ShiftRight(a, top, s)) /\ Swapped(a) \in Byte
<1> DEFINE v == (a \div 2) + (IF top THEN 128 ELSE 0)
           f == CheckZsnf(v, Put(s, "C", a % 2 = 1))
<1>1. v \in Byte
  BY DEF Byte
<1>2. Put(s, "C", a % 2 = 1) \in SUBSET Flags
  BY DEF Put, Flags
<1>3. f \in SUBSET Flags
  BY <1>2, FlagHelpers
<1>4. f \cup {"V"} \in SUBSET Flags
  BY <1>3 DEF Flags
<1>5. IsResult(ShiftRight(a, top, s))
  BY <1>1, <1>3, <1>4 DEF IsResult, ShiftRight
<1>6. Swapped(a) \in Byte
  BY FromBitsIsByte DEF Swapped, Or8
<1> QED
  BY <1>5, <1>6

\* The operations on pairs.
LEMMA WordResults ==
  ASSUME NEW lo \in Byte, NEW hi \in Byte, NEW k \in 0 .. 63, NEW s \in SUBSET Flags
  PROVE  /\ IsPair(AddWord(lo, hi, k, s)) /\ AddWord(lo, hi, k, s).sreg \in SUBSET Flags
         /\ IsPair(SubWord(lo, hi, k, s)) /\ SubWord(lo, hi, k, s).sreg \in SUBSET Flags
<1>1. ASSUME NEW low \in Int
      PROVE  U8(low) \in Byte /\ (low \div 256) % 2 \in Byte
             /\ (low \div 256) % 2 \in 0 .. 1
  BY Truncation DEF Byte
<1>2. lo + k \in Int /\ U16(lo - k) \in Int
  <2>1. lo + k \in Int /\ lo - k \in Int
    BY DEF Byte
  <2>2. U16(lo - k) \in Addr
    BY <2>1, Truncation
  <2> QED
    BY <2>1, <2>2, AddrBounds
<1>3. \A c \in Byte : IsResult(AddBytes(hi, c, 0, s)) /\ IsResult(SubBytes(hi, c, 0, s))
  BY SumsAreResults
<1>4. IsPair(AddWord(lo, hi, k, s)) /\ AddWord(lo, hi, k, s).sreg \in SUBSET Flags
  <2> DEFINE r == AddBytes(hi, ((lo + k) \div 256) % 2, 0, s)
  <2>1. U8(lo + k) \in Byte /\ IsResult(r)
    BY <1>1, <1>2, <1>3
  <2> QED
    BY <2>1 DEF IsPair, IsResult, AddWord
<1>5. IsPair(SubWord(lo, hi, k, s)) /\ SubWord(lo, hi, k, s).sreg \in SUBSET Flags
  <2> DEFINE r == SubBytes(hi, (U16(lo - k) \div 256) % 2, 0, s)
  <2>1. U8(U16(lo - k)) \in Byte /\ IsResult(r)
    BY <1>1, <1>2, <1>3
  <2> QED
    BY <2>1 DEF IsPair, IsResult, SubWord
<1> QED
  BY <1>4, <1>5

\* The two bytes of a product.
LEMMA ProductResults ==
  ASSUME NEW p \in Int, NEW s \in SUBSET Flags
  PROVE  IsPair(Product(p, s)) /\ Product(p, s).sreg \in SUBSET Flags
<1>1. Lo(U16(p)) \in Byte /\ Hi(U16(p)) \in Byte
  BY Truncation, Halves
<1>2. Product(p, s).sreg \in SUBSET Flags
  BY DEF Product, Put, Flags
<1> QED
  BY <1>1, <1>2 DEF IsPair, Product

\* inc_reg and dec_reg.
LEMMA PairSteps ==
  ASSUME NEW lo \in Byte, NEW hi \in Byte
  PROVE  IsPair(IncPair(lo, hi)) /\ IsPair(DecPair(lo, hi))
<1>1. U8(lo + 1) \in Byte /\ U8(lo - 1) \in Byte
      /\ U8(hi + 1) \in Byte /\ U8(hi - 1) \in Byte
  BY Truncation DEF Byte
<1> QED
  BY <1>1 DEF IsPair, IncPair, DecPair

------------------------------------------------------------------------------
\* Opcodes, digit by digit.

Digit == 0 .. 15

\* op is written, in hexadecimal, with these four digits.
Written(op, p, q, a, b) ==
  /\ p \in Digit /\ q \in Digit /\ a \in Digit /\ b \in Digit
  /\ op = (4096 * p) + (256 * q) + (16 * a) + b

\* What the masks of execute leave of an opcode (runheader.h).
LEMMA Masks ==
  ASSUME NEW op, NEW p, NEW q, NEW a, NEW b, Written(op, p, q, a, b)
  PROVE  /\ Masked("IMP", op) = op
         /\ Masked("DRD", op) = (4096 * p) + (256 * q)
         /\ Masked("BRCH", op) = (4096 * p) + (1024 * (q \div 4))
         /\ Masked("IMM", op) = 4096 * p
         /\ Masked("DRS", op) = (4096 * p) + (256 * q) + b
         /\ Masked("BIT", op) = (4096 * p) + (256 * q) + (128 * (a \div 8)) + b
         /\ Masked("LSB", op) = (4096 * p) + (256 * q) + (8 * (b \div 8))
         /\ Masked("LDD", op) = (4096 * p) + (256 * q) + (4 * (b \div 4))
<1>1. /\ op % 256 = (16 * a) + b
      /\ op % 4096 = (256 * q) + (16 * a) + b
      /\ op % 1024 = (256 * (q % 4)) + (16 * a) + b
  BY DEF Written, Digit
<1>2. /\ (op \div 16) % 16 = a
      /\ (op \div 16) % 8 = a % 8
      /\ (op \div 8) % 2 = b \div 8
      /\ (op \div 4) % 4 = b \div 4
  BY DEF Written, Digit
<1>3. op = (4096 * p) + (256 * q) + (16 * a) + b /\ op \in Int
      /\ q = 4 * (q \div 4) + (q % 4) /\ a = 8 * (a \div 8) + (a % 8)
      /\ p \in Int /\ q \in Int /\ a \in Int /\ b \in Int
  BY DEF Written, Digit
<1>4. /\ Masked("IMP", op) = op
      /\ Masked("DRD", op) = op - (op % 256)
      /\ Masked("BRCH", op) = op - (op % 1024)
      /\ Masked("IMM", op) = op - (op % 4096)
      /\ Masked("DRS", op) = op - (16 * ((op \div 16) % 16))
      /\ Masked("BIT", op) = op - (16 * ((op \div 16) % 8))
      /\ Masked("LSB", op) = (op - (op % 256)) + (8 * ((op \div 8) % 2))
      /\ Masked("LDD", op) = (op - (op % 256)) + (4 * ((op \div 4) % 4))
  BY DEF Masked
<1> QED BY <1>1, <1>2, <1>3, <1>4

\* The fields the handlers read (runheader.h).
LEMMA FieldsOf ==
  ASSUME NEW op, NEW p, NEW q, NEW a, NEW b, Written(op, p, q, a, b)
  PROVE  /\ op \in Addr
         /\ D(op) = a /\ R(op) = b /\ K(op) = b + (16 * q)
         /\ RegBit(op) = b % 8 /\ IndexMode(op) = b % 4 /\ SregBit(op) = a % 8
         /\ WordReg(op) = 8 + (2 * (a % 4)) /\ WordK(op) = b + (16 * (a \div 4))
         /\ BranchK(op) = (32 * (q % 4)) + (2 * a) + (b \div 8)
<1> DEFINE x == op \div 16
           y == op \div 64
           z == op \div 8
<1>1. op \in Int /\ 0 <= op /\ op <= 65535
  BY DEF Written, Digit
<1>2. /\ p \in Int /\ q \in Int /\ a \in Int /\ b \in Int /\ 0 <= a /\ a < 16
      /\ 0 <= a \div 4 /\ a \div 4 < 4 /\ 0 <= b \div 8 /\ b \div 8 < 2
  BY DEF Written, Digit
<1>3. /\ x = (256 * p) + (16 * q) + a
      /\ y = (64 * p) + (4 * q) + (a \div 4)
  BY DEF Written, Digit
<1>4. z = (512 * p) + (32 * q) + (2 * a) + (b \div 8)
  BY DEF Written, Digit
<1>5. op % 8 = b % 8 /\ op % 4 = b % 4
  BY DEF Written, Digit
<1>6. op % 16 = b /\ (op \div 16) % 16 = a /\ (op \div 256) % 16 = q
  BY DEF Written, Digit
<1> HIDE DEF x, y, z
<1>7. x % 8 = a % 8
  BY <1>2, <1>3
<1>8. x % 4 = a % 4
  BY <1>2, <1>3
<1>9. y % 4 = a \div 4
  BY <1>2, <1>3
<1>10. z % 128 = (32 * (q % 4)) + (2 * a) + (b \div 8)
  <2> DEFINE r == (32 * (q % 4)) + (2 * a) + (b \div 8)
             h == (4 * p) + (q \div 4)
  <2>1. z = (128 * h) + r /\ 0 <= r /\ r < 128 /\ r \in Int /\ h \in Int
    BY <1>2, <1>4
  <2> HIDE DEF r, h
  <2>2. z % 128 = r
    BY <2>1
  <2> QED BY <2>2 DEF r
<1>11. D(op) = a /\ R(op) = b /\ K(op) = b + (16 * q)
  BY <1>6 DEF D, R, K
<1>12. RegBit(op) = b % 8 /\ IndexMode(op) = b % 4
  BY <1>5 DEF RegBit, IndexMode
<1>13. SregBit(op) = a % 8
  BY <1>7 DEF SregBit, x
<1>14. BranchK(op) = (32 * (q % 4)) + (2 * a) + (b \div 8)
  BY <1>10 DEF BranchK, z
<1>15. WordReg(op) = 8 + (2 * (a % 4)) /\ WordK(op) = b + (16 * (a \div 4))
  BY <1>6, <1>8, <1>9 DEF WordReg, WordK, x, y
<1>16. op \in Addr
  BY <1>1, AddrBounds
<1> QED BY <1>11, <1>12, <1>13, <1>14, <1>15, <1>16

\* The opcodes each rule of execute is for (execute.c:910-1161).
LEMMA Chain ==
  ASSUME NEW op, NEW p, NEW q, NEW a, NEW b, Written(op, p, q, a, b)
  PROVE  /\ Matches(1, op) <=> p = 1 /\ q = 12
         /\ Matches(2, op) <=> p = 0 /\ q = 12
         /\ Matches(3, op) <=> p = 9 /\ q = 5 /\ a = 9 /\ b = 8
         /\ Matches(4, op) <=> p = 9 /\ q = 6
         /\ Matches(5, op) <=> p = 2 /\ q = 0
         /\ Matches(6, op) <=> p = 7
         /\ Matches(7, op) <=> p = 9 /\ q = 4 /\ b = 5
         /\ Matches(8, op) <=> p = 9 /\ q = 4 /\ a \div 8 = 1 /\ b = 8
         /\ Matches(9, op) <=> p = 15 /\ q = 8 /\ b \div 8 = 0
         /\ Matches(10, op) <=> p = 15 /\ q \div 4 = 1
         /\ Matches(11, op) <=> p = 15 /\ q \div 4 = 0
         /\ Matches(12, op) <=> p = 9 /\ q = 4 /\ a \div 8 = 0 /\ b = 8
         /\ Matches(13, op) <=> p = 15 /\ q = 10 /\ b \div 8 = 0
         /\ Matches(14, op) <=> p = 12
         /\ Matches(15, op) <=> p = 9 /\ q = 4 /\ a = 0 /\ b = 14
         /\ Matches(16, op) <=> p = 9 /\ q = 4 /\ b = 0
         /\ Matches(17, op) <=> p = 1 /\ q = 4
         /\ Matches(18, op) <=> p = 0 /\ q = 4
         /\ Matches(19, op) <=> p = 3
         /\ Matches(20, op) <=> p = 1 /\ q = 0
         /\ Matches(21, op) <=> p = 9 /\ q = 4 /\ b = 10
         /\ Matches(22, op) <=> p = 2 /\ q = 4
         /\ Matches(23, op) <=> p = 9 /\ q = 5 /\ a = 0 /\ b = 9
         /\ Matches(24, op) <=> p = 9 /\ q = 4 /\ a = 0 /\ b = 9
         /\ Matches(25, op) <=> p = 9 /\ q = 4 /\ b = 3
         /\ Matches(26, op) <=> p = 9 /\ q = 4 /\ a = 0 /\ b = 12
         /\ Matches(27, op) <=> p = 9 /\ q = 0 /\ b \div 4 = 3
         /\ Matches(28, op) <=> p = 9 /\ q = 0 /\ b \div 4 = 2
         /\ Matches(29, op) <=> p = 14
         /\ Matches(30, op) <=> p = 9 /\ q = 0 /\ b = 0
         /\ Matches(31, op) <=> p = 0 /\ q = 12
         /\ Matches(32, op) <=> p = 9 /\ q = 4 /\ b = 6
         /\ Matches(33, op) <=> p = 2 /\ q = 12
         /\ Matches(34, op) <=> p = 0 /\ q = 1
         /\ Matches(35, op) <=> p = 9 /\ q = 12
         /\ Matches(36, op) <=> p = 0 /\ q = 2
         /\ Matches(37, op) <=> p = 9 /\ q = 4 /\ b = 1
         /\ Matches(38, op) <=> p = 0 /\ q = 0 /\ a = 0 /\ b = 0
         /\ Matches(39, op) <=> p = 2 /\ q = 8
         /\ Matches(40, op) <=> p = 6
         /\ Matches(41, op) <=> p = 9 /\ q = 2 /\ b = 3
         /\ Matches(42, op) <=> p = 9 /\ q = 2 /\ b = 15
         /\ Matches(43, op) <=> p = 9 /\ q = 5 /\ a = 0 /\ b = 8
         /\ Matches(44, op) <=> p = 9 /\ q = 4 /\ b = 7
         /\ Matches(45, op) <=> p = 0 /\ q = 8
         /\ Matches(46, op) <=> p = 4
         /\ Matches(47, op) <=> p = 9 /\ q = 7
         /\ Matches(48, op) <=> p = 6
         /\ Matches(49, op) <=> p = 15 /\ q = 12 /\ b \div 8 = 0
         /\ Matches(50, op) <=> p = 15 /\ q = 14 /\ b \div 8 = 0
         /\ Matches(51, op) <=> p = 14 /\ q = 15 /\ b = 15
         /\ Matches(52, op) <=> p = 9 /\ q = 2 /\ b \div 4 = 3
         /\ Matches(53, op) <=> p = 9 /\ q = 2 /\ b \div 4 = 2
         /\ Matches(54, op) <=> p = 9 /\ q = 2 /\ b = 0
         /\ Matches(55, op) <=> p = 1 /\ q = 8
         /\ Matches(56, op) <=> p = 5
         /\ Matches(57, op) <=> p = 9 /\ q = 4 /\ b = 2
<1>1. /\ p \in Int /\ 0 <= p /\ p < 16 /\ q \in Int /\ 0 <= q /\ q < 16
      /\ a \in Int /\ 0 <= a /\ a < 16 /\ b \in Int /\ 0 <= b /\ b < 16
      /\ op = (4096 * p) + (256 * q) + (16 * a) + b
  BY DEF Written, Digit
<1>2. /\ Matches(3, op) <=> p = 9 /\ q = 5 /\ a = 9 /\ b = 8
      /\ Matches(15, op) <=> p = 9 /\ q = 4 /\ a = 0 /\ b = 14
      /\ Matches(23, op) <=> p = 9 /\ q = 5 /\ a = 0 /\ b = 9
      /\ Matches(24, op) <=> p = 9 /\ q = 4 /\ a = 0 /\ b = 9
      /\ Matches(26, op) <=> p = 9 /\ q = 4 /\ a = 0 /\ b = 12
      /\ Matches(38, op) <=> p = 0 /\ q = 0 /\ a = 0 /\ b = 0
      /\ Matches(43, op) <=> p = 9 /\ q = 5 /\ a = 0 /\ b = 8
  <2>1. Masked("IMP", op) = (4096 * p) + (256 * q) + (16 * a) + b
    BY <1>1, Masks
  <2>2. /\ Matches(3, op) <=> Masked("IMP", op) = \h9598
        /\ Matches(15, op) <=> Masked("IMP", op) = \h940e
        /\ Matches(23, op) <=> Masked("IMP", op) = \h9509
        /\ Matches(24, op) <=> Masked("IMP", op) = \h9409
        /\ Matches(26, op) <=> Masked("IMP", op) = \h940c
        /\ Matches(38, op) <=> Masked("IMP", op) = \h0000
        /\ Matches(43, op) <=> Masked("IMP", op) = \h9508
    BY DEF Matches, Rules
  <2> QED BY <1>1, <2>1, <2>2
<1>3. /\ Matches(1, op) <=> p = 1 /\ q = 12
      /\ Matches(2, op) <=> p = 0 /\ q = 12
      /\ Matches(4, op) <=> p = 9 /\ q = 6
      /\ Matches(5, op) <=> p = 2 /\ q = 0
      /\ Matches(17, op) <=> p = 1 /\ q = 4
      /\ Matches(18, op) <=> p = 0 /\ q = 4
      /\ Matches(20, op) <=> p = 1 /\ q = 0
      /\ Matches(22, op) <=> p = 2 /\ q = 4
      /\ Matches(31, op) <=> p = 0 /\ q = 12
      /\ Matches(33, op) <=> p = 2 /\ q = 12
      /\ Matches(34, op) <=> p = 0 /\ q = 1
      /\ Matches(35, op) <=> p = 9 /\ q = 12
      /\ Matches(36, op) <=> p = 0 /\ q = 2
      /\ Matches(39, op) <=> p = 2 /\ q = 8
      /\ Matches(45, op) <=> p = 0 /\ q = 8
      /\ Matches(47, op) <=> p = 9 /\ q = 7
      /\ Matches(55, op) <=> p = 1 /\ q = 8
  <2>1. Masked("DRD", op) = (4096 * p) + (256 * q)
    BY <1>1, Masks
  <2>2. /\ Matches(1, op) <=> Masked("DRD", op) = \h1c00
        /\ Matches(2, op) <=> Masked("DRD", op) = \h0c00
        /\ Matches(4, op) <=> Masked("DRD", op) = \h9600
        /\ Matches(5, op) <=> Masked("DRD", op) = \h2000
        /\ Matches(17, op) <=> Masked("DRD", op) = \h1400
        /\ Matches(18, op) <=> Masked("DRD", op) = \h0400
        /\ Matches(20, op) <=> Masked("DRD", op) = \h1000
        /\ Matches(22, op) <=> Masked("DRD", op) = \h2400
        /\ Matches(31, op) <=> Masked("DRD", op) = \h0c00
    BY DEF Matches, Rules
  <2>3. /\ Matches(33, op) <=> Masked("DRD", op) = \h2c00
        /\ Matches(34, op) <=> Masked("DRD", op) = \h0100
        /\ Matches(35, op) <=> Masked("DRD", op) = \h9c00
        /\ Matches(36, op) <=> Masked("DRD", op) = \h0200
        /\ Matches(39, op) <=> Masked("DRD", op) = \h2800
        /\ Matches(45, op) <=> Masked("DRD", op) = \h0800
        /\ Matches(47, op) <=> Masked("DRD", op) = \h9700
        /\ Matches(55, op) <=> Masked("DRD", op) = \h1800
    BY DEF Matches, Rules
  <2> QED BY <1>1, <2>1, <2>2, <2>3
<1>4. /\ Matches(10, op) <=> p = 15 /\ q \div 4 = 1
      /\ Matches(11, op) <=> p = 15 /\ q \div 4 = 0
  <2>1. Masked("BRCH", op) = (4096 * p) + (1024 * (q \div 4))
    BY <1>1, Masks
  <2>2. /\ Matches(10, op) <=> Masked("BRCH", op) = \hf400
        /\ Matches(11, op) <=> Masked("BRCH", op) = \hf000
    BY DEF Matches, Rules
  <2> QED BY <1>1, <2>1, <2>2
<1>5. /\ Matches(6, op) <=> p = 7
      /\ Matches(14, op) <=> p = 12
      /\ Matches(19, op) <=> p = 3
      /\ Matches(29, op) <=> p = 14
      /\ Matches(40, op) <=> p = 6
      /\ Matches(46, op) <=> p = 4
      /\ Matches(48, op) <=> p = 6
      /\ Matches(56, op) <=> p = 5
  <2>1. Masked("IMM", op) = 4096 * p
    BY <1>1, Masks
  <2>2. /\ Matches(6, op) <=> Masked("IMM", op) = \h7000
        /\ Matches(14, op) <=> Masked("IMM", op) = \hc000
        /\ Matches(19, op) <=> Masked("IMM", op) = \h3000
        /\ Matches(29, op) <=> Masked("IMM", op) = \he000
        /\ Matches(40, op) <=> Masked("IMM", op) = \h6000
        /\ Matches(46, op) <=> Masked("IMM", op) = \h4000
        /\ Matches(48, op) <=> Masked("IMM", op) = \h6000
        /\ Matches(56, op) <=> Masked("IMM", op) = \h5000
    BY DEF Matches, Rules
  <2> QED BY <1>1, <2>1, <2>2
<1>6. /\ Matches(7, op) <=> p = 9 /\ q = 4 /\ b = 5
      /\ Matches(16, op) <=> p = 9 /\ q = 4 /\ b = 0
      /\ Matches(21, op) <=> p = 9 /\ q = 4 /\ b = 10
      /\ Matches(25, op) <=> p = 9 /\ q = 4 /\ b = 3
      /\ Matches(30, op) <=> p = 9 /\ q = 0 /\ b = 0
      /\ Matches(32, op) <=> p = 9 /\ q = 4 /\ b = 6
      /\ Matches(37, op) <=> p = 9 /\ q = 4 /\ b = 1
      /\ Matches(41, op) <=> p = 9 /\ q = 2 /\ b = 3
      /\ Matches(42, op) <=> p = 9 /\ q = 2 /\ b = 15
      /\ Matches(44, op) <=> p = 9 /\ q = 4 /\ b = 7
      /\ Matches(51, op) <=> p = 14 /\ q = 15 /\ b = 15
      /\ Matches(54, op) <=> p = 9 /\ q = 2 /\ b = 0
      /\ Matches(57, op) <=> p = 9 /\ q = 4 /\ b = 2
  <2>1. Masked("DRS", op) = (4096 * p) + (256 * q) + b
    BY <1>1, Masks
  <2>2. /\ Matches(7, op) <=> Masked("DRS", op) = \h9405
        /\ Matches(16, op) <=> Masked("DRS", op) = \h9400
        /\ Matches(21, op) <=> Masked("DRS", op) = \h940a
        /\ Matches(25, op) <=> Masked("DRS", op) = \h9403
        /\ Matches(30, op) <=> Masked("DRS", op) = \h9000
        /\ Matches(32, op) <=> Masked("DRS", op) = \h9406
        /\ Matches(37, op) <=> Masked("DRS", op) = \h9401
        /\ Matches(41, op) <=> Masked("DRS", op) = \h9203
        /\ Matches(42, op) <=> Masked("DRS", op) = \h920f
        /\ Matches(44, op) <=> Masked("DRS", op) = \h9407
        /\ Matches(51, op) <=> Masked("DRS", op) = \hef0f
        /\ Matches(54, op) <=> Masked("DRS", op) = \h9200
        /\ Matches(57, op) <=> Masked("DRS", op) = \h9402
    BY DEF Matches, Rules
  <2> QED BY <1>1, <2>1, <2>2
<1>7. /\ Matches(8, op) <=> p = 9 /\ q = 4 /\ a \div 8 = 1 /\ b = 8
      /\ Matches(12, op) <=> p = 9 /\ q = 4 /\ a \div 8 = 0 /\ b = 8
  <2>1. Masked("BIT", op) = (4096 * p) + (256 * q) + (128 * (a \div 8)) + b
    BY <1>1, Masks
  <2>2. /\ Matches(8, op) <=> Masked("BIT", op) = \h9488
        /\ Matches(12, op) <=> Masked("BIT", op) = \h9408
    BY DEF Matches, Rules
  <2> QED BY <1>1, <2>1, <2>2
<1>8. /\ Matches(9, op) <=> p = 15 /\ q = 8 /\ b \div 8 = 0
      /\ Matches(13, op) <=> p = 15 /\ q = 10 /\ b \div 8 = 0
      /\ Matches(49, op) <=> p = 15 /\ q = 12 /\ b \div 8 = 0
      /\ Matches(50, op) <=> p = 15 /\ q = 14 /\ b \div 8 = 0
  <2>1. Masked("LSB", op) = (4096 * p) + (256 * q) + (8 * (b \div 8))
    BY <1>1, Masks
  <2>2. /\ Matches(9, op) <=> Masked("LSB", op) = \hf800
        /\ Matches(13, op) <=> Masked("LSB", op) = \hfa00
        /\ Matches(49, op) <=> Masked("LSB", op) = \hfc00
        /\ Matches(50, op) <=> Masked("LSB", op) = \hfe00
    BY DEF Matches, Rules
  <2> QED BY <1>1, <2>1, <2>2
<1>9. /\ Matches(27, op) <=> p = 9 /\ q = 0 /\ b \div 4 = 3
      /\ Matches(28, op) <=> p = 9 /\ q = 0 /\ b \div 4 = 2
      /\ Matches(52, op) <=> p = 9 /\ q = 2 /\ b \div 4 = 3
      /\ Matches(53, op) <=> p = 9 /\ q = 2 /\ b \div 4 = 2
  <2>1. Masked("LDD", op) = (4096 * p) + (256 * q) + (4 * (b \div 4))
    BY <1>1, Masks
  <2>2. /\ Matches(27, op) <=> Masked("LDD", op) = \h900c
        /\ Matches(28, op) <=> Masked("LDD", op) = \h9008
        /\ Matches(52, op) <=> Masked("LDD", op) = \h920c
        /\ Matches(53, op) <=> Masked("LDD", op) = \h9208
    BY DEF Matches, Rules
  <2> QED BY <1>1, <2>1, <2>2
<1> QED BY <1>2, <1>3, <1>4, <1>5, <1>6, <1>7, <1>8, <1>9

\* Rule k is the first to match op, and h is its handler.
First(k, op, h) ==
  /\ k \in 1 .. 57 /\ Matches(k, op) /\ Rules[k][1] = h
  /\ \A j \in 1 .. (k - 1) : ~ Matches(j, op)

\* It is then the handler that execute calls (execute.c:910-1161).
LEMMA FirstMatch ==
  ASSUME NEW k, NEW op, NEW h, First(k, op, h)
  PROVE  Handler(op) = h
<1> DEFINE first == {i \in DOMAIN Rules :
                       Matches(i, op) /\ \A j \in 1 .. (i - 1) : ~ Matches(j, op)}
<1>1. DOMAIN Rules = 1 .. 57
  BY DEF Rules
<1>2. Handler(op) = IF first = {} THEN "unknown" ELSE Rules[CHOOSE i \in first : TRUE][1]
  BY DEF Handler
<1>3. (\A i \in first : i = k) /\ k \in first
  BY <1>1 DEF First
<1> QED BY <1>2, <1>3 DEF First

\* What execute makes of an opcode.  The rules lsl, sbr and ser are never the
\* first to match, and push stands before stdx, whose mask it matches too.
LEMMA HandlerIs ==
  ASSUME NEW op, NEW p, NEW q, NEW a, NEW b, Written(op, p, q, a, b)
  PROVE  /\ p = 1 /\ q = 12 => Handler(op) = "adc"
         /\ p = 0 /\ q = 12 => Handler(op) = "add"
         /\ p = 9 /\ q = 5 /\ a = 9 /\ b = 8 => Handler(op) = "abrk"
         /\ p = 9 /\ q = 6 => Handler(op) = "adiw"
         /\ p = 2 /\ q = 0 => Handler(op) = "and"
         /\ p = 7 => Handler(op) = "andi"
         /\ p = 9 /\ q = 4 /\ b = 5 => Handler(op) = "asr"
         /\ p = 9 /\ q = 4 /\ a \div 8 = 1 /\ b = 8 => Handler(op) = "bclr"
         /\ p = 15 /\ q = 8 /\ b \div 8 = 0 => Handler(op) = "bld"
         /\ p = 15 /\ q \div 4 = 1 => Handler(op) = "branchc"
         /\ p = 15 /\ q \div 4 = 0 => Handler(op) = "branchs"
         /\ p = 9 /\ q = 4 /\ a \div 8 = 0 /\ b = 8 => Handler(op) = "bset"
         /\ p = 15 /\ q = 10 /\ b \div 8 = 0 => Handler(op) = "bst"
         /\ p = 12 => Handler(op) = "cbr"
         /\ p = 9 /\ q = 4 /\ a = 0 /\ b = 14 => Handler(op) = "call"
         /\ p = 9 /\ q = 4 /\ b = 0 => Handler(op) = "com"
         /\ p = 1 /\ q = 4 => Handler(op) = "cp"
         /\ p = 0 /\ q = 4 => Handler(op) = "cpc"
         /\ p = 3 => Handler(op) = "cpi"
         /\ p = 1 /\ q = 0 => Handler(op) = "cpse"
         /\ p = 9 /\ q = 4 /\ b = 10 => Handler(op) = "dec"
         /\ p = 2 /\ q = 4 => Handler(op) = "eor"
         /\ p = 9 /\ q = 5 /\ a = 0 /\ b = 9 => Handler(op) = "icall"
         /\ p = 9 /\ q = 4 /\ a = 0 /\ b = 9 => Handler(op) = "ijmp"
         /\ p = 9 /\ q = 4 /\ b = 3 => Handler(op) = "inc"
         /\ p = 9 /\ q = 4 /\ a = 0 /\ b = 12 => Handler(op) = "jmp"
         /\ p = 9 /\ q = 0 /\ b \div 4 = 3 => Handler(op) = "lddx"
         /\ p = 9 /\ q = 0 /\ b \div 4 = 2 => Handler(op) = "lddy"
         /\ p = 14 => Handler(op) = "ldi"
         /\ p = 9 /\ q = 0 /\ b = 0 => Handler(op) = "lds"
         /\ p = 9 /\ q = 4 /\ b = 6 => Handler(op) = "lsr"
         /\ p = 2 /\ q = 12 => Handler(op) = "mov"
         /\ p = 0 /\ q = 1 => Handler(op) = "movw"
         /\ p = 9 /\ q = 12 => Handler(op) = "mul"
         /\ p = 0 /\ q = 2 => Handler(op) = "muls"
         /\ p = 9 /\ q = 4 /\ b = 1 => Handler(op) = "neg"
         /\ p = 0 /\ q = 0 /\ a = 0 /\ b = 0 => Handler(op) = "nop"
         /\ p = 2 /\ q = 8 => Handler(op) = "or"
         /\ p = 6 => Handler(op) = "ori"
         /\ p = 9 /\ q = 2 /\ b = 3 => Handler(op) = "pop"
         /\ p = 9 /\ q = 2 /\ b = 15 => Handler(op) = "push"
         /\ p = 9 /\ q = 5 /\ a = 0 /\ b = 8 => Handler(op) = "ret"
         /\ p = 9 /\ q = 4 /\ b = 7 => Handler(op) = "ror"
         /\ p = 0 /\ q = 8 => Handler(op) = "sbc"
         /\ p = 4 => Handler(op) = "sbci"
         /\ p = 9 /\ q = 7 => Handler(op) = "sbiw"
         /\ p = 15 /\ q = 12 /\ b \div 8 = 0 => Handler(op) = "sbrc"
         /\ p = 15 /\ q = 14 /\ b \div 8 = 0 => Handler(op) = "sbrs"
         /\ p = 9 /\ q = 2 /\ b \in 12 .. 14 => Handler(op) = "stdx"
         /\ p = 9 /\ q = 2 /\ b \div 4 = 2 => Handler(op) = "stdy"
         /\ p = 9 /\ q = 2 /\ b = 0 => Handler(op) = "sts"
         /\ p = 1 /\ q = 8 => Handler(op) = "sub"
         /\ p = 5 => Handler(op) = "subi"
         /\ p = 9 /\ q = 4 /\ b = 2 => Handler(op) = "swap"
<1>1. /\ Matches(1, op) <=> p = 1 /\ q = 12
      /\ Matches(2, op) <=> p = 0 /\ q = 12
      /\ Matches(3, op) <=> p = 9 /\ q = 5 /\ a = 9 /\ b = 8
      /\ Matches(4, op) <=> p = 9 /\ q = 6
      /\ Matches(5, op) <=> p = 2 /\ q = 0
      /\ Matches(6, op) <=> p = 7
      /\ Matches(7, op) <=> p = 9 /\ q = 4 /\ b = 5
      /\ Matches(8, op) <=> p = 9 /\ q = 4 /\ a \div 8 = 1 /\ b = 8
      /\ Matches(9, op) <=> p = 15 /\ q = 8 /\ b \div 8 = 0
      /\ Matches(10, op) <=> p = 15 /\ q \div 4 = 1
      /\ Matches(11, op) <=> p = 15 /\ q \div 4 = 0
      /\ Matches(12, op) <=> p = 9 /\ q = 4 /\ a \div 8 = 0 /\ b = 8
      /\ Matches(13, op) <=> p = 15 /\ q = 10 /\ b \div 8 = 0
      /\ Matches(14, op) <=> p = 12
      /\ Matches(15, op) <=> p = 9 /\ q = 4 /\ a = 0 /\ b = 14
      /\ Matches(16, op) <=> p = 9 /\ q = 4 /\ b = 0
      /\ Matches(17, op) <=> p = 1 /\ q = 4
      /\ Matches(18, op) <=> p = 0 /\ q = 4
      /\ Matches(19, op) <=> p = 3
      /\ Matches(20, op) <=> p = 1 /\ q = 0
      /\ Matches(21, op) <=> p = 9 /\ q = 4 /\ b = 10
      /\ Matches(22, op) <=> p = 2 /\ q = 4
      /\ Matches(23, op) <=> p = 9 /\ q = 5 /\ a = 0 /\ b = 9
      /\ Matches(24, op) <=> p = 9 /\ q = 4 /\ a = 0 /\ b = 9
      /\ Matches(25, op) <=> p = 9 /\ q = 4 /\ b = 3
      /\ Matches(26, op) <=> p = 9 /\ q = 4 /\ a = 0 /\ b = 12
      /\ Matches(27, op) <=> p = 9 /\ q = 0 /\ b \div 4 = 3
      /\ Matches(28, op) <=> p = 9 /\ q = 0 /\ b \div 4 = 2
      /\ Matches(29, op) <=> p = 14
      /\ Matches(30, op) <=> p = 9 /\ q = 0 /\ b = 0
      /\ Matches(31, op) <=> p = 0 /\ q = 12
      /\ Matches(32, op) <=> p = 9 /\ q = 4 /\ b = 6
      /\ Matches(33, op) <=> p = 2 /\ q = 12
      /\ Matches(34, op) <=> p = 0 /\ q = 1
      /\ Matches(35, op) <=> p = 9 /\ q = 12
      /\ Matches(36, op) <=> p = 0 /\ q = 2
      /\ Matches(37, op) <=> p = 9 /\ q = 4 /\ b = 1
      /\ Matches(38, op) <=> p = 0 /\ q = 0 /\ a = 0 /\ b = 0
      /\ Matches(39, op) <=> p = 2 /\ q = 8
      /\ Matches(40, op) <=> p = 6
      /\ Matches(41, op) <=> p = 9 /\ q = 2 /\ b = 3
      /\ Matches(42, op) <=> p = 9 /\ q = 2 /\ b = 15
      /\ Matches(43, op) <=> p = 9 /\ q = 5 /\ a = 0 /\ b = 8
      /\ Matches(44, op) <=> p = 9 /\ q = 4 /\ b = 7
      /\ Matches(45, op) <=> p = 0 /\ q = 8
      /\ Matches(46, op) <=> p = 4
      /\ Matches(47, op) <=> p = 9 /\ q = 7
      /\ Matches(48, op) <=> p = 6
      /\ Matches(49, op) <=> p = 15 /\ q = 12 /\ b \div 8 = 0
      /\ Matches(50, op) <=> p = 15 /\ q = 14 /\ b \div 8 = 0
      /\ Matches(51, op) <=> p = 14 /\ q = 15 /\ b = 15
      /\ Matches(52, op) <=> p = 9 /\ q = 2 /\ b \div 4 = 3
      /\ Matches(53, op) <=> p = 9 /\ q = 2 /\ b \div 4 = 2
      /\ Matches(54, op) <=> p = 9 /\ q = 2 /\ b = 0
      /\ Matches(55, op) <=> p = 1 /\ q = 8
      /\ Matches(56, op) <=> p = 5
      /\ Matches(57, op) <=> p = 9 /\ q = 4 /\ b = 2
  BY Chain
<1>2. /\ Rules[1][1] = "adc"
      /\ Rules[2][1] = "add"
      /\ Rules[3][1] = "abrk"
      /\ Rules[4][1] = "adiw"
      /\ Rules[5][1] = "and"
      /\ Rules[6][1] = "andi"
      /\ Rules[7][1] = "asr"
      /\ Rules[8][1] = "bclr"
      /\ Rules[9][1] = "bld"
  BY DEF Rules
<1>4. /\ Rules[10][1] = "branchc"
      /\ Rules[11][1] = "branchs"
      /\ Rules[12][1] = "bset"
      /\ Rules[13][1] = "bst"
      /\ Rules[14][1] = "cbr"
      /\ Rules[15][1] = "call"
      /\ Rules[16][1] = "com"
      /\ Rules[17][1] = "cp"
      /\ Rules[18][1] = "cpc"
  BY DEF Rules
<1>5. /\ Rules[19][1] = "cpi"
      /\ Rules[20][1] = "cpse"
      /\ Rules[21][1] = "dec"
      /\ Rules[22][1] = "eor"
      /\ Rules[23][1] = "icall"
      /\ Rules[24][1] = "ijmp"
      /\ Rules[25][1] = "inc"
      /\ Rules[26][1] = "jmp"
      /\ Rules[27][1] = "lddx"
  BY DEF Rules
<1>6. /\ Rules[28][1] = "lddy"
      /\ Rules[29][1] = "ldi"
      /\ Rules[30][1] = "lds"
      /\ Rules[32][1] = "lsr"
      /\ Rules[33][1] = "mov"
      /\ Rules[34][1] = "movw"
      /\ Rules[35][1] = "mul"
      /\ Rules[36][1] = "muls"
      /\ Rules[37][1] = "neg"
  BY DEF Rules
<1>7. /\ Rules[38][1] = "nop"
      /\ Rules[39][1] = "or"
      /\ Rules[40][1] = "ori"
      /\ Rules[41][1] = "pop"
      /\ Rules[42][1] = "push"
      /\ Rules[43][1] = "ret"
      /\ Rules[44][1] = "ror"
      /\ Rules[45][1] = "sbc"
      /\ Rules[46][1] = "sbci"
  BY DEF Rules
<1>8. /\ Rules[47][1] = "sbiw"
      /\ Rules[49][1] = "sbrc"
      /\ Rules[50][1] = "sbrs"
      /\ Rules[52][1] = "stdx"
      /\ Rules[53][1] = "stdy"
      /\ Rules[54][1] = "sts"
      /\ Rules[55][1] = "sub"
      /\ Rules[56][1] = "subi"
      /\ Rules[57][1] = "swap"
  BY DEF Rules
<1>3. p \in Int /\ q \in Int /\ a \in Int /\ b \in Int
  BY DEF Written, Digit
<1>11. p = 1 /\ q = 12 => First(1, op, "adc")
  BY <1>1, <1>2, <1>3 DEF First
<1>12. p = 0 /\ q = 12 => First(2, op, "add")
  BY <1>1, <1>2, <1>3 DEF First
<1>13. p = 9 /\ q = 5 /\ a = 9 /\ b = 8 => First(3, op, "abrk")
  BY <1>1, <1>2, <1>3 DEF First
<1>14. p = 9 /\ q = 6 => First(4, op, "adiw")
  BY <1>1, <1>2, <1>3 DEF First
<1>15. p = 2 /\ q = 0 => First(5, op, "and")
  BY <1>1, <1>2, <1>3 DEF First
<1>16. p = 7 => First(6, op, "andi")
  BY <1>1, <1>2, <1>3 DEF First
<1>17. p = 9 /\ q = 4 /\ b = 5 => First(7, op, "asr")
  BY <1>1, <1>2, <1>3 DEF First
<1>18. p = 9 /\ q = 4 /\ a \div 8 = 1 /\ b = 8 => First(8, op, "bclr")
  BY <1>1, <1>2, <1>3 DEF First
<1>19. p = 15 /\ q = 8 /\ b \div 8 = 0 => First(9, op, "bld")
  BY <1>1, <1>2, <1>3 DEF First
<1>20. p = 15 /\ q \div 4 = 1 => First(10, op, "branchc")
  BY <1>1, <1>4, <1>3 DEF First
<1>21. p = 15 /\ q \div 4 = 0 => First(11, op, "branchs")
  BY <1>1, <1>4, <1>3 DEF First
<1>22. p = 9 /\ q = 4 /\ a \div 8 = 0 /\ b = 8 => First(12, op, "bset")
  BY <1>1, <1>4, <1>3 DEF First
<1>23. p = 15 /\ q = 10 /\ b \div 8 = 0 => First(13, op, "bst")
  BY <1>1, <1>4, <1>3 DEF First
<1>24. p = 12 => First(14, op, "cbr")
  BY <1>1, <1>4, <1>3 DEF First
<1>25. p = 9 /\ q = 4 /\ a = 0 /\ b = 14 => First(15, op, "call")
  BY <1>1, <1>4, <1>3 DEF First
<1>26. p = 9 /\ q = 4 /\ b = 0 => First(16, op, "com")
  BY <1>1, <1>4, <1>3 DEF First
<1>27. p = 1 /\ q = 4 => First(17, op, "cp")
  BY <1>1, <1>4, <1>3 DEF First
<1>28. p = 0 /\ q = 4 => First(18, op, "cpc")
  BY <1>1, <1>4, <1>3 DEF First
<1>29. p = 3 => First(19, op, "cpi")
  BY <1>1, <1>5, <1>3 DEF First
<1>30. p = 1 /\ q = 0 => First(20, op, "cpse")
  BY <1>1, <1>5, <1>3 DEF First
<1>31. p = 9 /\ q = 4 /\ b = 10 => First(21, op, "dec")
  BY <1>1, <1>5, <1>3 DEF First
<1>32. p = 2 /\ q = 4 => First(22, op, "eor")
  BY <1>1, <1>5, <1>3 DEF First
<1>33. p = 9 /\ q = 5 /\ a = 0 /\ b = 9 => First(23, op, "icall")
  BY <1>1, <1>5, <1>3 DEF First
<1>34. p = 9 /\ q = 4 /\ a = 0 /\ b = 9 => First(24, op, "ijmp")
  BY <1>1, <1>5, <1>3 DEF First
<1>35. p = 9 /\ q = 4 /\ b = 3 => First(25, op, "inc")
  BY <1>1, <1>5, <1>3 DEF First
<1>36. p = 9 /\ q = 4 /\ a = 0 /\ b = 12 => First(26, op, "jmp")
  BY <1>1, <1>5, <1>3 DEF First
<1>37. p = 9 /\ q = 0 /\ b \div 4 = 3 => First(27, op, "lddx")
  BY <1>1, <1>5, <1>3 DEF First
<1>38. p = 9 /\ q = 0 /\ b \div 4 = 2 => First(28, op, "lddy")
  BY <1>1, <1>6, <1>3 DEF First
<1>39. p = 14 => First(29, op, "ldi")
  BY <1>1, <1>6, <1>3 DEF First
<1>40. p = 9 /\ q = 0 /\ b = 0 => First(30, op, "lds")
  BY <1>1, <1>6, <1>3 DEF First
<1>42. p = 9 /\ q = 4 /\ b = 6 => First(32, op, "lsr")
  BY <1>1, <1>6, <1>3 DEF First
<1>43. p = 2 /\ q = 12 => First(33, op, "mov")
  BY <1>1, <1>6, <1>3 DEF First
<1>44. p = 0 /\ q = 1 => First(34, op, "movw")
  BY <1>1, <1>6, <1>3 DEF First
<1>45. p = 9 /\ q = 12 => First(35, op, "mul")
  BY <1>1, <1>6, <1>3 DEF First
<1>46. p = 0 /\ q = 2 => First(36, op, "muls")
  BY <1>1, <1>6, <1>3 DEF First
<1>47. p = 9 /\ q = 4 /\ b = 1 => First(37, op, "neg")
  BY <1>1, <1>6, <1>3 DEF First
<1>48. p = 0 /\ q = 0 /\ a = 0 /\ b = 0 => First(38, op, "nop")
  BY <1>1, <1>7, <1>3 DEF First
<1>49. p = 2 /\ q = 8 => First(39, op, "or")
  BY <1>1, <1>7, <1>3 DEF First
<1>50. p = 6 => First(40, op, "ori")
  BY <1>1, <1>7, <1>3 DEF First
<1>51. p = 9 /\ q = 2 /\ b = 3 => First(41, op, "pop")
  BY <1>1, <1>7, <1>3 DEF First
<1>52. p = 9 /\ q = 2 /\ b = 15 => First(42, op, "push")
  BY <1>1, <1>7, <1>3 DEF First
<1>53. p = 9 /\ q = 5 /\ a = 0 /\ b = 8 => First(43, op, "ret")
  BY <1>1, <1>7, <1>3 DEF First
<1>54. p = 9 /\ q = 4 /\ b = 7 => First(44, op, "ror")
  BY <1>1, <1>7, <1>3 DEF First
<1>55. p = 0 /\ q = 8 => First(45, op, "sbc")
  BY <1>1, <1>7, <1>3 DEF First
<1>56. p = 4 => First(46, op, "sbci")
  BY <1>1, <1>7, <1>3 DEF First
<1>57. p = 9 /\ q = 7 => First(47, op, "sbiw")
  BY <1>1, <1>8, <1>3 DEF First
<1>59. p = 15 /\ q = 12 /\ b \div 8 = 0 => First(49, op, "sbrc")
  BY <1>1, <1>8, <1>3 DEF First
<1>60. p = 15 /\ q = 14 /\ b \div 8 = 0 => First(50, op, "sbrs")
  BY <1>1, <1>8, <1>3 DEF First
<1>62. p = 9 /\ q = 2 /\ b \in 12 .. 14 => First(52, op, "stdx")
  BY <1>1, <1>8, <1>3 DEF First
<1>63. p = 9 /\ q = 2 /\ b \div 4 = 2 => First(53, op, "stdy")
  BY <1>1, <1>8, <1>3 DEF First
<1>64. p = 9 /\ q = 2 /\ b = 0 => First(54, op, "sts")
  BY <1>1, <1>8, <1>3 DEF First
<1>65. p = 1 /\ q = 8 => First(55, op, "sub")
  BY <1>1, <1>8, <1>3 DEF First
<1>66. p = 5 => First(56, op, "subi")
  BY <1>1, <1>8, <1>3 DEF First
<1>67. p = 9 /\ q = 4 /\ b = 2 => First(57, op, "swap")
  BY <1>1, <1>8, <1>3 DEF First
<1> QED BY FirstMatch, <1>11, <1>12, <1>13, <1>14, <1>15, <1>16, <1>17, <1>18, <1>19,
      <1>20, <1>21, <1>22, <1>23, <1>24, <1>25, <1>26, <1>27, <1>28, <1>29, <1>30, <1>31,
      <1>32, <1>33, <1>34, <1>35, <1>36, <1>37, <1>38, <1>39, <1>40, <1>42, <1>43, <1>44,
      <1>45, <1>46, <1>47, <1>48, <1>49, <1>50, <1>51, <1>52, <1>53, <1>54, <1>55, <1>56,
      <1>57, <1>59, <1>60, <1>62, <1>63, <1>64, <1>65, <1>66, <1>67

\* The opcodes check_32 takes for long ones (run_misc.c:67-77).
LEMMA TwoWordsIs ==
  ASSUME NEW op, NEW p, NEW q, NEW a, NEW b, Written(op, p, q, a, b)
  PROVE  TwoWords(op) <=>
           p = 9 /\ (\/ q = 4 /\ a = 0 /\ b \in {12, 14}
                     \/ q \in {0, 2} /\ b = 0)
<1>1. /\ Matches(15, op) <=> p = 9 /\ q = 4 /\ a = 0 /\ b = 14
      /\ Matches(26, op) <=> p = 9 /\ q = 4 /\ a = 0 /\ b = 12
      /\ Matches(30, op) <=> p = 9 /\ q = 0 /\ b = 0
      /\ Matches(54, op) <=> p = 9 /\ q = 2 /\ b = 0
  BY Chain
<1>2. /\ Matches(15, op) <=> op = \h940e
      /\ Matches(26, op) <=> op = \h940c
      /\ Matches(30, op) <=> Masked("DRS", op) = \h9000
      /\ Matches(54, op) <=> Masked("DRS", op) = \h9200
  BY DEF Matches, Rules, Masked
<1> QED BY <1>1, <1>2 DEF TwoWords

\* The opcode that write_asm takes for a line without code (write.c:107).
LEMMA NoCodeIs ==
  ASSUME NEW op, NEW p, NEW q, NEW a, NEW b, Written(op, p, q, a, b), op = \hffff
  PROVE  p = 15 /\ q = 15 /\ a = 15 /\ b = 15
BY DEF Written, Digit

------------------------------------------------------------------------------
\* From a line of source to its opcode, and back.

\* Mnemonic m is one of those that handler h is for.
Meant(m, h) == h \in DOMAIN MeantFor /\ m \in MeantFor[h]

\* An opcode of mnemonic m, of type t: execute calls a handler m is for,
\* check_32 takes it for as long as the assembler made it, and write_asm
\* does not take it for a line without code.
Serves(t, m, op) ==
  /\ op \in Addr /\ op # \hffff
  /\ Meant(m, Handler(op))
  /\ TwoWords(op) <=> Size(t) = 4

\* DIR_SING: the register in the second digit from the right
\* (operand.c:83-111).
LEMMA OneRegister ==
  ASSUME NEW m \in DOMAIN Mnemonics["DIR_SING"], NEW d \in Digit,
         NEW op, op = Encode("DIR_SING", Mnemonics["DIR_SING"][m], d, 0)
  PROVE  Serves("DIR_SING", m, op) /\ D(op) = d
<1>1. \/ m = "ArithShiftRt" /\ Written(op, 9, 4, d, 5)
      \/ m = "Compliment" /\ Written(op, 9, 4, d, 0)
      \/ m = "Decrement" /\ Written(op, 9, 4, d, 10)
      \/ m = "Increment" /\ Written(op, 9, 4, d, 3)
      \/ m = "LogicalShiftRt" /\ Written(op, 9, 4, d, 6)
      \/ m = "Negate" /\ Written(op, 9, 4, d, 1)
      \/ m = "Pop" /\ Written(op, 9, 2, d, 3)
      \/ m = "Push" /\ Written(op, 9, 2, d, 15)
      \/ m = "RotateRight" /\ Written(op, 9, 4, d, 7)
      \/ m = "SetAllReg" /\ Written(op, 14, 15, d, 15)
      \/ m = "Swap" /\ Written(op, 9, 4, d, 2)
  BY DEF Mnemonics, Encode, Written, Digit
<1>2. \/ m = "ArithShiftRt" /\ Handler(op) = "asr"
      \/ m = "Compliment" /\ Handler(op) = "com"
      \/ m = "Decrement" /\ Handler(op) = "dec"
      \/ m = "Increment" /\ Handler(op) = "inc"
      \/ m = "LogicalShiftRt" /\ Handler(op) = "lsr"
      \/ m = "Negate" /\ Handler(op) = "neg"
      \/ m = "Pop" /\ Handler(op) = "pop"
      \/ m = "Push" /\ Handler(op) = "push"
      \/ m = "RotateRight" /\ Handler(op) = "ror"
      \/ m = "SetAllReg" /\ Handler(op) = "ldi"
      \/ m = "Swap" /\ Handler(op) = "swap"
  BY <1>1, HandlerIs DEF Digit
<1>3. /\ Meant("ArithShiftRt", "asr")
      /\ Meant("Compliment", "com")
      /\ Meant("Decrement", "dec")
      /\ Meant("Increment", "inc")
      /\ Meant("LogicalShiftRt", "lsr")
      /\ Meant("Negate", "neg")
      /\ Meant("Pop", "pop")
      /\ Meant("Push", "push")
      /\ Meant("RotateRight", "ror")
      /\ Meant("SetAllReg", "ldi")
      /\ Meant("Swap", "swap")
  BY DEF Meant, MeantFor
<1>4. TwoWords(op) <=> Size("DIR_SING") = 4
  BY <1>1, TwoWordsIs DEF Size
<1>5. op # \hffff
  BY <1>1, NoCodeIs
<1>6. op \in Addr /\ D(op) = d
  BY <1>1, FieldsOf
<1> QED BY <1>2, <1>3, <1>4, <1>5, <1>6 DEF Serves

\* DIR_DUAL: two registers.
LEMMA TwoRegisters ==
  ASSUME NEW m \in DOMAIN Mnemonics["DIR_DUAL"], NEW d \in Digit, NEW r \in Digit,
         NEW op, op = Encode("DIR_DUAL", Mnemonics["DIR_DUAL"][m], d, r)
  PROVE  Serves("DIR_DUAL", m, op) /\ D(op) = d /\ R(op) = r
<1>1. \/ m = "AddWithC" /\ Written(op, 1, 12, d, r)
      \/ m = "Add" /\ Written(op, 0, 12, d, r)
      \/ m = "And" /\ Written(op, 2, 0, d, r)
      \/ m = "Compare" /\ Written(op, 1, 4, d, r)
      \/ m = "CompareCarry" /\ Written(op, 0, 4, d, r)
      \/ m = "CompareSkipEqu" /\ Written(op, 1, 0, d, r)
      \/ m = "ExclusiveOr" /\ Written(op, 2, 4, d, r)
      \/ m = "Move" /\ Written(op, 2, 12, d, r)
      \/ m = "Multiply" /\ Written(op, 9, 12, d, r)
      \/ m = "MultiplyS" /\ Written(op, 0, 2, d, r)
      \/ m = "Or" /\ Written(op, 2, 8, d, r)
      \/ m = "SubtractWithC" /\ Written(op, 0, 8, d, r)
      \/ m = "Subtract" /\ Written(op, 1, 8, d, r)
  BY DEF Mnemonics, Encode, Written, Digit
<1>2. \/ m = "AddWithC" /\ Handler(op) = "adc"
      \/ m = "Add" /\ Handler(op) = "add"
      \/ m = "And" /\ Handler(op) = "and"
      \/ m = "Compare" /\ Handler(op) = "cp"
      \/ m = "CompareCarry" /\ Handler(op) = "cpc"
      \/ m = "CompareSkipEqu" /\ Handler(op) = "cpse"
      \/ m = "ExclusiveOr" /\ Handler(op) = "eor"
      \/ m = "Move" /\ Handler(op) = "mov"
      \/ m = "Multiply" /\ Handler(op) = "mul"
      \/ m = "MultiplyS" /\ Handler(op) = "muls"
      \/ m = "Or" /\ Handler(op) = "or"
      \/ m = "SubtractWithC" /\ Handler(op) = "sbc"
      \/ m = "Subtract" /\ Handler(op) = "sub"
  BY <1>1, HandlerIs DEF Digit
<1>3. /\ Meant("AddWithC", "adc")
      /\ Meant("Add", "add")
      /\ Meant("And", "and")
      /\ Meant("Compare", "cp")
      /\ Meant("CompareCarry", "cpc")
      /\ Meant("CompareSkipEqu", "cpse")
      /\ Meant("ExclusiveOr", "eor")
      /\ Meant("Move", "mov")
      /\ Meant("Multiply", "mul")
      /\ Meant("MultiplyS", "muls")
      /\ Meant("Or", "or")
      /\ Meant("SubtractWithC", "sbc")
      /\ Meant("Subtract", "sub")
  BY DEF Meant, MeantFor
<1>4. TwoWords(op) <=> Size("DIR_DUAL") = 4
  BY <1>1, TwoWordsIs DEF Size
<1>5. op # \hffff
  BY <1>1, NoCodeIs
<1>6. op \in Addr /\ D(op) = d /\ R(op) = r
  BY <1>1, FieldsOf
<1> QED BY <1>2, <1>3, <1>4, <1>5, <1>6 DEF Serves

\* DIR_STD: one register in both places.
LEMMA SameRegister ==
  ASSUME NEW m \in DOMAIN Mnemonics["DIR_STD"], NEW d \in Digit,
         NEW op, op = Encode("DIR_STD", Mnemonics["DIR_STD"][m], d, 0)
  PROVE  Serves("DIR_STD", m, op) /\ D(op) = d /\ R(op) = d
<1>1. \/ m = "ClearReg" /\ Written(op, 2, 4, d, d)
      \/ m = "LogicalShiftLt" /\ Written(op, 0, 12, d, d)
      \/ m = "RotateLeft" /\ Written(op, 1, 12, d, d)
      \/ m = "TestZero" /\ Written(op, 2, 0, d, d)
  BY DEF Mnemonics, Encode, Written, Digit
<1>2. \/ m = "ClearReg" /\ Handler(op) = "eor"
      \/ m = "LogicalShiftLt" /\ Handler(op) = "add"
      \/ m = "RotateLeft" /\ Handler(op) = "adc"
      \/ m = "TestZero" /\ Handler(op) = "and"
  BY <1>1, HandlerIs DEF Digit
<1>3. /\ Meant("ClearReg", "eor")
      /\ Meant("LogicalShiftLt", "add")
      /\ Meant("RotateLeft", "adc")
      /\ Meant("TestZero", "and")
  BY DEF Meant, MeantFor
<1>4. TwoWords(op) <=> Size("DIR_STD") = 4
  BY <1>1, TwoWordsIs DEF Size
<1>5. op # \hffff
  BY <1>1, NoCodeIs
<1>6. op \in Addr /\ D(op) = d /\ R(op) = d
  BY <1>1, FieldsOf
<1> QED BY <1>2, <1>3, <1>4, <1>5, <1>6 DEF Serves

\* DIR_WORD: two register pairs.
LEMMA RegisterPairs ==
  ASSUME NEW m \in DOMAIN Mnemonics["DIR_WORD"], NEW d \in Digit, NEW r \in Digit,
         NEW op, op = Encode("DIR_WORD", Mnemonics["DIR_WORD"][m], d, r)
  PROVE  Serves("DIR_WORD", m, op) /\ D(op) = d /\ R(op) = r
<1>1. \/ m = "MoveWord" /\ Written(op, 0, 1, d, r)
  BY DEF Mnemonics, Encode, Written, Digit
<1>2. \/ m = "MoveWord" /\ Handler(op) = "movw"
  BY <1>1, HandlerIs DEF Digit
<1>3. /\ Meant("MoveWord", "movw")
  BY DEF Meant, MeantFor
<1>4. TwoWords(op) <=> Size("DIR_WORD") = 4
  BY <1>1, TwoWordsIs DEF Size
<1>5. op # \hffff
  BY <1>1, NoCodeIs
<1>6. op \in Addr /\ D(op) = d /\ R(op) = r
  BY <1>1, FieldsOf
<1> QED BY <1>2, <1>3, <1>4, <1>5, <1>6 DEF Serves

\* IMM_BYTE: a register and a byte, whose high half goes to the second
\* digit.
LEMMA ByteConstant ==
  ASSUME NEW m \in DOMAIN Mnemonics["IMM_BYTE"], NEW d \in Digit, NEW k \in Byte,
         NEW op, op = Encode("IMM_BYTE", Mnemonics["IMM_BYTE"][m], d, k)
  PROVE  Serves("IMM_BYTE", m, op) /\ D(op) = d /\ K(op) = k
<1>1. k \div 16 \in Digit /\ k % 16 \in Digit
  BY DEF Digit, Byte
<1>2. \/ m = "AndImm" /\ Written(op, 7, k \div 16, d, k % 16)
      \/ m = "ClearBitsReg" /\ Written(op, 12, k \div 16, d, k % 16)
      \/ m = "CompareImm" /\ Written(op, 3, k \div 16, d, k % 16)
      \/ m = "LoadImm" /\ Written(op, 14, k \div 16, d, k % 16)
      \/ m = "OrImm" /\ Written(op, 6, k \div 16, d, k % 16)
      \/ m = "SubtractImmC" /\ Written(op, 4, k \div 16, d, k % 16)
      \/ m = "SetBitsReg" /\ Written(op, 6, k \div 16, d, k % 16)
      \/ m = "SubtractImm" /\ Written(op, 5, k \div 16, d, k % 16)
  <2> DEFINE opcode == Mnemonics["IMM_BYTE"][m]
  <2>1. \/ m = "AndImm" /\ opcode = \h7000
        \/ m = "ClearBitsReg" /\ opcode = \hc000
        \/ m = "CompareImm" /\ opcode = \h3000
        \/ m = "LoadImm" /\ opcode = \he000
        \/ m = "OrImm" /\ opcode = \h6000
        \/ m = "SubtractImmC" /\ opcode = \h4000
        \/ m = "SetBitsReg" /\ opcode = \h6000
        \/ m = "SubtractImm" /\ opcode = \h5000
    BY DEF Mnemonics
  <2>2. op = opcode + ((16 * d) + (k % 16) + (256 * (k \div 16)))
    BY DEF Encode
  <2> DEFINE hi == k \div 16
             lo == k % 16
  <2>3. hi \in Digit /\ lo \in Digit /\ op = opcode + ((16 * d) + lo + (256 * hi))
    BY <1>1, <2>2
  <2> HIDE DEF opcode, hi, lo
  <2>4. \/ m = "AndImm" /\ Written(op, 7, hi, d, lo)
        \/ m = "ClearBitsReg" /\ Written(op, 12, hi, d, lo)
        \/ m = "CompareImm" /\ Written(op, 3, hi, d, lo)
        \/ m = "LoadImm" /\ Written(op, 14, hi, d, lo)
        \/ m = "OrImm" /\ Written(op, 6, hi, d, lo)
        \/ m = "SubtractImmC" /\ Written(op, 4, hi, d, lo)
        \/ m = "SetBitsReg" /\ Written(op, 6, hi, d, lo)
        \/ m = "SubtractImm" /\ Written(op, 5, hi, d, lo)
    BY <2>1, <2>3 DEF Written, Digit
  <2> QED BY <2>4 DEF hi, lo
<1>3. \/ m = "AndImm" /\ Handler(op) = "andi"
      \/ m = "ClearBitsReg" /\ Handler(op) = "cbr"
      \/ m = "CompareImm" /\ Handler(op) = "cpi"
      \/ m = "LoadImm" /\ Handler(op) = "ldi"
      \/ m = "OrImm" /\ Handler(op) = "ori"
      \/ m = "SubtractImmC" /\ Handler(op) = "sbci"
      \/ m = "SetBitsReg" /\ Handler(op) = "ori"
      \/ m = "SubtractImm" /\ Handler(op) = "subi"
  BY <1>1, <1>2, HandlerIs DEF Digit
<1>4. /\ Meant("AndImm", "andi")
      /\ Meant("ClearBitsReg", "cbr")
      /\ Meant("CompareImm", "cpi")
      /\ Meant("LoadImm", "ldi")
      /\ Meant("OrImm", "ori")
      /\ Meant("SubtractImmC", "sbci")
      /\ Meant("SetBitsReg", "ori")
      /\ Meant("SubtractImm", "subi")
  BY DEF Meant, MeantFor
<1>5. TwoWords(op) <=> Size("IMM_BYTE") = 4
  BY <1>1, <1>2, TwoWordsIs DEF Size
<1>6. op # \hffff
  BY <1>1, <1>2, NoCodeIs
<1>7. op \in Addr /\ D(op) = d /\ K(op) = k
  BY <1>1, <1>2, FieldsOf DEF Byte
<1> QED BY <1>3, <1>4, <1>5, <1>6, <1>7 DEF Serves

\* The low registers of the pairs that the word instructions take, and their
\* constants (operand.c:250, parse.c:316).
PairRegister == {8, 10, 12, 14}
SixBits == 0 .. 63

\* IMM_WORD: a pair and a constant of six bits.
LEMMA WordConstant ==
  ASSUME NEW m \in DOMAIN Mnemonics["IMM_WORD"],
         NEW n \in PairRegister, NEW k \in SixBits,
         NEW op, op = Encode("IMM_WORD", Mnemonics["IMM_WORD"][m], n, k)
  PROVE  Serves("IMM_WORD", m, op) /\ WordReg(op) = n /\ WordK(op) = k
<1>1. /\ (n - 8) \div 2 \in 0 .. 3 /\ n = 8 + (2 * ((n - 8) \div 2))
      /\ k \div 16 \in 0 .. 3 /\ k % 16 \in Digit
  BY DEF Digit, PairRegister, SixBits
<1>2. \/ m = "AddImmWord" /\ Written(op, 9, 6, ((n - 8) \div 2) + (4 * (k \div 16)), k % 16)
      \/ m = "SubtractImmWord" /\ Written(op, 9, 7, ((n - 8) \div 2) + (4 * (k \div 16)), k % 16)
  <2> DEFINE opcode == Mnemonics["IMM_WORD"][m]
  <2>1. \/ m = "AddImmWord" /\ opcode = \h9600
        \/ m = "SubtractImmWord" /\ opcode = \h9700
    BY DEF Mnemonics
  <2>2. op = opcode + ((8 * (n - 8)) + (k % 16) + (64 * (k \div 16)))
    BY DEF Encode
  <2> HIDE DEF opcode
  <2> QED BY <1>1, <2>1, <2>2 DEF Written, Digit, PairRegister, SixBits
<1>3. \/ m = "AddImmWord" /\ Handler(op) = "adiw"
      \/ m = "SubtractImmWord" /\ Handler(op) = "sbiw"
  BY <1>1, <1>2, HandlerIs DEF Digit
<1>4. /\ Meant("AddImmWord", "adiw")
      /\ Meant("SubtractImmWord", "sbiw")
  BY DEF Meant, MeantFor
<1>5. TwoWords(op) <=> Size("IMM_WORD") = 4
  BY <1>1, <1>2, TwoWordsIs DEF Size
<1>6. op # \hffff
  BY <1>1, <1>2, NoCodeIs
<1>7. op \in Addr /\ WordReg(op) = n /\ WordK(op) = k
  BY <1>1, <1>2, FieldsOf DEF SixBits
<1> QED BY <1>3, <1>4, <1>5, <1>6, <1>7 DEF Serves

\* LDSTR_BIT: a register and a bit of it.
LEMMA RegisterBit ==
  ASSUME NEW m \in DOMAIN Mnemonics["LDSTR_BIT"], NEW d \in Digit, NEW k \in 0 .. 7,
         NEW op, op = Encode("LDSTR_BIT", Mnemonics["LDSTR_BIT"][m], d, k)
  PROVE  Serves("LDSTR_BIT", m, op) /\ D(op) = d /\ RegBit(op) = k
<1>1. k \in Digit
  BY DEF Digit, Byte
<1>2. \/ m = "BitLoad" /\ Written(op, 15, 8, d, k)
      \/ m = "BitStoreT" /\ Written(op, 15, 10, d, k)
      \/ m = "SkipBitRegClr" /\ Written(op, 15, 12, d, k)
      \/ m = "SkipBitRegSet" /\ Written(op, 15, 14, d, k)
  BY <1>1 DEF Mnemonics, Encode, Written, Digit
<1>3. \/ m = "BitLoad" /\ Handler(op) = "bld"
      \/ m = "BitStoreT" /\ Handler(op) = "bst"
      \/ m = "SkipBitRegClr" /\ Handler(op) = "sbrc"
      \/ m = "SkipBitRegSet" /\ Handler(op) = "sbrs"
  BY <1>1, <1>2, HandlerIs DEF Digit
<1>4. /\ Meant("BitLoad", "bld")
      /\ Meant("BitStoreT", "bst")
      /\ Meant("SkipBitRegClr", "sbrc")
      /\ Meant("SkipBitRegSet", "sbrs")
  BY DEF Meant, MeantFor
<1>5. TwoWords(op) <=> Size("LDSTR_BIT") = 4
  BY <1>1, <1>2, TwoWordsIs DEF Size
<1>6. op # \hffff
  BY <1>1, <1>2, NoCodeIs
<1>7. op \in Addr /\ D(op) = d /\ RegBit(op) = k
  <2>1. op \in Addr /\ D(op) = d /\ RegBit(op) = k % 8
    BY <1>1, <1>2, FieldsOf
  <2> QED BY <2>1
<1> QED BY <1>3, <1>4, <1>5, <1>6, <1>7 DEF Serves

\* BIT: a bit of sreg.
LEMMA StatusBit ==
  ASSUME NEW m \in DOMAIN Mnemonics["BIT"], NEW k \in 0 .. 7,
         NEW op, op = Encode("BIT", Mnemonics["BIT"][m], k, 0)
  PROVE  Serves("BIT", m, op) /\ SregBit(op) = k
<1>1. k \in Digit /\ 8 + k \in Digit
  BY DEF Digit, Byte
<1>2. \/ m = "BitClear" /\ Written(op, 9, 4, 8 + k, 8)
      \/ m = "BitSetSreg" /\ Written(op, 9, 4, k, 8)
  BY <1>1 DEF Mnemonics, Encode, Written, Digit
<1>3. \/ m = "BitClear" /\ Handler(op) = "bclr"
      \/ m = "BitSetSreg" /\ Handler(op) = "bset"
  BY <1>1, <1>2, HandlerIs DEF Digit
<1>4. /\ Meant("BitClear", "bclr")
      /\ Meant("BitSetSreg", "bset")
  BY DEF Meant, MeantFor
<1>5. TwoWords(op) <=> Size("BIT") = 4
  BY <1>1, <1>2, TwoWordsIs DEF Size
<1>6. op # \hffff
  BY <1>1, <1>2, NoCodeIs
<1>7. op \in Addr /\ SregBit(op) = k
  BY <1>1, <1>2, FieldsOf
<1> QED BY <1>3, <1>4, <1>5, <1>6, <1>7 DEF Serves

\* DIR_32: an address, in the second word.
LEMMA LongAddress ==
  ASSUME NEW m \in DOMAIN Mnemonics["DIR_32"], NEW k,
         NEW op, op = Encode("DIR_32", Mnemonics["DIR_32"][m], 0, k)
  PROVE  Serves("DIR_32", m, op)
<1>1. \/ m = "Call" /\ Written(op, 9, 4, 0, 14)
      \/ m = "Jump" /\ Written(op, 9, 4, 0, 12)
  BY DEF Mnemonics, Encode, Written, Digit
<1>2. \/ m = "Call" /\ Handler(op) = "call"
      \/ m = "Jump" /\ Handler(op) = "jmp"
  BY <1>1, HandlerIs DEF Digit
<1>3. /\ Meant("Call", "call")
      /\ Meant("Jump", "jmp")
  BY DEF Meant, MeantFor
<1>4. TwoWords(op) <=> Size("DIR_32") = 4
  BY <1>1, TwoWordsIs DEF Size
<1>5. op # \hffff
  BY <1>1, NoCodeIs
<1>6. op \in Addr
  BY <1>1, FieldsOf
<1> QED BY <1>2, <1>3, <1>4, <1>5, <1>6 DEF Serves

\* LD_IND: a register and one of the three modes of an index register.
LEMMA LoadIndex ==
  ASSUME NEW m \in DOMAIN Mnemonics["LD_IND"], NEW d \in Digit, NEW k \in 0 .. 2,
         NEW op, op = Encode("LD_IND", Mnemonics["LD_IND"][m], d, k)
  PROVE  Serves("LD_IND", m, op) /\ D(op) = d /\ IndexMode(op) = k
<1>1. 12 + k \in Digit /\ 8 + k \in Digit
  BY DEF Digit, Byte
<1>2. \/ m = "LoadIndX" /\ Written(op, 9, 0, d, 12 + k)
      \/ m = "LoadIndY" /\ Written(op, 9, 0, d, 8 + k)
  BY <1>1 DEF Mnemonics, Encode, Written, Digit
<1>3. \/ m = "LoadIndX" /\ Handler(op) = "lddx"
      \/ m = "LoadIndY" /\ Handler(op) = "lddy"
  BY <1>1, <1>2, HandlerIs DEF Digit
<1>4. /\ Meant("LoadIndX", "lddx")
      /\ Meant("LoadIndY", "lddy")
  BY DEF Meant, MeantFor
<1>5. TwoWords(op) <=> Size("LD_IND") = 4
  BY <1>1, <1>2, TwoWordsIs DEF Size
<1>6. op # \hffff
  BY <1>1, <1>2, NoCodeIs
<1>7. op \in Addr /\ D(op) = d /\ IndexMode(op) = k
  BY <1>1, <1>2, FieldsOf
<1> QED BY <1>3, <1>4, <1>5, <1>6, <1>7 DEF Serves

\* STR_IND: the same of the stores; the fourth mode would be a push.
LEMMA StoreIndex ==
  ASSUME NEW m \in DOMAIN Mnemonics["STR_IND"], NEW d \in Digit, NEW k \in 0 .. 2,
         NEW op, op = Encode("STR_IND", Mnemonics["STR_IND"][m], d, k)
  PROVE  Serves("STR_IND", m, op) /\ D(op) = d /\ IndexMode(op) = k
<1>1. 12 + k \in Digit /\ 8 + k \in Digit
  BY DEF Digit, Byte
<1>2. \/ m = "StoreIndX" /\ Written(op, 9, 2, d, 12 + k)
      \/ m = "StoreIndY" /\ Written(op, 9, 2, d, 8 + k)
  BY <1>1 DEF Mnemonics, Encode, Written, Digit
<1>3. \/ m = "StoreIndX" /\ Handler(op) = "stdx"
      \/ m = "StoreIndY" /\ Handler(op) = "stdy"
  BY <1>1, <1>2, HandlerIs DEF Digit
<1>4. /\ Meant("StoreIndX", "stdx")
      /\ Meant("StoreIndY", "stdy")
  BY DEF Meant, MeantFor
<1>5. TwoWords(op) <=> Size("STR_IND") = 4
  BY <1>1, <1>2, TwoWordsIs DEF Size
<1>6. op # \hffff
  BY <1>1, <1>2, NoCodeIs
<1>7. op \in Addr /\ D(op) = d /\ IndexMode(op) = k
  BY <1>1, <1>2, FieldsOf
<1> QED BY <1>3, <1>4, <1>5, <1>6, <1>7 DEF Serves

\* LD_DIR: a register, and an address in the second word.
LEMMA LoadAddress ==
  ASSUME NEW m \in DOMAIN Mnemonics["LD_DIR"], NEW d \in Digit, NEW k \in Addr,
         NEW op, op = Encode("LD_DIR", Mnemonics["LD_DIR"][m], d, k)
  PROVE  Serves("LD_DIR", m, op) /\ D(op) = d
<1>1. \/ m = "LoadDirect" /\ Written(op, 9, 0, d, 0)
  BY DEF Mnemonics, Encode, Written, Digit
<1>2. \/ m = "LoadDirect" /\ Handler(op) = "lds"
  BY <1>1, HandlerIs DEF Digit
<1>3. /\ Meant("LoadDirect", "lds")
  BY DEF Meant, MeantFor
<1>4. TwoWords(op) <=> Size("LD_DIR") = 4
  BY <1>1, TwoWordsIs DEF Size
<1>5. op # \hffff
  BY <1>1, NoCodeIs
<1>6. op \in Addr /\ D(op) = d
  BY <1>1, FieldsOf
<1> QED BY <1>2, <1>3, <1>4, <1>5, <1>6 DEF Serves

\* STR_DIR: the same of the store.
LEMMA StoreAddress ==
  ASSUME NEW m \in DOMAIN Mnemonics["STR_DIR"], NEW d \in Digit, NEW k \in Addr,
         NEW op, op = Encode("STR_DIR", Mnemonics["STR_DIR"][m], d, k)
  PROVE  Serves("STR_DIR", m, op) /\ D(op) = d
<1>1. \/ m = "StoreDirect" /\ Written(op, 9, 2, d, 0)
  BY DEF Mnemonics, Encode, Written, Digit
<1>2. \/ m = "StoreDirect" /\ Handler(op) = "sts"
  BY <1>1, HandlerIs DEF Digit
<1>3. /\ Meant("StoreDirect", "sts")
  BY DEF Meant, MeantFor
<1>4. TwoWords(op) <=> Size("STR_DIR") = 4
  BY <1>1, TwoWordsIs DEF Size
<1>5. op # \hffff
  BY <1>1, NoCodeIs
<1>6. op \in Addr /\ D(op) = d
  BY <1>1, FieldsOf
<1> QED BY <1>2, <1>3, <1>4, <1>5, <1>6 DEF Serves

\* IMPLIED: no operand.
LEMMA NoOperand ==
  ASSUME NEW m \in DOMAIN Mnemonics["IMPLIED"],
         NEW op, op = Encode("IMPLIED", Mnemonics["IMPLIED"][m], 0, 0)
  PROVE  Serves("IMPLIED", m, op)
<1>1. \/ m = "Break" /\ Written(op, 9, 5, 9, 8)
      \/ m = "ClearCarryF" /\ Written(op, 9, 4, 8, 8)
      \/ m = "cli" /\ Written(op, 9, 4, 15, 8)
      \/ m = "ClearNegF" /\ Written(op, 9, 4, 10, 8)
      \/ m = "ClearSignF" /\ Written(op, 9, 4, 12, 8)
      \/ m = "ClearTranF" /\ Written(op, 9, 4, 14, 8)
      \/ m = "ClearOverflowF" /\ Written(op, 9, 4, 11, 8)
      \/ m = "ClearZeroF" /\ Written(op, 9, 4, 9, 8)
      \/ m = "IndCall" /\ Written(op, 9, 5, 0, 9)
      \/ m = "IndJump" /\ Written(op, 9, 4, 0, 9)
      \/ m = "NOP" /\ Written(op, 0, 0, 0, 0)
      \/ m = "Return" /\ Written(op, 9, 5, 0, 8)
      \/ m = "SetCarryF" /\ Written(op, 9, 4, 0, 8)
      \/ m = "sei" /\ Written(op, 9, 4, 7, 8)
      \/ m = "SetNegF" /\ Written(op, 9, 4, 2, 8)
      \/ m = "SetSignF" /\ Written(op, 9, 4, 4, 8)
      \/ m = "SetTranF" /\ Written(op, 9, 4, 6, 8)
      \/ m = "SetOverflowF" /\ Written(op, 9, 4, 3, 8)
      \/ m = "SetZeroF" /\ Written(op, 9, 4, 1, 8)
  BY DEF Mnemonics, Encode, Written, Digit
<1>2. \/ m = "Break" /\ Handler(op) = "abrk"
      \/ m = "ClearCarryF" /\ Handler(op) = "bclr"
      \/ m = "cli" /\ Handler(op) = "bclr"
      \/ m = "ClearNegF" /\ Handler(op) = "bclr"
      \/ m = "ClearSignF" /\ Handler(op) = "bclr"
      \/ m = "ClearTranF" /\ Handler(op) = "bclr"
      \/ m = "ClearOverflowF" /\ Handler(op) = "bclr"
      \/ m = "ClearZeroF" /\ Handler(op) = "bclr"
      \/ m = "IndCall" /\ Handler(op) = "icall"
      \/ m = "IndJump" /\ Handler(op) = "ijmp"
      \/ m = "NOP" /\ Handler(op) = "nop"
      \/ m = "Return" /\ Handler(op) = "ret"
      \/ m = "SetCarryF" /\ Handler(op) = "bset"
      \/ m = "sei" /\ Handler(op) = "bset"
      \/ m = "SetNegF" /\ Handler(op) = "bset"
      \/ m = "SetSignF" /\ Handler(op) = "bset"
      \/ m = "SetTranF" /\ Handler(op) = "bset"
      \/ m = "SetOverflowF" /\ Handler(op) = "bset"
      \/ m = "SetZeroF" /\ Handler(op) = "bset"
  BY <1>1, HandlerIs DEF Digit
<1>3. /\ Meant("Break", "abrk")
      /\ Meant("ClearCarryF", "bclr")
      /\ Meant("cli", "bclr")
      /\ Meant("ClearNegF", "bclr")
      /\ Meant("ClearSignF", "bclr")
      /\ Meant("ClearTranF", "bclr")
      /\ Meant("ClearOverflowF", "bclr")
      /\ Meant("ClearZeroF", "bclr")
  BY DEF Meant, MeantFor
<1>7. /\ Meant("IndCall", "icall")
      /\ Meant("IndJump", "ijmp")
      /\ Meant("NOP", "nop")
      /\ Meant("Return", "ret")
      /\ Meant("SetCarryF", "bset")
      /\ Meant("sei", "bset")
      /\ Meant("SetNegF", "bset")
      /\ Meant("SetSignF", "bset")
      /\ Meant("SetTranF", "bset")
      /\ Meant("SetOverflowF", "bset")
      /\ Meant("SetZeroF", "bset")
  BY DEF Meant, MeantFor
<1>4. TwoWords(op) <=> Size("IMPLIED") = 4
  BY <1>1, TwoWordsIs DEF Size
<1>5. op # \hffff
  BY <1>1, NoCodeIs
<1>6. op \in Addr
  BY <1>1, FieldsOf
<1> QED BY <1>2, <1>3, <1>4, <1>5, <1>6, <1>7 DEF Serves

\* BRANCH and BR_BIT: a bit of sreg and seven bits of distance; the table
\* and the operand each may hold the bit (opcode.c, parse.c:281-290).
BranchWritten(op, u, k, x) ==
  /\ u \in {0, 4} /\ k \in 0 .. 7 /\ x \in -64 .. 63
  /\ op = 61440 + (256 * u) + k + (8 * (x % 128))

LEMMA BranchOpcode ==
  ASSUME NEW op, NEW u, NEW k, NEW x, BranchWritten(op, u, k, x)
  PROVE  /\ op \in Addr /\ op # \hffff /\ ~ TwoWords(op)
         /\ Handler(op) = IF u = 4 THEN "branchc" ELSE "branchs"
         /\ RegBit(op) = k /\ BranchK(op) = x % 128
<1>0. /\ u \in {0, 4} /\ k \in 0 .. 7 /\ x \in -64 .. 63
      /\ op = 61440 + (256 * u) + k + (8 * (x % 128))
  BY DEF BranchWritten
<1> DEFINE j == x % 128
           q == u + (j \div 32)
           a == (j \div 2) % 16
           b == k + (8 * (j % 2))
<1>1. j \in Int /\ 0 <= j /\ j < 128
  BY <1>0
<1> HIDE DEF j
<1>2. /\ 0 <= j \div 32 /\ j \div 32 < 4
      /\ j = (32 * (j \div 32)) + (2 * a) + (j % 2)
      /\ j % 2 \in {0, 1}
      /\ a \in Digit
  BY <1>1 DEF Digit
<1>3. q \in Digit /\ b \in Digit
  BY <1>0, <1>1, <1>2 DEF Digit
<1>4. q % 4 = j \div 32 /\ q \div 4 = (IF u = 4 THEN 1 ELSE 0) /\ b \div 8 = j % 2 /\ b % 8 = k
  BY <1>0, <1>1, <1>2
<1>5. Written(op, 15, q, a, b)
  <2>1. 15 \in Digit
    BY DEF Digit
  <2>2. op = 61440 + (256 * u) + k + (8 * j) /\ a \in Int
    BY <1>0, <1>2 DEF j, Digit
  <2> HIDE DEF a
  <2>3. op = (4096 * 15) + (256 * q) + (16 * a) + b
    BY <1>0, <1>1, <1>2, <2>2
  <2> QED BY <1>2, <1>3, <2>1, <2>3 DEF Written
<1> HIDE DEF q, a, b
<1>6. op \in Addr /\ RegBit(op) = k /\ BranchK(op) = j
  BY <1>2, <1>4, <1>5, FieldsOf
<1>7. op # \hffff
  <2>1. op = \hffff => q = 15
    BY <1>5, NoCodeIs
  <2> QED BY <1>0, <1>1, <1>2, <2>1 DEF q
<1>8. ~ TwoWords(op)
  BY <1>5, TwoWordsIs
<1>9. Handler(op) = IF u = 4 THEN "branchc" ELSE "branchs"
  BY <1>0, <1>4, <1>5, HandlerIs
<1> QED BY <1>6, <1>7, <1>8, <1>9 DEF j

\* The bits of sreg, and the distances of seven bits (parse.c:284).
SregBits == 0 .. 7
Distance == -64 .. 63

\* A distance of seven bits is taken as it was written (execute.c:143-184).
LEMMA BranchReaches ==
  ASSUME NEW x \in -64 .. 63, NEW op, BranchK(op) = x % 128
  PROVE  \A from \in Int : BranchTarget(from, op) = U16(from + x)
<1> TAKE from \in Int
<1>1. CASE x >= 0
  BY <1>1 DEF BranchTarget
<1>2. CASE x < 0
  <2>1. BranchK(op) = x + 128
    BY <1>2
  <2>2. from - (128 - (x + 128)) = from + x
    OBVIOUS
  <2> QED BY <1>2, <2>1, <2>2 DEF BranchTarget
<1> QED BY <1>1, <1>2

\* BRANCH: the bit is the table's.
LEMMA Branches ==
  ASSUME NEW m \in DOMAIN Mnemonics["BRANCH"], NEW x \in Distance,
         NEW op, op = Encode("BRANCH", Mnemonics["BRANCH"][m], 0, x)
  PROVE  /\ Serves("BRANCH", m, op)
         /\ \A from \in Int : BranchTarget(from, op) = U16(from + x)
<1> DEFINE opcode == Mnemonics["BRANCH"][m]
<1>1. PICK u \in {0, 4}, k \in 0 .. 7 :
        /\ opcode = 61440 + (256 * u) + k
        /\ Meant(m, IF u = 4 THEN "branchc" ELSE "branchs")
  <2>1. CASE m = "BranchCarryClr"
    <3>1. opcode = 61440 + (256 * 4) + 0
      BY <2>1 DEF Mnemonics
    <3>2. Meant(m, "branchc")
      BY <2>1 DEF Meant, MeantFor
    <3> QED BY <3>1, <3>2
  <2>2. CASE m = "BranchCarrySet"
    <3>1. opcode = 61440 + (256 * 0) + 0
      BY <2>2 DEF Mnemonics
    <3>2. Meant(m, "branchs")
      BY <2>2 DEF Meant, MeantFor
    <3> QED BY <3>1, <3>2
  <2>3. CASE m = "BranchEqu"
    <3>1. opcode = 61440 + (256 * 0) + 1
      BY <2>3 DEF Mnemonics
    <3>2. Meant(m, "branchs")
      BY <2>3 DEF Meant, MeantFor
    <3> QED BY <3>1, <3>2
  <2>4. CASE m = "BranchGrEqu"
    <3>1. opcode = 61440 + (256 * 4) + 4
      BY <2>4 DEF Mnemonics
    <3>2. Meant(m, "branchc")
      BY <2>4 DEF Meant, MeantFor
    <3> QED BY <3>1, <3>2
  <2>5. CASE m = "brid"
    <3>1. opcode = 61440 + (256 * 4) + 7
      BY <2>5 DEF Mnemonics
    <3>2. Meant(m, "branchc")
      BY <2>5 DEF Meant, MeantFor
    <3> QED BY <3>1, <3>2
  <2>6. CASE m = "brie"
    <3>1. opcode = 61440 + (256 * 0) + 7
      BY <2>6 DEF Mnemonics
    <3>2. Meant(m, "branchs")
      BY <2>6 DEF Meant, MeantFor
    <3> QED BY <3>1, <3>2
  <2>7. CASE m = "BranchLower"
    <3>1. opcode = 61440 + (256 * 0) + 0
      BY <2>7 DEF Mnemonics
    <3>2. Meant(m, "branchs")
      BY <2>7 DEF Meant, MeantFor
    <3> QED BY <3>1, <3>2
  <2>8. CASE m = "BranchLessThan"
    <3>1. opcode = 61440 + (256 * 0) + 4
      BY <2>8 DEF Mnemonics
    <3>2. Meant(m, "branchs")
      BY <2>8 DEF Meant, MeantFor
    <3> QED BY <3>1, <3>2
  <2>9. CASE m = "BranchMinus"
    <3>1. opcode = 61440 + (256 * 0) + 2
      BY <2>9 DEF Mnemonics
    <3>2. Meant(m, "branchs")
      BY <2>9 DEF Meant, MeantFor
    <3> QED BY <3>1, <3>2
  <2>10. CASE m = "BranchNotEqu"
    <3>1. opcode = 61440 + (256 * 4) + 1
      BY <2>10 DEF Mnemonics
    <3>2. Meant(m, "branchc")
      BY <2>10 DEF Meant, MeantFor
    <3> QED BY <3>1, <3>2
  <2>11. CASE m = "BranchPlus"
    <3>1. opcode = 61440 + (256 * 4) + 2
      BY <2>11 DEF Mnemonics
    <3>2. Meant(m, "branchc")
      BY <2>11 DEF Meant, MeantFor
    <3> QED BY <3>1, <3>2
  <2>12. CASE m = "BranchSameHigh"
    <3>1. opcode = 61440 + (256 * 4) + 0
      BY <2>12 DEF Mnemonics
    <3>2. Meant(m, "branchc")
      BY <2>12 DEF Meant, MeantFor
    <3> QED BY <3>1, <3>2
  <2>13. CASE m = "BranchTClr"
    <3>1. opcode = 61440 + (256 * 4) + 6
      BY <2>13 DEF Mnemonics
    <3>2. Meant(m, "branchc")
      BY <2>13 DEF Meant, MeantFor
    <3> QED BY <3>1, <3>2
  <2>14. CASE m = "BranchTSet"
    <3>1. opcode = 61440 + (256 * 0) + 6
      BY <2>14 DEF Mnemonics
    <3>2. Meant(m, "branchs")
      BY <2>14 DEF Meant, MeantFor
    <3> QED BY <3>1, <3>2
  <2>15. CASE m = "BranchOverClr"
    <3>1. opcode = 61440 + (256 * 4) + 3
      BY <2>15 DEF Mnemonics
    <3>2. Meant(m, "branchc")
      BY <2>15 DEF Meant, MeantFor
    <3> QED BY <3>1, <3>2
  <2>16. CASE m = "BranchOverSet"
    <3>1. opcode = 61440 + (256 * 0) + 3
      BY <2>16 DEF Mnemonics
    <3>2. Meant(m, "branchs")
      BY <2>16 DEF Meant, MeantFor
    <3> QED BY <3>1, <3>2
  <2>17. m \in {"BranchCarryClr", "BranchCarrySet", "BranchEqu", "BranchGrEqu", "brid",
                "brie", "BranchLower", "BranchLessThan", "BranchMinus", "BranchNotEqu",
                "BranchPlus", "BranchSameHigh", "BranchTClr", "BranchTSet", "BranchOverClr",
                "BranchOverSet"}
    BY DEF Mnemonics
  <2> QED BY <2>1, <2>2, <2>3, <2>4, <2>5, <2>6, <2>7, <2>8, <2>9, <2>10,
         <2>11, <2>12, <2>13, <2>14, <2>15, <2>16, <2>17
<1>2. op = opcode + (0 + (8 * (x % 128)))
  BY DEF Encode
<1> HIDE DEF opcode
<1>3. BranchWritten(op, u, k, x)
  BY <1>1, <1>2 DEF BranchWritten, Distance
<1>4. Size("BRANCH") # 4
  BY DEF Size
<1>5. /\ op \in Addr /\ op # \hffff /\ ~ TwoWords(op)
      /\ Handler(op) = IF u = 4 THEN "branchc" ELSE "branchs"
      /\ RegBit(op) = k /\ BranchK(op) = x % 128
  BY <1>3, BranchOpcode
<1>6. \A from \in Int : BranchTarget(from, op) = U16(from + x)
  <2>1. BranchK(op) = x % 128
    BY <1>5
  <2> QED BY <2>1, BranchReaches DEF Distance
<1> QED BY <1>1, <1>4, <1>5, <1>6 DEF Serves

\* BR_BIT: the bit is the operand's.
LEMMA BitBranches ==
  ASSUME NEW m \in DOMAIN Mnemonics["BR_BIT"],
         NEW k \in SregBits, NEW x \in Distance,
         NEW op, op = Encode("BR_BIT", Mnemonics["BR_BIT"][m], k, x)
  PROVE  /\ Serves("BR_BIT", m, op)
         /\ \A from \in Int : BranchTarget(from, op) = U16(from + x)
         /\ RegBit(op) = k
<1> DEFINE opcode == Mnemonics["BR_BIT"][m]
<1>1. PICK u \in {0, 4} :
        /\ opcode = 61440 + (256 * u)
        /\ Meant(m, IF u = 4 THEN "branchc" ELSE "branchs")
  <2>1. \/ m = "BranchBitClr" /\ opcode = 61440 + (256 * 4)
        \/ m = "BranchBitSet" /\ opcode = 61440 + (256 * 0)
    BY DEF Mnemonics
  <2>2. Meant("BranchBitClr", "branchc") /\ Meant("BranchBitSet", "branchs")
    BY DEF Meant, MeantFor
  <2> HIDE DEF opcode
  <2> QED BY <2>1, <2>2
<1>2. op = opcode + (k + (8 * (x % 128)))
  BY DEF Encode
<1> HIDE DEF opcode
<1>3. BranchWritten(op, u, k, x)
  BY <1>1, <1>2 DEF BranchWritten, SregBits, Distance
<1>4. Size("BR_BIT") # 4
  BY DEF Size
<1>5. /\ op \in Addr /\ op # \hffff /\ ~ TwoWords(op)
      /\ Handler(op) = IF u = 4 THEN "branchc" ELSE "branchs"
      /\ RegBit(op) = k /\ BranchK(op) = x % 128
  BY <1>3, BranchOpcode
<1>6. \A from \in Int : BranchTarget(from, op) = U16(from + x)
  <2>1. BranchK(op) = x % 128
    BY <1>5
  <2> QED BY <2>1, BranchReaches DEF Distance
<1> QED BY <1>1, <1>4, <1>5, <1>6 DEF Serves

------------------------------------------------------------------------------
\* The types together.

\* get_operand takes these operands for the type.
Accepts(t, operands) == operands \in Operands(t, Byte, Addr, -64 .. 63)

\* The emulator makes of op what the line says.
ReadRight(t, m, operands, op) ==
  /\ Serves(t, m, op)
  /\ Found(t, op, operands)
  /\ t \in {"BRANCH", "BR_BIT"} =>
       \A from \in Int : BranchTarget(from, op) = U16(from + operands[2])

\* The types of ins[] (opcode.c).
LEMMA TypesAre ==
  Types = {"DIR_SING", "DIR_DUAL", "DIR_STD", "DIR_WORD", "IMM_BYTE", "IMM_WORD", "BRANCH",
           "BR_BIT", "BIT", "LDSTR_BIT", "DIR_32", "LD_IND", "STR_IND", "LD_DIR", "STR_DIR",
           "IMPLIED"}
BY DEF Types, Mnemonics

\* The operands of each type, as get_operand limits them (operand.c:83-717).
LEMMA OperandsAre ==
  ASSUME NEW t, NEW operands, Accepts(t, operands)
  PROVE  /\ t = "DIR_SING" => operands \in Digit \X {0}
         /\ t = "DIR_DUAL" => operands \in Digit \X Digit
         /\ t = "DIR_STD" => operands \in Digit \X {0}
         /\ t = "DIR_WORD" => operands \in Digit \X Digit
         /\ t = "IMM_BYTE" => operands \in Digit \X Byte
         /\ t = "IMM_WORD" => operands \in PairRegister \X SixBits
         /\ t = "BRANCH" => operands \in {0} \X Distance
         /\ t = "BR_BIT" => operands \in SregBits \X Distance
         /\ t = "BIT" => operands \in (0 .. 7) \X {0}
         /\ t = "LDSTR_BIT" => operands \in Digit \X (0 .. 7)
         /\ t = "DIR_32" => operands \in {0} \X Addr
         /\ t = "LD_IND" => operands \in Digit \X (0 .. 2)
         /\ t = "STR_IND" => operands \in Digit \X (0 .. 2)
         /\ t = "LD_DIR" => operands \in Digit \X Addr
         /\ t = "STR_DIR" => operands \in Digit \X Addr
         /\ t = "IMPLIED" => operands \in {0} \X {0}
<1>1. t = "DIR_SING" => operands \in Digit \X {0}
  BY DEF Accepts, Operands, Digit
<1>2. t = "DIR_DUAL" => operands \in Digit \X Digit
  BY DEF Accepts, Operands, Digit
<1>3. t = "DIR_STD" => operands \in Digit \X {0}
  BY DEF Accepts, Operands, Digit
<1>4. t = "DIR_WORD" => operands \in Digit \X Digit
  BY DEF Accepts, Operands, Digit
<1>5. t = "IMM_BYTE" => operands \in Digit \X Byte
  BY DEF Accepts, Operands, Digit
<1>6. t = "IMM_WORD" => operands \in PairRegister \X SixBits
  BY DEF Accepts, Operands, PairRegister, SixBits
<1>7. t = "BRANCH" => operands \in {0} \X Distance
  BY DEF Accepts, Operands, Distance
<1>8. t = "BR_BIT" => operands \in SregBits \X Distance
  BY DEF Accepts, Operands, SregBits, Distance
<1>9. t = "BIT" => operands \in (0 .. 7) \X {0}
  BY DEF Accepts, Operands
<1>10. t = "LDSTR_BIT" => operands \in Digit \X (0 .. 7)
  BY DEF Accepts, Operands, Digit
<1>11. t = "DIR_32" => operands \in {0} \X Addr
  BY DEF Accepts, Operands
<1>12. t = "LD_IND" => operands \in Digit \X (0 .. 2)
  BY DEF Accepts, Operands, Digit
<1>13. t = "STR_IND" => operands \in Digit \X (0 .. 2)
  BY DEF Accepts, Operands, Digit
<1>14. t = "LD_DIR" => operands \in Digit \X Addr
  BY DEF Accepts, Operands, Digit
<1>15. t = "STR_DIR" => operands \in Digit \X Addr
  BY DEF Accepts, Operands, Digit
<1>16. t = "IMPLIED" => operands \in {0} \X {0}
  BY DEF Accepts, Operands
<1> QED BY <1>1, <1>2, <1>3, <1>4, <1>5, <1>6, <1>7, <1>8, <1>9,
         <1>10, <1>11, <1>12, <1>13, <1>14, <1>15, <1>16

\* Every line is read as it was written, whatever its type.
LEMMA LineIsRead ==
  ASSUME NEW t \in Types, NEW m \in DOMAIN Mnemonics[t], NEW operands, Accepts(t, operands),
         NEW op, op = Encode(t, Mnemonics[t][m], operands[1], operands[2])
  PROVE  ReadRight(t, m, operands, op)
<1>1. CASE t = "DIR_SING"
  <2>0. operands \in Digit \X {0}
    BY <1>1, OperandsAre
  <2>1. PICK a \in Digit, b \in {0} : operands = <<a, b>>
    BY <2>0
  <2>2. op = Encode("DIR_SING", Mnemonics["DIR_SING"][m], a, b)
    BY <1>1, <2>1
  <2>3. m \in DOMAIN Mnemonics["DIR_SING"]
    BY <1>1
  <2>4. Serves("DIR_SING", m, op) /\ D(op) = a
    BY <2>2, <2>3, OneRegister
  <2> QED BY <1>1, <2>1, <2>4 DEF ReadRight, Found
<1>2. CASE t = "DIR_DUAL"
  <2>0. operands \in Digit \X Digit
    BY <1>2, OperandsAre
  <2>1. PICK a \in Digit, b \in Digit : operands = <<a, b>>
    BY <2>0
  <2>2. op = Encode("DIR_DUAL", Mnemonics["DIR_DUAL"][m], a, b)
    BY <1>2, <2>1
  <2>3. m \in DOMAIN Mnemonics["DIR_DUAL"]
    BY <1>2
  <2>4. Serves("DIR_DUAL", m, op) /\ D(op) = a /\ R(op) = b
    BY <2>2, <2>3, TwoRegisters
  <2> QED BY <1>2, <2>1, <2>4 DEF ReadRight, Found
<1>3. CASE t = "DIR_STD"
  <2>0. operands \in Digit \X {0}
    BY <1>3, OperandsAre
  <2>1. PICK a \in Digit, b \in {0} : operands = <<a, b>>
    BY <2>0
  <2>2. op = Encode("DIR_STD", Mnemonics["DIR_STD"][m], a, b)
    BY <1>3, <2>1
  <2>3. m \in DOMAIN Mnemonics["DIR_STD"]
    BY <1>3
  <2>4. Serves("DIR_STD", m, op) /\ D(op) = a /\ R(op) = a
    BY <2>2, <2>3, SameRegister
  <2> QED BY <1>3, <2>1, <2>4 DEF ReadRight, Found
<1>4. CASE t = "DIR_WORD"
  <2>0. operands \in Digit \X Digit
    BY <1>4, OperandsAre
  <2>1. PICK a \in Digit, b \in Digit : operands = <<a, b>>
    BY <2>0
  <2>2. op = Encode("DIR_WORD", Mnemonics["DIR_WORD"][m], a, b)
    BY <1>4, <2>1
  <2>3. m \in DOMAIN Mnemonics["DIR_WORD"]
    BY <1>4
  <2>4. Serves("DIR_WORD", m, op) /\ D(op) = a /\ R(op) = b
    BY <2>2, <2>3, RegisterPairs
  <2> QED BY <1>4, <2>1, <2>4 DEF ReadRight, Found
<1>5. CASE t = "IMM_BYTE"
  <2>0. operands \in Digit \X Byte
    BY <1>5, OperandsAre
  <2>1. PICK a \in Digit, b \in Byte : operands = <<a, b>>
    BY <2>0
  <2>2. op = Encode("IMM_BYTE", Mnemonics["IMM_BYTE"][m], a, b)
    BY <1>5, <2>1
  <2>3. m \in DOMAIN Mnemonics["IMM_BYTE"]
    BY <1>5
  <2>4. Serves("IMM_BYTE", m, op) /\ D(op) = a /\ K(op) = b
    BY <2>2, <2>3, ByteConstant
  <2> QED BY <1>5, <2>1, <2>4 DEF ReadRight, Found
<1>6. CASE t = "IMM_WORD"
  <2>0. operands \in PairRegister \X SixBits
    BY <1>6, OperandsAre
  <2>1. PICK a \in PairRegister, b \in SixBits : operands = <<a, b>>
    BY <2>0
  <2>2. op = Encode("IMM_WORD", Mnemonics["IMM_WORD"][m], a, b)
    BY <1>6, <2>1
  <2>3. m \in DOMAIN Mnemonics["IMM_WORD"]
    BY <1>6
  <2>4. Serves("IMM_WORD", m, op) /\ WordReg(op) = a /\ WordK(op) = b
    BY <2>2, <2>3, WordConstant
  <2> QED BY <1>6, <2>1, <2>4 DEF ReadRight, Found
<1>7. CASE t = "BRANCH"
  <2>0. operands \in {0} \X Distance
    BY <1>7, OperandsAre
  <2>1. PICK a \in {0}, b \in Distance : operands = <<a, b>>
    BY <2>0
  <2>2. op = Encode("BRANCH", Mnemonics["BRANCH"][m], a, b)
    BY <1>7, <2>1
  <2>3. m \in DOMAIN Mnemonics["BRANCH"]
    BY <1>7
  <2>4. /\ Serves("BRANCH", m, op)
        /\ \A from \in Int : BranchTarget(from, op) = U16(from + b)
    BY <2>2, <2>3, Branches
  <2> QED BY <1>7, <2>1, <2>4 DEF ReadRight, Found
<1>8. CASE t = "BR_BIT"
  <2>0. operands \in SregBits \X Distance
    BY <1>8, OperandsAre
  <2>1. PICK a \in SregBits, b \in Distance : operands = <<a, b>>
    BY <2>0
  <2>2. op = Encode("BR_BIT", Mnemonics["BR_BIT"][m], a, b)
    BY <1>8, <2>1
  <2>3. m \in DOMAIN Mnemonics["BR_BIT"]
    BY <1>8
  <2>4. /\ Serves("BR_BIT", m, op)
        /\ \A from \in Int : BranchTarget(from, op) = U16(from + b)
        /\ RegBit(op) = a
    BY <2>2, <2>3, BitBranches
  <2> QED BY <1>8, <2>1, <2>4 DEF ReadRight, Found
<1>9. CASE t = "BIT"
  <2>0. operands \in (0 .. 7) \X {0}
    BY <1>9, OperandsAre
  <2>1. PICK a \in 0 .. 7, b \in {0} : operands = <<a, b>>
    BY <2>0
  <2>2. op = Encode("BIT", Mnemonics["BIT"][m], a, b)
    BY <1>9, <2>1
  <2>3. m \in DOMAIN Mnemonics["BIT"]
    BY <1>9
  <2>4. Serves("BIT", m, op) /\ SregBit(op) = a
    BY <2>2, <2>3, StatusBit
  <2> QED BY <1>9, <2>1, <2>4 DEF ReadRight, Found
<1>10. CASE t = "LDSTR_BIT"
  <2>0. operands \in Digit \X (0 .. 7)
    BY <1>10, OperandsAre
  <2>1. PICK a \in Digit, b \in 0 .. 7 : operands = <<a, b>>
    BY <2>0
  <2>2. op = Encode("LDSTR_BIT", Mnemonics["LDSTR_BIT"][m], a, b)
    BY <1>10, <2>1
  <2>3. m \in DOMAIN Mnemonics["LDSTR_BIT"]
    BY <1>10
  <2>4. Serves("LDSTR_BIT", m, op) /\ D(op) = a /\ RegBit(op) = b
    BY <2>2, <2>3, RegisterBit
  <2> QED BY <1>10, <2>1, <2>4 DEF ReadRight, Found
<1>11. CASE t = "DIR_32"
  <2>0. operands \in {0} \X Addr
    BY <1>11, OperandsAre
  <2>1. PICK a \in {0}, b \in Addr : operands = <<a, b>>
    BY <2>0
  <2>2. op = Encode("DIR_32", Mnemonics["DIR_32"][m], a, b)
    BY <1>11, <2>1
  <2>3. m \in DOMAIN Mnemonics["DIR_32"]
    BY <1>11
  <2>4. Serves("DIR_32", m, op)
    BY <2>2, <2>3, LongAddress
  <2> QED BY <1>11, <2>1, <2>4 DEF ReadRight, Found
<1>12. CASE t = "LD_IND"
  <2>0. operands \in Digit \X (0 .. 2)
    BY <1>12, OperandsAre
  <2>1. PICK a \in Digit, b \in 0 .. 2 : operands = <<a, b>>
    BY <2>0
  <2>2. op = Encode("LD_IND", Mnemonics["LD_IND"][m], a, b)
    BY <1>12, <2>1
  <2>3. m \in DOMAIN Mnemonics["LD_IND"]
    BY <1>12
  <2>4. Serves("LD_IND", m, op) /\ D(op) = a /\ IndexMode(op) = b
    BY <2>2, <2>3, LoadIndex
  <2> QED BY <1>12, <2>1, <2>4 DEF ReadRight, Found
<1>13. CASE t = "STR_IND"
  <2>0. operands \in Digit \X (0 .. 2)
    BY <1>13, OperandsAre
  <2>1. PICK a \in Digit, b \in 0 .. 2 : operands = <<a, b>>
    BY <2>0
  <2>2. op = Encode("STR_IND", Mnemonics["STR_IND"][m], a, b)
    BY <1>13, <2>1
  <2>3. m \in DOMAIN Mnemonics["STR_IND"]
    BY <1>13
  <2>4. Serves("STR_IND", m, op) /\ D(op) = a /\ IndexMode(op) = b
    BY <2>2, <2>3, StoreIndex
  <2> QED BY <1>13, <2>1, <2>4 DEF ReadRight, Found
<1>14. CASE t = "LD_DIR"
  <2>0. operands \in Digit \X Addr
    BY <1>14, OperandsAre
  <2>1. PICK a \in Digit, b \in Addr : operands = <<a, b>>
    BY <2>0
  <2>2. op = Encode("LD_DIR", Mnemonics["LD_DIR"][m], a, b)
    BY <1>14, <2>1
  <2>3. m \in DOMAIN Mnemonics["LD_DIR"]
    BY <1>14
  <2>4. Serves("LD_DIR", m, op) /\ D(op) = a
    BY <2>2, <2>3, LoadAddress
  <2> QED BY <1>14, <2>1, <2>4 DEF ReadRight, Found
<1>15. CASE t = "STR_DIR"
  <2>0. operands \in Digit \X Addr
    BY <1>15, OperandsAre
  <2>1. PICK a \in Digit, b \in Addr : operands = <<a, b>>
    BY <2>0
  <2>2. op = Encode("STR_DIR", Mnemonics["STR_DIR"][m], a, b)
    BY <1>15, <2>1
  <2>3. m \in DOMAIN Mnemonics["STR_DIR"]
    BY <1>15
  <2>4. Serves("STR_DIR", m, op) /\ D(op) = a
    BY <2>2, <2>3, StoreAddress
  <2> QED BY <1>15, <2>1, <2>4 DEF ReadRight, Found
<1>16. CASE t = "IMPLIED"
  <2>0. operands \in {0} \X {0}
    BY <1>16, OperandsAre
  <2>1. PICK a \in {0}, b \in {0} : operands = <<a, b>>
    BY <2>0
  <2>2. op = Encode("IMPLIED", Mnemonics["IMPLIED"][m], a, b)
    BY <1>16, <2>1
  <2>3. m \in DOMAIN Mnemonics["IMPLIED"]
    BY <1>16
  <2>4. Serves("IMPLIED", m, op)
    BY <2>2, <2>3, NoOperand
  <2> QED BY <1>16, <2>1, <2>4 DEF ReadRight, Found
<1> QED BY TypesAre, <1>1, <1>2, <1>3, <1>4, <1>5, <1>6, <1>7, <1>8,
         <1>9, <1>10, <1>11, <1>12, <1>13, <1>14, <1>15, <1>16

------------------------------------------------------------------------------
\* Programs as images.

\* A set of numbers that holds zero, and the successor of each number it
\* holds, holds all of them.
LEMMA NatInductionOnSets ==
  ASSUME NEW S, 0 \in S, \A n \in Nat : n \in S => n + 1 \in S
  PROVE  Nat \subseteq S
<1> SUFFICES ASSUME Nat \ S # {} PROVE FALSE
  OBVIOUS
<1> DEFINE Order == OpToRel(<, Nat)
<1>1. PICK m \in Nat \ S : \A i \in Nat \ S : ~ (<<i, m>> \in Order)
  <2>1. IsWellFoundedOn(Order, Nat)
    BY NatLessThanWellFounded
  <2> HIDE DEF Order
  <2> QED BY <2>1, WFMin
<1>2. \A i, j \in Nat : i < j => <<i, j>> \in Order
  BY DEF OpToRel
<1> HIDE DEF Order
<1>3. m # 0 /\ m - 1 \in Nat /\ m - 1 < m
  OBVIOUS
<1>4. m - 1 \in S
  BY <1>1, <1>2, <1>3
<1> QED BY <1>1, <1>3, <1>4

\* f gives the first n lines of program p their addresses.
Placed(f, p, n) ==
  f = [i \in 1 .. n |-> IF i = 1 THEN 0 ELSE f[i - 1] + Len(BytesOf(p[i - 1]))]

\* There is such an f for every n.
LEMMA PlacedExists ==
  ASSUME NEW p, NEW n \in Nat
  PROVE  \E f : Placed(f, p, n)
<1> DEFINE S == {k \in Nat : \E f : Placed(f, p, k)}
<1>1. 0 \in S
  <2>1. Placed([i \in 1 .. 0 |-> 0], p, 0)
    BY DEF Placed
  <2> QED BY <2>1
<1>2. ASSUME NEW k \in Nat, k \in S PROVE k + 1 \in S
  <2>1. PICK f : Placed(f, p, k)
    BY <1>2
  <2> DEFINE last == IF k + 1 = 1 THEN 0 ELSE f[k] + Len(BytesOf(p[k]))
             g == [i \in 1 .. k + 1 |-> IF i = k + 1 THEN last ELSE f[i]]
             size(i) == Len(BytesOf(p[i]))
  <2>2. \A i \in 1 .. k : f[i] = IF i = 1 THEN 0 ELSE f[i - 1] + size(i - 1)
    BY <2>1 DEF Placed
  <2>3. g = [i \in 1 .. k + 1 |-> IF i = 1 THEN 0 ELSE g[i - 1] + size(i - 1)]
    <3> HIDE DEF size
    <3>1. ASSUME NEW i \in 1 .. k + 1
          PROVE  g[i] = IF i = 1 THEN 0 ELSE g[i - 1] + size(i - 1)
      <4>1. CASE i = k + 1
        <5>1. i # 1 => i - 1 \in 1 .. k + 1 /\ i - 1 # k + 1 /\ i - 1 = k
          BY <4>1
        <5>2. i # 1 => g[i - 1] = f[k]
          BY <5>1
        <5>3. g[i] = last
          BY <4>1
        <5> HIDE DEF g
        <5> QED BY <4>1, <5>1, <5>2, <5>3 DEF size
      <4>2. CASE i # k + 1
        <5>1. i \in 1 .. k
          BY <4>2
        <5>2. i # 1 => i - 1 \in 1 .. k + 1 /\ i - 1 # k + 1
          BY <5>1
        <5>3. g[i] = f[i] /\ (i # 1 => g[i - 1] = f[i - 1])
          BY <4>2, <5>2
        <5> HIDE DEF g
        <5> QED BY <2>2, <5>1, <5>3
      <4> QED BY <4>1, <4>2
    <3>2. g = [i \in 1 .. k + 1 |-> g[i]]
      OBVIOUS
    <3> HIDE DEF g
    <3> QED BY <3>1, <3>2
  <2>4. Placed(g, p, k + 1)
    BY <2>3 DEF Placed
  <2> QED BY <2>4
<1> HIDE DEF S
<1>3. Nat \subseteq S
  BY <1>1, <1>2, NatInductionOnSets
<1> QED BY <1>3 DEF S

\* Each line starts where the one before it ends.
LEMMA AddressesAre ==
  ASSUME NEW p, Len(p) \in Nat
  PROVE  \A i \in 1 .. Len(p) :
           Addresses(p)[i] = IF i = 1 THEN 0 ELSE Addresses(p)[i - 1] + Len(BytesOf(p[i - 1]))
<1> DEFINE n == Len(p)
           A == CHOOSE f : Placed(f, p, n)
<1>1. Addresses(p) = A
  BY DEF Addresses, Placed
<1>2. Placed(A, p, n)
  BY PlacedExists
<1> HIDE DEF A, n
<1>3. \A i \in 1 .. n : A[i] = IF i = 1 THEN 0 ELSE A[i - 1] + Len(BytesOf(p[i - 1]))
  BY <1>2 DEF Placed
<1> QED BY <1>1, <1>3 DEF n

\* g joins the first n of the sequences of s.
Joins(g, s, n) == g = [i \in 1 .. n |-> IF i = 1 THEN s[i] ELSE g[i - 1] \o s[i]]

\* There is such a g for every n.
LEMMA JoinExists ==
  ASSUME NEW s, NEW n \in Nat
  PROVE  \E g : Joins(g, s, n)
<1> DEFINE S == {k \in Nat : \E f : Joins(f, s, k)}
<1>1. 0 \in S
  <2>1. Joins([i \in 1 .. 0 |-> 0], s, 0)
    BY DEF Joins
  <2> QED BY <2>1
<1>2. ASSUME NEW k \in Nat, k \in S PROVE k + 1 \in S
  <2>1. PICK f : Joins(f, s, k)
    BY <1>2
  <2> DEFINE last == IF k + 1 = 1 THEN s[k + 1] ELSE f[k] \o s[k + 1]
             g == [i \in 1 .. k + 1 |-> IF i = k + 1 THEN last ELSE f[i]]
  <2>2. \A i \in 1 .. k : f[i] = IF i = 1 THEN s[i] ELSE f[i - 1] \o s[i]
    BY <2>1 DEF Joins
  <2>3. ASSUME NEW i \in 1 .. k + 1
        PROVE  g[i] = IF i = 1 THEN s[i] ELSE g[i - 1] \o s[i]
    <3>1. CASE i = k + 1
      <4>1. i # 1 => i - 1 \in 1 .. k + 1 /\ i - 1 # k + 1 /\ i - 1 = k
        BY <3>1
      <4>2. i # 1 => g[i - 1] = f[k]
        BY <4>1
      <4>3. g[i] = last
        BY <3>1
      <4> HIDE DEF g
      <4> QED BY <3>1, <4>2, <4>3
    <3>2. CASE i # k + 1
      <4>1. i \in 1 .. k
        BY <3>2
      <4>2. i # 1 => i - 1 \in 1 .. k + 1 /\ i - 1 # k + 1
        BY <4>1
      <4>3. g[i] = f[i] /\ (i # 1 => g[i - 1] = f[i - 1])
        BY <3>2, <4>2
      <4> HIDE DEF g
      <4> QED BY <2>2, <4>1, <4>3
    <3> QED BY <3>1, <3>2
  <2>4. g = [i \in 1 .. k + 1 |-> g[i]]
    OBVIOUS
  <2> HIDE DEF g
  <2>5. Joins(g, s, k + 1)
    BY <2>3, <2>4, Zenon DEF Joins
  <2> QED BY <2>5
<1> HIDE DEF S
<1>3. Nat \subseteq S
  BY <1>1, <1>2, NatInductionOnSets
<1> QED BY <1>3 DEF S

\* A holds where each of the sequences of s begins in all of them joined.
Offsets(A, s) == \A i \in 1 .. Len(s) : A[i] = IF i = 1 THEN 0 ELSE A[i - 1] + Len(s[i - 1])

\* There each of them is found.
LEMMA JoinedIs ==
  ASSUME NEW s, Len(s) \in Nat, Len(s) > 0, \A i \in 1 .. Len(s) : s[i] \in Seq(Byte),
         NEW A, Offsets(A, s)
  PROVE  LET bytes == Flat!FlattenSeq(s)
         IN  /\ bytes \in Seq(Byte) /\ Len(bytes) = A[Len(s)] + Len(s[Len(s)])
             /\ \A i \in 1 .. Len(s) : A[i] \in Nat
             /\ \A i \in 1 .. Len(s) : \A j \in 1 .. Len(s[i]) :
                  A[i] + j \in 1 .. Len(bytes) /\ bytes[A[i] + j] = s[i][j]
<1> DEFINE n == Len(s)
           g == CHOOSE f : Joins(f, s, n)
           Good(k) == /\ A[k] \in Nat /\ g[k] \in Seq(Byte)
                      /\ Len(g[k]) = A[k] + Len(s[k])
                      /\ \A i \in 1 .. k : A[i] \in Nat
                      /\ \A i \in 1 .. k : \A j \in 1 .. Len(s[i]) :
                           A[i] + j \in 1 .. Len(g[k]) /\ g[k][A[i] + j] = s[i][j]
           S == {k \in Nat : k \in 1 .. n => Good(k)}
<1>1. Flat!FlattenSeq(s) = g[n]
  BY DEF Flat!FlattenSeq, Joins
<1>2. Joins(g, s, n)
  BY JoinExists
<1> HIDE DEF g
<1>3. \A i \in 1 .. n : g[i] = IF i = 1 THEN s[i] ELSE g[i - 1] \o s[i]
  BY <1>2, Zenon DEF Joins
<1> HIDE DEF n
<1>4. n \in Nat /\ n > 0 /\ \A i \in 1 .. n : s[i] \in Seq(Byte) /\ Len(s[i]) \in Nat
  BY DEF n
<1>5. \A i \in 1 .. n : A[i] = IF i = 1 THEN 0 ELSE A[i - 1] + Len(s[i - 1])
  BY DEF Offsets, n
<1>6. 0 \in S
  OBVIOUS
<1>7. ASSUME NEW k \in Nat, k \in S PROVE k + 1 \in S
  <2> SUFFICES ASSUME k + 1 \in 1 .. n PROVE Good(k + 1)
    OBVIOUS
  <2>1. CASE k = 0
    <3>1. g[1] = s[1] /\ A[1] = 0
      BY <1>3, <1>4, <1>5
    <3>2. \A i \in 1 .. 1 : i = 1
      OBVIOUS
    <3>3. \A j \in 1 .. Len(s[1]) : 0 + j \in 1 .. Len(s[1]) /\ 0 + j = j
      BY <1>4
    <3>4. Good(1)
      BY <1>4, <3>1, <3>2, <3>3
    <3> HIDE DEF Good
    <3> QED BY <2>1, <3>4
  <2>2. CASE k # 0
    <3> DEFINE m == k + 1
               t == s[m]
    <3>1. k \in 1 .. n /\ m \in 1 .. n /\ m # 1 /\ m - 1 = k /\ m \in Nat
      <4> HIDE DEF S, Good
      <4> QED BY <1>4, <2>2
    <3>2. Good(k)
      BY <1>7, <3>1
    <3>3. g[m] = g[k] \o t /\ A[m] = A[k] + Len(s[k]) /\ t \in Seq(Byte) /\ Len(t) \in Nat
      BY <1>3, <1>4, <1>5, <3>1
    <3>4. /\ A[m] \in Nat /\ Len(g[k]) = A[m]
      BY <1>4, <3>1, <3>2, <3>3
    <3> DEFINE h == g[k] \o t
    <3>5. /\ h \in Seq(Byte) /\ Len(h) = A[m] + Len(t)
          /\ \A x \in 1 .. A[m] + Len(t) : h[x] = IF x <= A[m] THEN g[k][x] ELSE t[x - A[m]]
      <4>1. g[k] \in Seq(Byte) /\ t \in Seq(Byte)
        BY <3>2, <3>3
      <4>2. /\ h \in Seq(Byte) /\ Len(h) = Len(g[k]) + Len(t)
            /\ \A x \in 1 .. Len(g[k]) + Len(t) :
                 h[x] = IF x <= Len(g[k]) THEN g[k][x] ELSE t[x - Len(g[k])]
        BY <4>1, ConcatProperties, Zenon
      <4> HIDE DEF h
      <4> QED BY <3>4, <4>2
    <3> HIDE DEF h, m, t
    <3>6. \A i \in 1 .. m : i \in 1 .. k \/ i = m
      BY DEF m
    <3>7. ASSUME NEW i \in 1 .. m, NEW j \in 1 .. Len(s[i])
          PROVE  A[i] + j \in 1 .. Len(h) /\ h[A[i] + j] = s[i][j]
      <4>1. CASE i = m
        <5>1. j \in Int /\ 1 <= j /\ j <= Len(t)
          BY <3>3, <4>1 DEF t
        <5>2. /\ A[m] + j \in 1 .. A[m] + Len(t) /\ ~ (A[m] + j <= A[m])
              /\ (A[m] + j) - A[m] = j
          BY <3>3, <3>4, <5>1
        <5>3. h[A[m] + j] = t[(A[m] + j) - A[m]]
          BY <3>5, <5>2
        <5> QED BY <3>5, <4>1, <5>2, <5>3 DEF t
      <4>2. CASE i \in 1 .. k
        <5>1. A[i] + j \in 1 .. Len(g[k]) /\ g[k][A[i] + j] = s[i][j]
          BY <3>2, <4>2
        <5>2. A[i] + j \in 1 .. A[m] + Len(t) /\ A[i] + j <= A[m]
          BY <3>3, <3>4, <5>1
        <5> QED BY <3>5, <5>1, <5>2
      <4> QED BY <3>6, <4>1, <4>2
    <3>8. \A i \in 1 .. m : A[i] \in Nat
      BY <3>2, <3>4, <3>6
    <3>9. g[m] = h
      BY <3>3 DEF h
    <3>10. Good(m)
      BY <3>4, <3>5, <3>7, <3>8, <3>9 DEF t
    <3> QED BY <3>10 DEF m
  <2> QED BY <2>1, <2>2
<1>8. Nat \subseteq S
  <2> HIDE DEF S
  <2> QED BY <1>6, <1>7, NatInductionOnSets
<1>9. Good(n)
  BY <1>4, <1>8
<1> QED BY <1>1, <1>9 DEF n

------------------------------------------------------------------------------
\* The lines of a program.

\* A program of at least one line.
IsText(p) == DOMAIN p = 1 .. Len(p) /\ Len(p) \in Nat /\ Len(p) > 0

\* Each line's bytes lie where pass 1 placed the line.
LEMMA ImageHolds ==
  ASSUME NEW p, IsText(p), \A i \in 1 .. Len(p) : BytesOf(p[i]) \in Seq(Byte)
  PROVE  \A i \in 1 .. Len(p) :
           /\ Addresses(p)[i] \in Nat
           /\ \A j \in 1 .. Len(BytesOf(p[i])) :
                /\ (Addresses(p)[i] + j) - 1 \in DOMAIN ImageOf(p)
                /\ ImageOf(p)[(Addresses(p)[i] + j) - 1] = BytesOf(p[i])[j]
<1> DEFINE n == Len(p)
           s == [i \in DOMAIN p |-> BytesOf(p[i])]
           A == Addresses(p)
           bytes == Flat!FlattenSeq(s)
<1>1. s = [i \in 1 .. n |-> BytesOf(p[i])] /\ n \in Nat /\ n > 0
  BY DEF IsText
<1>2. s \in [1 .. n -> Seq(Byte)]
  BY <1>1
<1>3. /\ Len(s) = n
      /\ \A i \in 1 .. n : s[i] = BytesOf(p[i]) /\ s[i] \in Seq(Byte)
  <2>1. s \in Seq(Seq(Byte))
    <3> HIDE DEF s
    <3> QED BY <1>1, <1>2
  <2>2. DOMAIN s = 1 .. Len(s) /\ DOMAIN s = 1 .. n /\ Len(s) \in Nat
    <3>1. DOMAIN s = 1 .. n
      BY <1>1
    <3> HIDE DEF s, n
    <3> QED BY <2>1, <3>1, LenProperties
  <2>3. Len(s) = n
    <3> HIDE DEF s, n
    <3> QED BY <1>1, <2>2
  <2> QED BY <1>1, <2>3
<1>4. Offsets(A, s)
  <2>1. \A i \in 1 .. n : A[i] = IF i = 1 THEN 0 ELSE A[i - 1] + Len(BytesOf(p[i - 1]))
    BY AddressesAre DEF IsText
  <2> HIDE DEF A, s, n
  <2>2. \A i \in 1 .. n : i # 1 => i - 1 \in 1 .. n
    BY <1>1
  <2> QED BY <1>3, <2>1, <2>2 DEF Offsets
<1>5. ImageOf(p) = [a \in 0 .. (Len(bytes) - 1) |-> bytes[a + 1]]
  BY DEF ImageOf
<1>6. /\ bytes \in Seq(Byte)
      /\ \A i \in 1 .. n : A[i] \in Nat
      /\ \A i \in 1 .. n : \A j \in 1 .. Len(s[i]) :
           A[i] + j \in 1 .. Len(bytes) /\ bytes[A[i] + j] = s[i][j]
  <2> HIDE DEF A, s, n
  <2>1. Len(s) \in Nat /\ Len(s) > 0 /\ \A i \in 1 .. Len(s) : s[i] \in Seq(Byte)
    BY <1>1, <1>3
  <2> QED BY <1>3, <1>4, <2>1, JoinedIs
<1> HIDE DEF A, s, n, bytes
<1>7. ASSUME NEW i \in 1 .. n, NEW j \in 1 .. Len(s[i])
      PROVE  /\ (A[i] + j) - 1 \in DOMAIN ImageOf(p)
             /\ ImageOf(p)[(A[i] + j) - 1] = s[i][j]
  <2>1. /\ A[i] + j \in 1 .. Len(bytes) /\ bytes[A[i] + j] = s[i][j]
        /\ Len(bytes) \in Nat /\ A[i] \in Nat /\ j \in Int
    BY <1>6
  <2> DEFINE x == A[i] + j
  <2>2. x \in Int /\ x - 1 \in 0 .. (Len(bytes) - 1) /\ (x - 1) + 1 = x
    BY <2>1
  <2> HIDE DEF x
  <2>3. x - 1 \in DOMAIN ImageOf(p) /\ ImageOf(p)[x - 1] = bytes[x]
    BY <1>5, <2>2
  <2> QED BY <2>1, <2>3 DEF x
<1> QED BY <1>3, <1>6, <1>7 DEF A, n


\* The two bytes of a word.
LEMMA WordBytes ==
  ASSUME NEW w \in Addr
  PROVE  Lo(w) \in Byte /\ Hi(w) \in Byte /\ Pair(Hi(w), Lo(w)) = w
<1>1. w \in Int /\ 0 <= w /\ w <= 65535
  BY AddrBounds
<1>2. (w \div 256) % 256 = w \div 256
  BY <1>1
<1> QED BY <1>1, <1>2, Halves DEF Pair, Hi, Lo

\* What is known of one line: its type and how it is read, and its bytes.
LEMMA LineHolds ==
  ASSUME NEW ins, Assembles(ins)
  PROVE  LET t == TypeOf(ins[1])
             w == WordOf(ins)
         IN  /\ t \in Types /\ ins[1] \in DOMAIN Mnemonics[t]
             /\ ReadRight(t, ins[1], <<ins[2], ins[3]>>, w)
             /\ w \in Addr
             /\ Size(t) = 4 => ins[3] \in Addr
             /\ BytesOf(ins) \in Seq(Byte) /\ Len(BytesOf(ins)) = Size(t)
             /\ BytesOf(ins)[1] = Lo(w) /\ BytesOf(ins)[2] = Hi(w)
             /\ Size(t) = 4 => BytesOf(ins)[3] = Lo(ins[3]) /\ BytesOf(ins)[4] = Hi(ins[3])
<1> DEFINE t == TypeOf(ins[1])
           w == WordOf(ins)
           operands == <<ins[2], ins[3]>>
<1>1. t \in Types /\ ins[1] \in DOMAIN Mnemonics[t]
  BY DEF Assembles, TypeOf
<1>2. Accepts(t, operands)
  BY DEF Assembles, Accepts
<1>3. w = Encode(t, Mnemonics[t][ins[1]], operands[1], operands[2])
  BY DEF WordOf
<1>4. BytesOf(ins) = IF Size(t) = 4 THEN <<Lo(w), Hi(w), Lo(ins[3]), Hi(ins[3])>>
                                    ELSE <<Lo(w), Hi(w)>>
  BY DEF BytesOf
<1> HIDE DEF t, w
<1>5. ReadRight(t, ins[1], operands, w)
  <2> HIDE DEF operands
  <2> QED BY <1>1, <1>2, <1>3, LineIsRead
<1>6. w \in Addr
  BY <1>5 DEF ReadRight, Serves
<1>7. Lo(w) \in Byte /\ Hi(w) \in Byte
  BY <1>6, WordBytes
<1>8. CASE Size(t) = 4
  <2>1. t \in {"DIR_32", "LD_DIR", "STR_DIR"}
    BY <1>8 DEF Size
  <2>2. ins[3] \in Addr
    <3>1. operands \in {0} \X Addr \/ operands \in Digit \X Addr
      BY <1>2, <2>1, OperandsAre
    <3> QED BY <3>1
  <2>3. Lo(ins[3]) \in Byte /\ Hi(ins[3]) \in Byte
    BY <2>2, WordBytes
  <2> QED BY <1>1, <1>4, <1>5, <1>6, <1>7, <1>8, <2>2, <2>3 DEF t, w
<1>9. CASE Size(t) = 2
  BY <1>1, <1>4, <1>5, <1>6, <1>7, <1>9 DEF t, w
<1> QED BY <1>8, <1>9 DEF Size

------------------------------------------------------------------------------
\* Lines and handlers.

\* The mnemonics of the branches, and of the lines of two words.
Branching ==
  {"BranchBitSet", "BranchCarrySet", "BranchEqu", "brie", "BranchLower",
   "BranchLessThan", "BranchMinus", "BranchTSet", "BranchOverSet",
   "BranchBitClr", "BranchCarryClr", "BranchGrEqu", "brid", "BranchNotEqu",
   "BranchPlus", "BranchSameHigh", "BranchTClr", "BranchOverClr"}
Long == {"Jump", "Call", "LoadDirect", "StoreDirect"}

\* No other type has them (opcode.c).
LEMMA TypeOfBranch ==
  ASSUME NEW t \in Types, NEW m \in DOMAIN Mnemonics[t]
  PROVE  /\ m \in Branching => t \in {"BRANCH", "BR_BIT"}
         /\ m \in Long <=> Size(t) = 4
<1>1. ASSUME m \in DOMAIN Mnemonics["DIR_SING"] PROVE m \notin Branching \cup Long
  BY <1>1 DEF Mnemonics, Branching, Long
<1>2. ASSUME m \in DOMAIN Mnemonics["DIR_DUAL"] PROVE m \notin Branching \cup Long
  BY <1>2 DEF Mnemonics, Branching, Long
<1>3. ASSUME m \in DOMAIN Mnemonics["DIR_STD"] PROVE m \notin Branching \cup Long
  BY <1>3 DEF Mnemonics, Branching, Long
<1>4. ASSUME m \in DOMAIN Mnemonics["DIR_WORD"] PROVE m \notin Branching \cup Long
  BY <1>4 DEF Mnemonics, Branching, Long
<1>5. ASSUME m \in DOMAIN Mnemonics["IMM_BYTE"] PROVE m \notin Branching \cup Long
  BY <1>5 DEF Mnemonics, Branching, Long
<1>6. ASSUME m \in DOMAIN Mnemonics["IMM_WORD"] PROVE m \notin Branching \cup Long
  BY <1>6 DEF Mnemonics, Branching, Long
<1>7. ASSUME m \in DOMAIN Mnemonics["BIT"] PROVE m \notin Branching \cup Long
  BY <1>7 DEF Mnemonics, Branching, Long
<1>8. ASSUME m \in DOMAIN Mnemonics["LDSTR_BIT"] PROVE m \notin Branching \cup Long
  BY <1>8 DEF Mnemonics, Branching, Long
<1>9. ASSUME m \in DOMAIN Mnemonics["LD_IND"] PROVE m \notin Branching \cup Long
  BY <1>9 DEF Mnemonics, Branching, Long
<1>10. ASSUME m \in DOMAIN Mnemonics["STR_IND"] PROVE m \notin Branching \cup Long
  BY <1>10 DEF Mnemonics, Branching, Long
<1>11. ASSUME m \in DOMAIN Mnemonics["IMPLIED"] PROVE m \notin Branching \cup Long
  BY <1>11 DEF Mnemonics, Branching, Long
<1>12. ASSUME m \in DOMAIN Mnemonics["BRANCH"] PROVE m \notin Long
  BY <1>12 DEF Mnemonics, Long
<1>13. ASSUME m \in DOMAIN Mnemonics["BR_BIT"] PROVE m \notin Long
  BY <1>13 DEF Mnemonics, Long
<1>14. ASSUME m \in DOMAIN Mnemonics["DIR_32"] PROVE m \in Long /\ m \notin Branching
  BY <1>14 DEF Mnemonics, Branching, Long
<1>15. ASSUME m \in DOMAIN Mnemonics["LD_DIR"] PROVE m \in Long /\ m \notin Branching
  BY <1>15 DEF Mnemonics, Branching, Long
<1>16. ASSUME m \in DOMAIN Mnemonics["STR_DIR"] PROVE m \in Long /\ m \notin Branching
  BY <1>16 DEF Mnemonics, Branching, Long
<1> QED BY TypesAre, <1>1, <1>2, <1>3, <1>4, <1>5, <1>6, <1>7, <1>8,
         <1>9, <1>10, <1>11, <1>12, <1>13, <1>14, <1>15, <1>16 DEF Size

\* What the handler tells of the line it serves.
LEMMA HandlerTells ==
  ASSUME NEW t \in Types, NEW m \in DOMAIN Mnemonics[t], NEW h, Meant(m, h)
  PROVE  /\ h \in {"cpse", "sbrc", "sbrs"} => m \in Skips
         /\ h \in {"branchs", "branchc"} => t \in {"BRANCH", "BR_BIT"}
         /\ h = "jmp" => m = "Jump"
         /\ h = "call" => m = "Call"
         /\ h \in {"lds", "sts", "jmp", "call"} => Size(t) = 4
<1>1. h \in {"cpse", "sbrc", "sbrs"} => m \in Skips
  BY DEF Meant, MeantFor, Skips
<1>2. h \in {"branchs", "branchc"} => m \in Branching
  BY DEF Meant, MeantFor, Branching
<1>3. /\ h = "jmp" => m = "Jump"
      /\ h = "call" => m = "Call"
      /\ h = "lds" => m = "LoadDirect"
      /\ h = "sts" => m = "StoreDirect"
  BY DEF Meant, MeantFor
<1>4. h \in {"lds", "sts", "jmp", "call"} => m \in Long
  BY <1>3 DEF Long
<1> QED BY <1>1, <1>2, <1>3, <1>4, TypeOfBranch

\* And what the line tells of the handler.
LEMMA LineTells ==
  ASSUME NEW t \in Types, NEW m \in DOMAIN Mnemonics[t], NEW h, Meant(m, h)
  PROVE  /\ m \in Departs => h \in {"jmp", "ijmp", "ret", "abrk"}
         /\ Size(t) = 4 => h \in {"lds", "sts", "jmp", "call"}
<1>1. m \in {"IndJump", "Return", "Break"} => h \in {"ijmp", "ret", "abrk"}
  BY DEF Meant, MeantFor
<1>2. m \in Long => h \in {"lds", "sts", "jmp", "call"}
  BY DEF Meant, MeantFor, Long
<1>3. m = "Jump" => h = "jmp"
  BY DEF Meant, MeantFor
<1> QED BY <1>1, <1>2, <1>3, TypeOfBranch DEF Departs
==============================================================================
