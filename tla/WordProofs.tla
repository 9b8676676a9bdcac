------------------------------ MODULE WordProofs ------------------------------
(***************************************************************************)
(* That the flags of one instruction carry what the next one needs: sums,  *)
(* differences and comparisons built from two instructions on bytes, and   *)
(* the instructions on pairs, are right for all words and whatever status  *)
(* register the program starts with.                                       *)
(*                                                                         *)
(* The proof has four parts.  What each flag of a byte operation says of   *)
(* the numbers; what two byte operations, chained by the carry, say of     *)
(* words; that the bytes of the program are those opcodes in memory and    *)
(* that the mask chain of execute finds their handlers; and WideInv and    *)
(* ImmediateInv, which follow the program from instruction to instruction. *)
(***************************************************************************)
EXTENDS WordPrograms, InstructionProofs

------------------------------------------------------------------------------
\* The flags an operation on bytes leaves, as facts about numbers.

\* What check_cv and then check_zsnf make of each flag (run_misc.c:3-42).
LEMMA CvFlags ==
  ASSUME NEW v, NEW r, NEW a, NEW b, NEW s
  PROVE  LET f == CheckZsnf(v, CheckCv(r, a, b, s))
         IN  /\ "C" \in f <=> (r \div 256) % 2 = 1
             /\ "V" \in f <=> (Sign(a) <=> Sign(b)) /\ ~ (Sign(a) <=> Sign(r))
             /\ "N" \in f <=> Sign(v)
             /\ "Z" \in f <=> v = 0
             /\ "S" \in f <=> ~ ("N" \in f <=> "V" \in f)
<1> DEFINE c == (r \div 256) % 2 = 1
           o == Sign(a) = Sign(b) /\ Sign(a) # Sign(r)
           n == Sign(v)
           z == v = 0
           cv == Put(Put(s, "C", c), "V", o)
           zn == Put(Put(cv, "Z", z), "N", n)
           f == CheckZsnf(v, CheckCv(r, a, b, s))
<1>1. o <=> (Sign(a) <=> Sign(b)) /\ ~ (Sign(a) <=> Sign(r))
  BY DEF Sign
<1>2. n \in BOOLEAN /\ z \in BOOLEAN /\ c \in BOOLEAN /\ o \in BOOLEAN
  BY DEF Sign
<1>3. f = Put(zn, "S", ("N" \in zn) # ("V" \in zn))
  BY DEF CheckZsnf, CheckCv
<1>4. "Z" \in f <=> z
  <2> HIDE DEF c, o, n, z, f, cv
  <2> QED BY <1>2, <1>3 DEF Put
<1> HIDE DEF c, o, n, z, f
<1>5. /\ "C" \in cv <=> c
      /\ "V" \in cv <=> o
  BY <1>2 DEF Put
<1> HIDE DEF cv
<1>6. /\ "C" \in zn <=> c
      /\ "V" \in zn <=> o
      /\ "N" \in zn <=> n
  BY <1>2, <1>5 DEF Put
<1> HIDE DEF zn
<1>7. /\ "C" \in f <=> c
      /\ "V" \in f <=> o
      /\ "N" \in f <=> n
      /\ "S" \in f <=> ~ ("N" \in f <=> "V" \in f)
  BY <1>2, <1>3, <1>6 DEF Put
<1> QED BY <1>1, <1>4, <1>7 DEF c, o, n, z, f

\* What check_subf makes of each flag: Z survives only a zero, and C compares
\* with the carry the register held (run_misc.c:43-65).
LEMMA SubFlags ==
  ASSUME NEW r, NEW a, NEW b, NEW s
  PROVE  LET f == CheckSubf(r, a, b, s)
         IN  /\ "C" \in f <=> b + CarryIn(s) > a
             /\ "V" \in f <=> ~ (Sign(a) <=> Sign(b)) /\ ~ (Sign(a) <=> Sign(r))
             /\ "N" \in f <=> Sign(r)
             /\ "Z" \in f <=> "Z" \in s /\ r = 0
             /\ "S" \in f <=> ~ ("N" \in f <=> "V" \in f)
<1> DEFINE c == b + CarryIn(s) > a
           o == Sign(a) # Sign(b) /\ Sign(a) # Sign(r)
           n == Sign(r)
           v == Put(s, "V", o)
           z == IF r = 0 THEN v ELSE v \ {"Z"}
           zn == Put(z, "N", n)
           f == CheckSubf(r, a, b, s)
<1>1. o <=> ~ (Sign(a) <=> Sign(b)) /\ ~ (Sign(a) <=> Sign(r))
  BY DEF Sign
<1>2. n \in BOOLEAN /\ c \in BOOLEAN /\ o \in BOOLEAN
  BY DEF Sign
<1>3. f = Put(Put(zn, "S", ("N" \in zn) # ("V" \in zn)), "C", c)
  BY DEF CheckSubf
<1> HIDE DEF c, o, n, f
<1>4. /\ "V" \in z <=> o
      /\ "Z" \in z <=> "Z" \in s /\ r = 0
  BY <1>2 DEF Put
<1> HIDE DEF z
<1>5. /\ "V" \in zn <=> o
      /\ "N" \in zn <=> n
      /\ "Z" \in zn <=> "Z" \in s /\ r = 0
  BY <1>2, <1>4 DEF Put
<1> HIDE DEF zn
<1>6. /\ "C" \in f <=> c
      /\ "V" \in f <=> o
      /\ "N" \in f <=> n
      /\ "Z" \in f <=> "Z" \in s /\ r = 0
      /\ "S" \in f <=> ~ (n <=> o)
  BY <1>2, <1>3, <1>5 DEF Put
<1> QED BY <1>1, <1>6 DEF c, n, f

\* A carry.
Bit == {0, 1}

\* A sum of bytes has its carry in bit 8 of the 16-bit result.
LEMMA SumOfBytes ==
  ASSUME NEW a \in Byte, NEW b \in Byte, NEW c \in Bit
  PROVE  /\ U16(a + b + c) = a + b + c
         /\ (U16(a + b + c) \div 256) % 2 = 1 <=> a + b + c > 255
         /\ U8(U16(a + b + c)) = (a + b + c) % 256
BY DEF Byte, Bit, U16, U8

\* A difference of bytes has its borrow there.
LEMMA DifferenceOfBytes ==
  ASSUME NEW a \in Byte, NEW b \in Byte, NEW c \in Bit
  PROVE  /\ U16(a - b - c) = IF a >= b + c THEN a - b - c ELSE 65536 + a - b - c
         /\ (U16(a - b - c) \div 256) % 2 = 1 <=> a < b + c
         /\ U8(U16(a - b - c)) = (a - b - c) % 256
         /\ U16(a - b - c) = 0 <=> a = b + c
BY DEF Byte, Bit, U16, U8

\* The sign bit, as a comparison.
LEMMA Signs ==
  ASSUME NEW a \in Byte, NEW v \in Int
  PROVE  (Sign(a) <=> a >= 128) /\ (Sign(v) <=> v % 256 >= 128)
BY DEF Sign, U8, Byte

\* add and adc: the sum and its flags.
LEMMA AddFlags ==
  ASSUME NEW a \in Byte, NEW b \in Byte, NEW c \in Bit, NEW s
  PROVE  LET r == AddBytes(a, b, c, s) v == (a + b + c) % 256
         IN  /\ r.val = v /\ v \in Byte
             /\ "C" \in r.sreg <=> a + b + c > 255
             /\ "V" \in r.sreg <=> (a >= 128 <=> b >= 128) /\ ~ (a >= 128 <=> v >= 128)
             /\ "N" \in r.sreg <=> v >= 128
             /\ "Z" \in r.sreg <=> v = 0
             /\ "S" \in r.sreg <=> ~ ("N" \in r.sreg <=> "V" \in r.sreg)
<1> DEFINE r == AddBytes(a, b, c, s)
           v == (a + b + c) % 256
           w == U16(a + b + c)
<1>1. r.val = U8(w) /\ r.sreg = CheckZsnf(U8(w), CheckCv(w, a, b, s))
  BY DEF AddBytes
<1>2. U8(w) = v /\ ((w \div 256) % 2 = 1 <=> a + b + c > 255)
  BY SumOfBytes
<1>3. v \in Byte /\ w \in Int /\ w % 256 = v
  <2>1. w \in Int /\ U8(w) = w % 256
    BY DEF U16, U8, Byte, Bit
  <2>2. v \in Byte
    BY DEF Byte, Bit
  <2> QED BY <1>2, <2>1, <2>2
<1>4. /\ Sign(a) <=> a >= 128
      /\ Sign(b) <=> b >= 128
      /\ Sign(w) <=> v >= 128
      /\ Sign(v) <=> v >= 128
  BY <1>3, Signs
<1> HIDE DEF r, v, w
<1> QED BY <1>1, <1>2, <1>3, <1>4, CvFlags DEF r, v

\* sub and sbc: the difference and its flags; the borrow is that of the carry
\* in the register, which for sub is not the one subtracted.
LEMMA SubtractFlags ==
  ASSUME NEW a \in Byte, NEW b \in Byte, NEW c \in Bit, NEW s
  PROVE  LET r == SubBytes(a, b, c, s) v == (a - b - c) % 256
         IN  /\ r.val = v /\ v \in Byte
             /\ "C" \in r.sreg <=> b + CarryIn(s) > a
             /\ "V" \in r.sreg <=> ~ (a >= 128 <=> b >= 128) /\ ~ (a >= 128 <=> v >= 128)
             /\ "N" \in r.sreg <=> v >= 128
             /\ "Z" \in r.sreg <=> "Z" \in s /\ a = b + c
             /\ "S" \in r.sreg <=> ~ ("N" \in r.sreg <=> "V" \in r.sreg)
<1> DEFINE r == SubBytes(a, b, c, s)
           v == (a - b - c) % 256
           w == U16(a - b - c)
<1>1. r.val = U8(w) /\ r.sreg = CheckSubf(w, a, b, s)
  BY DEF SubBytes
<1>2. U8(w) = v /\ (w = 0 <=> a = b + c)
  BY DifferenceOfBytes
<1>3. v \in Byte /\ w \in Int /\ w % 256 = v
  <2>1. w \in Int /\ U8(w) = w % 256
    BY DEF U16, U8, Byte, Bit
  <2>2. v \in Byte
    BY DEF Byte, Bit
  <2> QED BY <1>2, <2>1, <2>2
<1>4. /\ Sign(a) <=> a >= 128
      /\ Sign(b) <=> b >= 128
      /\ Sign(w) <=> v >= 128
  BY <1>3, Signs
<1> HIDE DEF r, v, w
<1> QED BY <1>1, <1>2, <1>3, <1>4, SubFlags DEF r, v

\* The same of a result that has a name.
LEMMA SubtractByte ==
  ASSUME NEW a \in Byte, NEW b \in Byte, NEW c \in Bit, NEW s,
         NEW r, r = SubBytes(a, b, c, s)
  PROVE  /\ r.val = (a - b - c) % 256
         /\ "C" \in r.sreg <=> b + CarryIn(s) > a
         /\ "V" \in r.sreg <=> ~ (a >= 128 <=> b >= 128)
                                /\ ~ (a >= 128 <=> (a - b - c) % 256 >= 128)
         /\ "N" \in r.sreg <=> (a - b - c) % 256 >= 128
         /\ "Z" \in r.sreg <=> "Z" \in s /\ a = b + c
         /\ "S" \in r.sreg <=> ~ ("N" \in r.sreg <=> "V" \in r.sreg)
BY SubtractFlags

\* cp and cpc: C orders unsigned bytes.
LEMMA CompareFlags ==
  ASSUME NEW a \in Byte, NEW b \in Byte, NEW c \in Bit, NEW s
  PROVE  "C" \in CompareBytes(a, b, c, s) <=> a < b + c
<1> DEFINE w == U16(a - b - c)
<1>1. (w \div 256) % 2 = 1 <=> a < b + c
  BY DifferenceOfBytes
<1>2. CompareBytes(a, b, c, s) = CheckZsnf(U8(w), CheckCv(w, a, b, s))
  BY DEF CompareBytes
<1> HIDE DEF w
<1> QED BY <1>1, <1>2, CvFlags

------------------------------------------------------------------------------
\* Words from bytes.
Carry(n) == IF n > 255 THEN 1 ELSE 0
Int16Of(h, l) == Int16(Pair(h, l))

\* The sum of words: low bytes, then high bytes with the carry.
LEMMA WordSum ==
  ASSUME NEW h \in Byte, NEW l \in Byte, NEW g \in Byte, NEW k \in Byte
  PROVE  LET low  == (l + k) % 256
             c    == Carry(l + k)
             high == (h + g + c) % 256
         IN  /\ Pair(high, low) = U16(Pair(h, l) + Pair(g, k))
             /\ h + g + c > 255 <=> Pair(h, l) + Pair(g, k) > 65535
             /\ high >= 128 <=> Pair(high, low) >= 32768
BY DEF Byte, Pair, U16, Carry

\* Membership of Word16 as bounds.
LEMMA Word16Is ==
  ASSUME NEW n \in Int
  PROVE  n \in Word16 <=> -32768 <= n /\ n <= 32767
<1> DEFINE top == 32767
           bottom == -32768
<1>1. Word16 = bottom .. top
  BY DEF Word16
<1>2. top \in Int /\ bottom \in Int /\ (\A m \in Int : m <= top <=> m <= 32767)
      /\ (\A m \in Int : bottom <= m <=> -32768 <= m)
  OBVIOUS
<1> HIDE DEF top, bottom
<1> QED BY <1>1, <1>2

\* The overflow and the sign of the signed sum show in the high bytes.
LEMMA SignedSum ==
  ASSUME NEW h \in Byte, NEW l \in Byte, NEW g \in Byte, NEW k \in Byte
  PROVE  LET c    == Carry(l + k)
             high == (h + g + c) % 256
             r    == Int16Of(h, l) + Int16Of(g, k)
             v    == (h >= 128 <=> g >= 128) /\ ~ (h >= 128 <=> high >= 128)
         IN  /\ v <=> r \notin Word16
             /\ r < 0 <=> ~ (high >= 128 <=> v)
<1> DEFINE c    == Carry(l + k)
           high == (h + g + c) % 256
           r    == Int16Of(h, l) + Int16Of(g, k)
<1>1. c \in {0, 1} /\ (c = 1 <=> l + k > 255)
  BY DEF Carry, Byte
<1>2. r = (256 * h + l) + (256 * g + k)
        - (IF h >= 128 THEN 65536 ELSE 0) - (IF g >= 128 THEN 65536 ELSE 0)
  BY DEF Int16Of, Int16, Pair, Byte
<1>3. r \in Int /\ h \in 0 .. 255 /\ l \in 0 .. 255 /\ g \in 0 .. 255 /\ k \in 0 .. 255
  BY <1>2 DEF Byte
<1>4. r \notin Word16 <=> r < -32768 \/ r > 32767
  BY <1>3, Word16Is
<1>5. high = IF h + g + c > 255 THEN h + g + c - 256 ELSE h + g + c
  BY <1>1, <1>3
<1> HIDE DEF c, high, r
<1>6. (h >= 128 <=> g >= 128) /\ ~ (h >= 128 <=> high >= 128) <=> r < -32768 \/ r > 32767
  BY <1>1, <1>2, <1>3, <1>5
<1>7. r < 0 <=> ~ (high >= 128 <=> ((h >= 128 <=> g >= 128) /\ ~ (h >= 128 <=> high >= 128)))
  BY <1>1, <1>2, <1>3, <1>5
<1> QED BY <1>4, <1>6, <1>7 DEF c, high, r

\* The same of differences.
Borrow(l, k) == IF l < k THEN 1 ELSE 0

\* Low bytes, then high bytes with the borrow.
LEMMA WordDifference ==
  ASSUME NEW h \in Byte, NEW l \in Byte, NEW g \in Byte, NEW k \in Byte
  PROVE  LET low  == (l - k) % 256
             c    == Borrow(l, k)
             high == (h - g - c) % 256
         IN  /\ Pair(high, low) = U16(Pair(h, l) - Pair(g, k))
             /\ g + c > h <=> Pair(h, l) < Pair(g, k)
             /\ high >= 128 <=> Pair(high, low) >= 32768
BY DEF Byte, Pair, U16, Borrow

\* The overflow and the sign of the signed difference.
LEMMA SignedDifference ==
  ASSUME NEW h \in Byte, NEW l \in Byte, NEW g \in Byte, NEW k \in Byte
  PROVE  LET c    == Borrow(l, k)
             high == (h - g - c) % 256
             r    == Int16Of(h, l) - Int16Of(g, k)
             v    == ~ (h >= 128 <=> g >= 128) /\ ~ (h >= 128 <=> high >= 128)
         IN  /\ v <=> r \notin Word16
             /\ r < 0 <=> ~ (high >= 128 <=> v)
<1> DEFINE c    == Borrow(l, k)
           high == (h - g - c) % 256
           r    == Int16Of(h, l) - Int16Of(g, k)
<1>1. c \in {0, 1} /\ (c = 1 <=> l < k)
  BY DEF Borrow, Byte
<1>2. r = (256 * h + l) - (256 * g + k)
        - (IF h >= 128 THEN 65536 ELSE 0) + (IF g >= 128 THEN 65536 ELSE 0)
  BY DEF Int16Of, Int16, Pair, Byte
<1>3. r \in Int /\ h \in 0 .. 255 /\ l \in 0 .. 255 /\ g \in 0 .. 255 /\ k \in 0 .. 255
  BY <1>2 DEF Byte
<1>4. r \notin Word16 <=> r < -32768 \/ r > 32767
  BY <1>3, Word16Is
<1>5. high = IF h < g + c THEN h - g - c + 256 ELSE h - g - c
  BY <1>1, <1>3
<1> HIDE DEF c, high, r
<1>6. ~ (h >= 128 <=> g >= 128) /\ ~ (h >= 128 <=> high >= 128) <=> r < -32768 \/ r > 32767
  BY <1>1, <1>2, <1>3, <1>5
<1>7. r < 0 <=> ~ (high >= 128 <=> (~ (h >= 128 <=> g >= 128) /\ ~ (h >= 128 <=> high >= 128)))
  BY <1>1, <1>2, <1>3, <1>5
<1> QED BY <1>4, <1>6, <1>7 DEF c, high, r

------------------------------------------------------------------------------
\* Two instructions, the second with the carry of the first.

\* The flags s of the word w, which stands for the signed result r.
FlagsFor(s, w, r) ==
  /\ "V" \in s <=> r \notin Word16
  /\ "N" \in s <=> w >= 32768
  /\ "S" \in s <=> r < 0

\* The carry that goes into the second.
LEMMA CarryOf ==
  ASSUME NEW s
  PROVE  CarryIn(s) \in Bit /\ (CarryIn(s) = 1 <=> "C" \in s)
BY DEF CarryIn, Bit

\* They add words (execute.c:8-41).
LEMMA AddTwice ==
  ASSUME NEW w \in Addr, NEW v \in Addr, NEW s,
         NEW r0, r0 = AddBytes(Lo(w), Lo(v), 0, s),
         NEW r1, r1 = AddBytes(Hi(w), Hi(v), CarryIn(r0.sreg), r0.sreg)
  PROVE  /\ Pair(r1.val, r0.val) = U16(w + v)
         /\ "C" \in r1.sreg <=> w + v > 65535
         /\ FlagsFor(r1.sreg, U16(w + v), Int16(w) + Int16(v))
<1> DEFINE h == Hi(w)
           l == Lo(w)
           g == Hi(v)
           k == Lo(v)
           c == Carry(l + k)
           low == (l + k) % 256
           high == (h + g + c) % 256
           over == (h >= 128 <=> g >= 128) /\ ~ (h >= 128 <=> high >= 128)
<1>1. h \in Byte /\ l \in Byte /\ g \in Byte /\ k \in Byte /\ w = Pair(h, l) /\ v = Pair(g, k)
  BY WordBytes
<1> HIDE DEF h, l, g, k
<1>2. r0.val = low /\ ("C" \in r0.sreg <=> l + k > 255)
  <2>1. l + k + 0 = l + k
    BY <1>1 DEF Byte
  <2>2. 0 \in Bit
    BY DEF Bit
  <2> QED BY <1>1, <2>1, <2>2, AddFlags DEF l, k
<1>3. CarryIn(r0.sreg) = c
  BY <1>2, CarryOf DEF Carry, Bit
<1>4. c \in Bit
  BY DEF Carry, Bit
<1>5. r1 = AddBytes(h, g, c, r0.sreg)
  BY <1>3 DEF h, g
<1>6. /\ r1.val = high
      /\ "C" \in r1.sreg <=> h + g + c > 255
      /\ "V" \in r1.sreg <=> over
      /\ "N" \in r1.sreg <=> high >= 128
      /\ "S" \in r1.sreg <=> ~ ("N" \in r1.sreg <=> "V" \in r1.sreg)
  <2> HIDE DEF c
  <2> QED BY <1>1, <1>4, <1>5, AddFlags
<1>7. /\ Pair(high, low) = U16(w + v)
      /\ h + g + c > 255 <=> w + v > 65535
      /\ high >= 128 <=> U16(w + v) >= 32768
  BY <1>1, WordSum
<1>8. /\ over <=> Int16(w) + Int16(v) \notin Word16
      /\ Int16(w) + Int16(v) < 0 <=> ~ (high >= 128 <=> over)
  BY <1>1, SignedSum DEF Int16Of
<1> HIDE DEF low, high, over, c
<1> QED BY <1>2, <1>6, <1>7, <1>8 DEF FlagsFor

\* They subtract words if the carry was clear (execute.c:679-692, 856-867).
LEMMA SubtractTwice ==
  ASSUME NEW w \in Addr, NEW v \in Addr, NEW s, "C" \notin s,
         NEW r0, r0 = SubBytes(Lo(w), Lo(v), 0, s),
         NEW r1, r1 = SubBytes(Hi(w), Hi(v), CarryIn(r0.sreg), r0.sreg)
  PROVE  /\ Pair(r1.val, r0.val) = U16(w - v)
         /\ "C" \in r1.sreg <=> w < v
         /\ FlagsFor(r1.sreg, U16(w - v), Int16(w) - Int16(v))
<1> DEFINE h == Hi(w)
           l == Lo(w)
           g == Hi(v)
           k == Lo(v)
           c == Borrow(l, k)
           low == (l - k) % 256
           high == (h - g - c) % 256
           over == ~ (h >= 128 <=> g >= 128) /\ ~ (h >= 128 <=> high >= 128)
<1>1. h \in Byte /\ l \in Byte /\ g \in Byte /\ k \in Byte /\ w = Pair(h, l) /\ v = Pair(g, k)
  BY WordBytes
<1> HIDE DEF h, l, g, k
<1>2. r0.val = low /\ ("C" \in r0.sreg <=> l < k)
  <2> DEFINE none == 0
  <2>1. none \in Bit /\ CarryIn(s) = 0 /\ r0 = SubBytes(l, k, none, s)
    BY DEF Bit, CarryIn, l, k
  <2>2. l - k - none = l - k /\ k + 0 = k /\ (k > l <=> l < k)
    BY <1>1 DEF Byte
  <2> HIDE DEF none
  <2>3. r0.val = (l - k - none) % 256 /\ ("C" \in r0.sreg <=> k + CarryIn(s) > l)
    BY <1>1, <2>1, SubtractByte
  <2> QED BY <2>1, <2>2, <2>3
<1>3. CarryIn(r0.sreg) = c
  BY <1>2, CarryOf DEF Borrow, Bit
<1>4. c \in Bit
  BY DEF Borrow, Bit
<1>5. r1 = SubBytes(h, g, c, r0.sreg)
  BY <1>3 DEF h, g
<1>6. /\ r1.val = high
      /\ "C" \in r1.sreg <=> g + c > h
      /\ "V" \in r1.sreg <=> over
      /\ "N" \in r1.sreg <=> high >= 128
      /\ "S" \in r1.sreg <=> ~ ("N" \in r1.sreg <=> "V" \in r1.sreg)
  <2> HIDE DEF c
  <2>1. /\ r1.val = high
        /\ "C" \in r1.sreg <=> g + CarryIn(r0.sreg) > h
        /\ "V" \in r1.sreg <=> over
        /\ "N" \in r1.sreg <=> high >= 128
        /\ "S" \in r1.sreg <=> ~ ("N" \in r1.sreg <=> "V" \in r1.sreg)
    BY <1>1, <1>4, <1>5, SubtractByte
  <2> QED BY <1>3, <2>1
<1>7. /\ Pair(high, low) = U16(w - v)
      /\ g + c > h <=> w < v
      /\ high >= 128 <=> U16(w - v) >= 32768
  BY <1>1, WordDifference
<1>8. /\ over <=> Int16(w) - Int16(v) \notin Word16
      /\ Int16(w) - Int16(v) < 0 <=> ~ (high >= 128 <=> over)
  BY <1>1, SignedDifference DEF Int16Of
<1> HIDE DEF low, high, over, c
<1> QED BY <1>2, <1>6, <1>7, <1>8 DEF FlagsFor

\* They order words (execute.c:259-288).
LEMMA CompareTwice ==
  ASSUME NEW w \in Addr, NEW v \in Addr, NEW s,
         NEW f, f = CompareBytes(Lo(w), Lo(v), 0, s)
  PROVE  "C" \in CompareBytes(Hi(w), Hi(v), CarryIn(f), f) <=> w < v
<1>1. /\ Hi(w) \in Byte /\ Lo(w) \in Byte /\ Hi(v) \in Byte /\ Lo(v) \in Byte
      /\ w = Pair(Hi(w), Lo(w)) /\ v = Pair(Hi(v), Lo(v))
  BY WordBytes
<1>2. "C" \in f <=> Lo(w) < Lo(v)
  <2>1. Lo(v) + 0 = Lo(v) /\ 0 \in Bit
    BY <1>1 DEF Byte, Bit
  <2> QED BY <1>1, <2>1, CompareFlags
<1>3. CarryIn(f) = Borrow(Lo(w), Lo(v)) /\ CarryIn(f) \in Bit
  BY <1>2, CarryOf DEF Borrow, Bit
<1>4. "C" \in CompareBytes(Hi(w), Hi(v), CarryIn(f), f) <=> Hi(w) < Hi(v) + CarryIn(f)
  BY <1>1, <1>3, CompareFlags
<1>5. ASSUME NEW h \in Byte, NEW g \in Byte, NEW c \in Bit
      PROVE  h < g + c <=> g + c > h
  BY DEF Byte, Bit
<1> QED BY <1>1, <1>3, <1>4, <1>5, WordDifference

------------------------------------------------------------------------------
\* The chain of masks in execute.

\* The handlers of the programs' opcodes.
LEMMA Dispatch ==
  /\ Handler(\h0cca) = "add" /\ Handler(\h1cdb) = "adc"
  /\ Handler(\h18ca) = "sub" /\ Handler(\h08db) = "sbc"
  /\ Handler(\h14ca) = "cp" /\ Handler(\h04db) = "cpc"
  /\ Handler(\h9598) = "abrk"
<1>1. /\ Written(\h0cca, 0, 12, 12, 10) /\ Written(\h1cdb, 1, 12, 13, 11)
      /\ Written(\h18ca, 1, 8, 12, 10) /\ Written(\h08db, 0, 8, 13, 11)
      /\ Written(\h14ca, 1, 4, 12, 10) /\ Written(\h04db, 0, 4, 13, 11)
      /\ Written(\h9598, 9, 5, 9, 8)
  BY DEF Written, Digit
<1> QED BY <1>1, HandlerIs

\* The opcodes of the word instructions, for every constant.
Immediate(opcode) == Encode("IMM_WORD", opcode, 12, Constant)

\* adiw and sbiw are found whatever the constant is.
LEMMA DispatchImmediate ==
  /\ Handler(Immediate(\h9600)) = "adiw" /\ Handler(Immediate(\h9700)) = "sbiw"
<1> DEFINE a == 2 + (4 * (Constant \div 16))
           b == Constant % 16
<1>1. a \in Digit /\ b \in Digit
  BY OperandsAssumption DEF Digit
<1>2. \A opcode : Immediate(opcode) = opcode + (32 + b + (64 * (Constant \div 16)))
  BY DEF Immediate, Encode
<1>3. \A opcode \in Int : Immediate(opcode) = opcode + (16 * a) + b
  BY <1>1, <1>2, OperandsAssumption DEF Digit
<1> HIDE DEF a, b
<1>4. Written(Immediate(\h9600), 9, 6, a, b) /\ Written(Immediate(\h9700), 9, 7, a, b)
  BY <1>1, <1>3 DEF Written, Digit
<1> QED BY <1>4, HandlerIs

------------------------------------------------------------------------------
\* The programs in memory.

\* Their mnemonics, by type.
Dual == {"Add", "AddWithC", "Subtract", "SubtractWithC", "Compare", "CompareCarry"}
WordNames == {"AddImmWord", "SubtractImmWord"}
Names == Dual \cup WordNames \cup {"Break"}
NamesOf(t) == CASE t = "DIR_DUAL" -> Dual [] t = "IMM_WORD" -> WordNames
                [] t = "IMPLIED" -> {"Break"} [] OTHER -> {}

\* Each of them stands in one row of the table only.
LEMMA Rows ==
  ASSUME NEW t \in Types
  PROVE  Names \cap DOMAIN Mnemonics[t] = NamesOf(t)
<1>1. t \in {"DIR_DUAL", "IMM_WORD", "IMPLIED", "DIR_SING", "DIR_STD", "DIR_WORD",
            "IMM_BYTE", "BRANCH", "BR_BIT", "BIT", "LDSTR_BIT", "DIR_32", "LD_IND",
            "STR_IND", "LD_DIR", "STR_DIR"}
  BY DEF Types, Mnemonics
<1>2. CASE t = "DIR_DUAL"
  BY <1>2 DEF Mnemonics, Names, Dual, WordNames, NamesOf
<1>3. CASE t = "IMM_WORD"
  BY <1>3 DEF Mnemonics, Names, Dual, WordNames, NamesOf
<1>4. CASE t = "IMPLIED"
  BY <1>4 DEF Mnemonics, Names, Dual, WordNames, NamesOf
<1>5. CASE t = "DIR_SING"
  BY <1>5 DEF Mnemonics, Names, Dual, WordNames, NamesOf
<1>6. CASE t = "DIR_STD"
  BY <1>6 DEF Mnemonics, Names, Dual, WordNames, NamesOf
<1>7. CASE t = "DIR_WORD"
  BY <1>7 DEF Mnemonics, Names, Dual, WordNames, NamesOf
<1>8. CASE t = "IMM_BYTE"
  BY <1>8 DEF Mnemonics, Names, Dual, WordNames, NamesOf
<1>9. CASE t = "BRANCH"
  BY <1>9 DEF Mnemonics, Names, Dual, WordNames, NamesOf
<1>10. CASE t = "BR_BIT"
  BY <1>10 DEF Mnemonics, Names, Dual, WordNames, NamesOf
<1>11. CASE t = "BIT"
  BY <1>11 DEF Mnemonics, Names, Dual, WordNames, NamesOf
<1>12. CASE t = "LDSTR_BIT"
  BY <1>12 DEF Mnemonics, Names, Dual, WordNames, NamesOf
<1>13. CASE t = "DIR_32"
  BY <1>13 DEF Mnemonics, Names, Dual, WordNames, NamesOf
<1>14. CASE t = "LD_IND"
  BY <1>14 DEF Mnemonics, Names, Dual, WordNames, NamesOf
<1>15. CASE t = "STR_IND"
  BY <1>15 DEF Mnemonics, Names, Dual, WordNames, NamesOf
<1>16. CASE t = "LD_DIR"
  BY <1>16 DEF Mnemonics, Names, Dual, WordNames, NamesOf
<1>17. CASE t = "STR_DIR"
  BY <1>17 DEF Mnemonics, Names, Dual, WordNames, NamesOf
<1> QED
  BY <1>1, <1>2, <1>3, <1>4, <1>5, <1>6, <1>7, <1>8, <1>9, <1>10, <1>11, <1>12,
     <1>13, <1>14, <1>15, <1>16, <1>17

\* So the type that the search for a mnemonic finds is that row's.
LEMMA TypesOf ==
  /\ \A m \in Dual : TypeOf(m) = "DIR_DUAL"
  /\ \A m \in WordNames : TypeOf(m) = "IMM_WORD"
  /\ TypeOf("Break") = "IMPLIED"
<1>1. {"DIR_DUAL", "IMM_WORD", "IMPLIED"} \subseteq Types
  BY DEF Types, Mnemonics
<1>2. \A m \in Names : \A t \in Types : m \in DOMAIN Mnemonics[t] <=> m \in NamesOf(t)
  BY Rows
<1>3. \A t \in Types : /\ \A m \in Dual : m \in NamesOf(t) <=> t = "DIR_DUAL"
                       /\ \A m \in WordNames : m \in NamesOf(t) <=> t = "IMM_WORD"
                       /\ "Break" \in NamesOf(t) <=> t = "IMPLIED"
  BY DEF NamesOf, Dual, WordNames
<1> QED BY <1>1, <1>2, <1>3 DEF TypeOf, Names

\* The opcodes of the rows (opcode.c).
LEMMA Opcodes ==
  /\ Mnemonics["DIR_DUAL"]["Add"] = \h0c00 /\ Mnemonics["DIR_DUAL"]["AddWithC"] = \h1c00
  /\ Mnemonics["DIR_DUAL"]["Subtract"] = \h1800 /\ Mnemonics["DIR_DUAL"]["SubtractWithC"] = \h0800
  /\ Mnemonics["DIR_DUAL"]["Compare"] = \h1400 /\ Mnemonics["DIR_DUAL"]["CompareCarry"] = \h0400
  /\ Mnemonics["IMM_WORD"]["AddImmWord"] = \h9600
  /\ Mnemonics["IMM_WORD"]["SubtractImmWord"] = \h9700
  /\ Mnemonics["IMPLIED"]["Break"] = \h9598
BY DEF Mnemonics

\* The bytes of an instruction of one word.
LEMMA ShortBytes ==
  ASSUME NEW ins, NEW t \in {"DIR_DUAL", "IMM_WORD", "IMPLIED"},
         TypeOf(ins[1]) = t
  PROVE  LET w == Encode(t, Mnemonics[t][ins[1]], ins[2], ins[3])
         IN  BytesOf(ins) = <<Lo(w), Hi(w)>>
BY DEF BytesOf, WordOf, Size

\* A program of two or three words lies in memory word after word.
LEMMA CodeLies ==
  ASSUME NEW p, NEW n \in {2, 3}, DOMAIN p = 1 .. n, Len(p) = n,
         NEW w \in [1 .. 3 -> Addr],
         \A i \in 1 .. n : BytesOf(p[i]) = <<Lo(w[i]), Hi(w[i])>>,
         mem = Loaded(ImageOf(p))
  PROVE  WordAt(0) = w[1] /\ WordAt(2) = w[2] /\ (n = 3 => WordAt(4) = w[3])
<1> DEFINE A == Addresses(p)
           b(i) == BytesOf(p[i])
<1>1. \A i \in 1 .. n : /\ b(i) \in Seq(Byte) /\ Len(b(i)) = 2
                        /\ b(i)[1] = Lo(w[i]) /\ b(i)[2] = Hi(w[i])
  <2> SUFFICES ASSUME NEW i \in 1 .. n
               PROVE  /\ b(i) \in Seq(Byte) /\ Len(b(i)) = 2
                      /\ b(i)[1] = Lo(w[i]) /\ b(i)[2] = Hi(w[i])
    OBVIOUS
  <2>1. b(i) = <<Lo(w[i]), Hi(w[i])>> /\ w[i] \in Addr
    OBVIOUS
  <2>2. Lo(w[i]) \in Byte /\ Hi(w[i]) \in Byte
    BY <2>1, Halves
  <2> HIDE DEF b
  <2> QED BY <2>1, <2>2
<1>2. IsText(p)
  BY DEF IsText
<1>3. \A i \in 1 .. n : \A j \in 1 .. Len(b(i)) :
        (A[i] + j) - 1 \in DOMAIN ImageOf(p) /\ ImageOf(p)[(A[i] + j) - 1] = b(i)[j]
  <2>1. Len(p) = n /\ \A i \in 1 .. Len(p) : BytesOf(p[i]) \in Seq(Byte)
    BY <1>1
  <2>2. \A i \in 1 .. Len(p) : \A j \in 1 .. Len(BytesOf(p[i])) :
          /\ (Addresses(p)[i] + j) - 1 \in DOMAIN ImageOf(p)
          /\ ImageOf(p)[(Addresses(p)[i] + j) - 1] = BytesOf(p[i])[j]
    BY <1>2, <2>1, ImageHolds
  <2> QED BY <2>1, <2>2
<1>4. \A i \in 1 .. n : A[i] = IF i = 1 THEN 0 ELSE A[i - 1] + Len(b(i - 1))
  BY AddressesAre
<1> HIDE DEF A, b
<1>5. A[1] = 0 /\ A[2] = 2 /\ (n = 3 => A[3] = 4)
  <2>1. A[1] = 0 /\ A[2] = A[1] + Len(b(1)) /\ (n = 3 => A[3] = A[2] + Len(b(2)))
    BY <1>4
  <2>2. Len(b(1)) = 2 /\ Len(b(2)) = 2
    BY <1>1
  <2>3. A[2] = 0 + 2 /\ (n = 3 => A[3] = A[2] + 2)
    BY <2>1, <2>2, Zenon
  <2>4. 0 + 2 = 2 /\ 2 + 2 = 4
    OBVIOUS
  <2> QED BY <2>1, <2>3, <2>4, Zenon
<1>6. \A a \in 0 .. 5 : a \in DOMAIN ImageOf(p) => Peek(a) = ImageOf(p)[a]
  <2> DEFINE first == \hc000
             end == \hd800 - 1
  <2>1. \A a \in 0 .. 5 : a \in Int /\ a < first
    OBVIOUS
  <2>2. ScreenRom = first .. end /\ first \in Int /\ end \in Int
    BY DEF ScreenRom, SCR_OFF
  <2> HIDE DEF first, end
  <2>3. \A a \in 0 .. 5 : a \notin ScreenRom
    BY <2>1, <2>2
  <2> QED BY <2>3 DEF Loaded, Peek
<1>7. ASSUME NEW i \in 1 .. n
      PROVE  WordAt(2 * (i - 1)) = w[i]
  <2> DEFINE at == 2 * (i - 1)
  <2>1. A[i] = at /\ at \in Int /\ at \in 0 .. 5 /\ at + 1 \in 0 .. 5
    BY <1>5
  <2>2. (A[i] + 1) - 1 = at /\ (A[i] + 2) - 1 = at + 1
    BY <2>1
  <2> HIDE DEF at
  <2>3. /\ at \in DOMAIN ImageOf(p) /\ ImageOf(p)[at] = Lo(w[i])
        /\ at + 1 \in DOMAIN ImageOf(p) /\ ImageOf(p)[at + 1] = Hi(w[i])
    BY <1>1, <1>3, <2>2
  <2>4. Peek(at) = Lo(w[i]) /\ Peek(at + 1) = Hi(w[i])
    BY <1>6, <2>1, <2>3
  <2>5. w[i] \in Addr
    OBVIOUS
  <2> QED BY <2>4, <2>5, WordBytes DEF WordAt, at
<1>8. /\ 2 * (1 - 1) = 0 /\ 2 * (2 - 1) = 2 /\ 2 * (3 - 1) = 4
      /\ 1 \in 1 .. n /\ 2 \in 1 .. n /\ (n = 3 => 3 \in 1 .. n)
  OBVIOUS
<1>9. /\ WordAt(2 * (1 - 1)) = w[1] /\ WordAt(2 * (2 - 1)) = w[2]
      /\ n = 3 => WordAt(2 * (3 - 1)) = w[3]
  BY <1>7, <1>8
<1> QED BY <1>8, <1>9

------------------------------------------------------------------------------
\* The programs of two instructions on bytes.
Wide == {"add", "subtract", "compare"}

\* The words they leave in memory.
LEMMA WideCode ==
  ASSUME program \in Wide, mem = Loaded(ImageOf(Programs[program]))
  PROVE  /\ program = "add"      => WordAt(0) = \h0cca /\ WordAt(2) = \h1cdb
         /\ program = "subtract" => WordAt(0) = \h18ca /\ WordAt(2) = \h08db
         /\ program = "compare"  => WordAt(0) = \h14ca /\ WordAt(2) = \h04db
         /\ WordAt(4) = \h9598
<1> DEFINE Is(low, high) == WordAt(0) = low /\ WordAt(2) = high /\ WordAt(4) = \h9598
<1>1. ASSUME NEW low \in Dual, NEW high \in Dual, NEW l \in Addr, NEW h \in Addr,
             Programs[program] = LowThenHigh(low, high),
             l = Encode("DIR_DUAL", Mnemonics["DIR_DUAL"][low], 12, 10),
             h = Encode("DIR_DUAL", Mnemonics["DIR_DUAL"][high], 13, 11)
      PROVE  Is(l, h)
  <2> DEFINE p == LowThenHigh(low, high)
             w == <<l, h, \h9598>>
  <2>1. DOMAIN p = 1 .. 3 /\ Len(p) = 3
        /\ p[1] = <<low, 12, 10>> /\ p[2] = <<high, 13, 11>> /\ p[3] = <<"Break", 0, 0>>
    BY DEF LowThenHigh
  <2>2. \h9598 = Encode("IMPLIED", Mnemonics["IMPLIED"]["Break"], 0, 0) /\ \h9598 \in Addr
    BY Opcodes, AddrBounds DEF Encode
  <2>3. BytesOf(p[1]) = <<Lo(l), Hi(l)>>
    BY <1>1, <2>1, TypesOf, ShortBytes
  <2>4. BytesOf(p[2]) = <<Lo(h), Hi(h)>>
    BY <1>1, <2>1, TypesOf, ShortBytes
  <2>5. BytesOf(p[3]) = <<Lo(\h9598), Hi(\h9598)>>
    BY <2>1, <2>2, TypesOf, ShortBytes
  <2>6. w \in [1 .. 3 -> Addr] /\ w[1] = l /\ w[2] = h /\ w[3] = \h9598
    BY <2>2
  <2> HIDE DEF p, w
  <2>7. \A i \in 1 .. 3 : BytesOf(p[i]) = <<Lo(w[i]), Hi(w[i])>>
    BY <2>3, <2>4, <2>5, <2>6
  <2>8. mem = Loaded(ImageOf(p))
    BY <1>1 DEF p
  <2> QED BY <2>1, <2>6, <2>7, <2>8, CodeLies
<1> HIDE DEF Is
<1>2. /\ \h0cca \in Addr /\ \h1cdb \in Addr /\ \h18ca \in Addr /\ \h08db \in Addr
      /\ \h14ca \in Addr /\ \h04db \in Addr
  BY AddrBounds
<1>3. CASE program = "add"
  <2>1. Programs[program] = LowThenHigh("Add", "AddWithC")
    BY <1>3 DEF Programs
  <2>2. /\ \h0cca = Encode("DIR_DUAL", Mnemonics["DIR_DUAL"]["Add"], 12, 10)
        /\ \h1cdb = Encode("DIR_DUAL", Mnemonics["DIR_DUAL"]["AddWithC"], 13, 11)
    BY Opcodes DEF Encode
  <2>3. Is(\h0cca, \h1cdb)
    BY <1>1, <1>2, <2>1, <2>2 DEF Dual
  <2> QED BY <1>3, <2>3 DEF Is
<1>4. CASE program = "subtract"
  <2>1. Programs[program] = LowThenHigh("Subtract", "SubtractWithC")
    BY <1>4 DEF Programs
  <2>2. /\ \h18ca = Encode("DIR_DUAL", Mnemonics["DIR_DUAL"]["Subtract"], 12, 10)
        /\ \h08db = Encode("DIR_DUAL", Mnemonics["DIR_DUAL"]["SubtractWithC"], 13, 11)
    BY Opcodes DEF Encode
  <2>3. Is(\h18ca, \h08db)
    BY <1>1, <1>2, <2>1, <2>2 DEF Dual
  <2> QED BY <1>4, <2>3 DEF Is
<1>5. CASE program = "compare"
  <2>1. Programs[program] = LowThenHigh("Compare", "CompareCarry")
    BY <1>5 DEF Programs
  <2>2. /\ \h14ca = Encode("DIR_DUAL", Mnemonics["DIR_DUAL"]["Compare"], 12, 10)
        /\ \h04db = Encode("DIR_DUAL", Mnemonics["DIR_DUAL"]["CompareCarry"], 13, 11)
    BY Opcodes DEF Encode
  <2>3. Is(\h14ca, \h04db)
    BY <1>1, <1>2, <2>1, <2>2 DEF Dual
  <2> QED BY <1>5, <2>3 DEF Is
<1> QED BY <1>3, <1>4, <1>5 DEF Wide

\* Those of the programs of one instruction on a pair.
LEMMA ImmediateCode ==
  ASSUME program \in {"addImm", "subtractImm"}, mem = Loaded(ImageOf(Programs[program]))
  PROVE  /\ program = "addImm"      => WordAt(0) = Immediate(\h9600)
         /\ program = "subtractImm" => WordAt(0) = Immediate(\h9700)
         /\ WordAt(2) = \h9598
<1>1. ASSUME NEW m \in WordNames, NEW l \in Addr, Programs[program] = Alone(m, 12, Constant),
             l = Encode("IMM_WORD", Mnemonics["IMM_WORD"][m], 12, Constant)
      PROVE  WordAt(0) = l /\ WordAt(2) = \h9598
  <2> DEFINE p == Alone(m, 12, Constant)
             w == <<l, \h9598, 0>>
  <2>1. DOMAIN p = 1 .. 2 /\ Len(p) = 2
        /\ p[1] = <<m, 12, Constant>> /\ p[2] = <<"Break", 0, 0>>
    BY DEF Alone
  <2>2. \h9598 = Encode("IMPLIED", Mnemonics["IMPLIED"]["Break"], 0, 0) /\ \h9598 \in Addr
        /\ 0 \in Addr
    BY Opcodes, AddrBounds DEF Encode
  <2>3. BytesOf(p[1]) = <<Lo(l), Hi(l)>>
    BY <1>1, <2>1, TypesOf, ShortBytes
  <2>4. BytesOf(p[2]) = <<Lo(\h9598), Hi(\h9598)>>
    BY <2>1, <2>2, TypesOf, ShortBytes
  <2>5. w \in [1 .. 3 -> Addr] /\ w[1] = l /\ w[2] = \h9598
    BY <2>2
  <2> HIDE DEF p, w
  <2>6. \A i \in 1 .. 2 : BytesOf(p[i]) = <<Lo(w[i]), Hi(w[i])>>
    BY <2>3, <2>4, <2>5
  <2>7. mem = Loaded(ImageOf(p))
    BY <1>1 DEF p
  <2> QED BY <2>1, <2>5, <2>6, <2>7, CodeLies
<1>2. Immediate(\h9600) \in Addr /\ Immediate(\h9700) \in Addr
  BY OperandsAssumption, AddrBounds DEF Immediate, Encode
<1>3. CASE program = "addImm"
  <2>1. Programs[program] = Alone("AddImmWord", 12, Constant)
    BY <1>3 DEF Programs
  <2> QED BY <1>1, <1>2, <1>3, <2>1, Opcodes DEF WordNames, Immediate
<1>4. CASE program = "subtractImm"
  <2>1. Programs[program] = Alone("SubtractImmWord", 12, Constant)
    BY <1>4 DEF Programs
  <2> QED BY <1>1, <1>2, <1>4, <2>1, Opcodes DEF WordNames, Immediate
<1> QED BY <1>3, <1>4
------------------------------------------------------------------------------
\* The instructions of a program, one by one.

\* The operands the opcodes name.
LEMMA Fields ==
  /\ \A op \in {\h0cca, \h18ca, \h14ca} : D(op) = 12 /\ R(op) = 10
  /\ \A op \in {\h1cdb, \h08db, \h04db} : D(op) = 13 /\ R(op) = 11
  /\ \A op \in {Immediate(\h9600), Immediate(\h9700)} : WordReg(op) = 12 /\ WordK(op) = Constant
<1>1. \A op \in {\h0cca, \h18ca, \h14ca} : D(op) = 12 /\ R(op) = 10
  BY DEF D, R
<1>2. \A op \in {\h1cdb, \h08db, \h04db} : D(op) = 13 /\ R(op) = 11
  BY DEF D, R
<1>3. \A op \in {Immediate(\h9600), Immediate(\h9700)} : WordReg(op) = 12 /\ WordK(op) = Constant
  BY OperandsAssumption DEF Immediate, Encode, WordReg, WordK
<1> QED BY <1>1, <1>2, <1>3

\* The handler that runs is the one the opcode names.
LEMMA HandlerRuns ==
  ASSUME Execute, NEW op, op = WordAt(ip)
  PROVE  /\ Handler(op) = "add"  => Add(op)
         /\ Handler(op) = "adc"  => Adc(op)
         /\ Handler(op) = "sub"  => Sub(op)
         /\ Handler(op) = "sbc"  => Sbc(op)
         /\ Handler(op) = "cp"   => Cp(op)
         /\ Handler(op) = "cpc"  => Cpc(op)
         /\ Handler(op) = "adiw" => Adiw(op)
         /\ Handler(op) = "sbiw" => Sbiw(op)
         /\ Handler(op) = "abrk" => Abrk(op)
BY DEF Execute

\* What the instructions of a program on words make of two bytes.
Operation(p, a, b, c, s) ==
  CASE p = "add"      -> AddBytes(a, b, c, s)
    [] p = "subtract" -> SubBytes(a, b, c, s)
    [] p = "compare"  -> [val |-> a, sreg |-> CompareBytes(a, b, c, s)]

LowResult  == Operation(program, Lo(x), Lo(y), 0, before)
HighResult == Operation(program, Hi(x), Hi(y), CarryIn(LowResult.sreg), LowResult.sreg)

\* The step that leaves res in register d.
Leaves(d, res) ==
  /\ DOMAIN reg' = Reg /\ \A r \in Reg : reg'[r] = IF r = d THEN res.val ELSE reg[r]
  /\ sreg' = res.sreg
  /\ ip' = U16(ip + 2) /\ phase' = "io" /\ mem' = mem

\* Low bytes into r12, high bytes into r13, then the end.
LEMMA WideSteps ==
  ASSUME program \in Wide, mem = Loaded(ImageOf(Programs[program])), DOMAIN reg = Reg, Execute
  PROVE  /\ ip = 0 => Leaves(12, Operation(program, reg[12], reg[10], 0, sreg))
         /\ ip = 2 => Leaves(13, Operation(program, reg[13], reg[11], CarryIn(sreg), sreg))
         /\ ip = 4 => Abrk(\h9598)
<1> DEFINE op == WordAt(ip)
<1>1. ASSUME NEW d \in Reg, NEW res, ToReg(d, res)
      PROVE  Leaves(d, res)
  BY <1>1 DEF ToReg, Compute, Finish, Leaves
<1>2. ASSUME NEW d \in Reg, NEW flags, Compute(reg, flags)
      PROVE  Leaves(d, [val |-> reg[d], sreg |-> flags])
  BY <1>2 DEF Compute, Finish, Leaves
<1>3. 12 \in Reg /\ 13 \in Reg
  BY DEF Reg
<1>4. ip = 4 => Abrk(\h9598)
  BY WideCode, Dispatch, HandlerRuns
<1>5. CASE program = "add"
  <2>1. (ip = 0 => Add(\h0cca)) /\ (ip = 2 => Adc(\h1cdb))
    BY <1>5, WideCode, Dispatch, HandlerRuns
  <2> QED BY <1>1, <1>3, <1>4, <1>5, <2>1, Fields DEF Add, Adc, Operation
<1>6. CASE program = "subtract"
  <2>1. (ip = 0 => Sub(\h18ca)) /\ (ip = 2 => Sbc(\h08db))
    BY <1>6, WideCode, Dispatch, HandlerRuns
  <2> QED BY <1>1, <1>3, <1>4, <1>6, <2>1, Fields DEF Sub, Sbc, Operation
<1>7. CASE program = "compare"
  <2>1. (ip = 0 => Cp(\h14ca)) /\ (ip = 2 => Cpc(\h04db))
    BY <1>7, WideCode, Dispatch, HandlerRuns
  <2> QED BY <1>2, <1>3, <1>4, <1>7, <2>1, Fields DEF Cp, Cpc, Operation
<1> QED BY <1>5, <1>6, <1>7 DEF Wide

\* The step that leaves res in r13:r12.
LeavesPair(res) ==
  /\ DOMAIN reg' = Reg
  /\ \A r \in Reg : reg'[r] = IF r = 12 THEN res.lo ELSE IF r = 13 THEN res.hi ELSE reg[r]
  /\ sreg' = res.sreg
  /\ ip' = U16(ip + 2) /\ phase' = "io" /\ mem' = mem

\* The pair into r13:r12, then the end.
LEMMA ImmediateSteps ==
  ASSUME program \in {"addImm", "subtractImm"}, mem = Loaded(ImageOf(Programs[program])),
         DOMAIN reg = Reg, Execute
  PROVE  /\ ip = 0 /\ program = "addImm" => LeavesPair(AddWord(reg[12], reg[13], Constant, sreg))
         /\ ip = 0 /\ program = "subtractImm" =>
              LeavesPair(SubWord(reg[12], reg[13], Constant, sreg))
         /\ ip = 2 => Abrk(\h9598)
<1>1. ASSUME NEW res, ToPair(12, res)
      PROVE  LeavesPair(res)
  BY <1>1 DEF ToPair, Compute, Finish, LeavesPair, Reg
<1>2. ip = 2 => Abrk(\h9598)
  BY ImmediateCode, Dispatch, HandlerRuns
<1>3. ip = 0 /\ program = "addImm" => Adiw(Immediate(\h9600))
  BY ImmediateCode, DispatchImmediate, HandlerRuns
<1>4. ip = 0 /\ program = "subtractImm" => Sbiw(Immediate(\h9700))
  BY ImmediateCode, DispatchImmediate, HandlerRuns
<1>5. 12 + 1 = 13
  OBVIOUS
<1> QED BY <1>1, <1>2, <1>3, <1>4, <1>5, Fields DEF Adiw, Sbiw

------------------------------------------------------------------------------
\* The runs of two instructions.

\* The program is at n with l and h in r12 and r13 and the flags s.
At(n, l, h, s) == ip = n /\ reg[12] = l /\ reg[13] = h /\ sreg = s

AfterLow  == At(2, LowResult.val, Hi(x), LowResult.sreg)
AfterHigh == At(4, LowResult.val, HighResult.val, HighResult.sreg)

\* What the program was given.
OperandsAreWords == x \in Addr /\ y \in Addr

\* Where the program is tells what is in the registers and in sreg; the
\* operands and the code stay.  WideAdd and the others, which speak of the
\* end only, are not inductive.
WideInv == program \in Wide =>
  /\ mem = Loaded(ImageOf(Programs[program]))
  /\ DOMAIN reg = Reg /\ reg[10] = Lo(y) /\ reg[11] = Hi(y)
  /\ \/ phase = "exec" /\ At(0, Lo(x), Hi(x), before)
     \/ phase \in {"exec", "io"} /\ (AfterLow \/ AfterHigh)
     \/ /\ phase = "exit" /\ sreg = HighResult.sreg
        /\ reg[12] = LowResult.val /\ reg[13] = HighResult.val

\* It holds of every program at its start.
LEMMA Starts == Init => OperandsAreWords /\ WideInv
<1> SUFFICES ASSUME Init PROVE OperandsAreWords /\ WideInv
  OBVIOUS
<1>1. OperandsAreWords
  BY OperandsAssumption DEF Init, OperandsAreWords
<1>2. \A r \in {10, 11, 12, 13} : r \in Reg
  BY DEF Reg
<1>3. WideInv
  BY <1>2 DEF Init, WideInv, At
<1> QED BY <1>1, <1>3

\* Every step of execute takes it from one instruction to the next.
LEMMA WideKept == WideInv /\ [Next]_vars => WideInv'
<1> SUFFICES ASSUME WideInv, [Next]_vars, program \in Wide PROVE WideInv'
  BY DEF WideInv, Next, vars, benchVars
<1> DEFINE lo == LowResult
           hi == HighResult
<1>1. /\ program' = program /\ x' = x /\ y' = y /\ before' = before
      /\ lo' = lo /\ hi' = hi
  BY DEF Next, vars, benchVars, LowResult, HighResult
<1>2. CASE Execute
  <2>1. \A r \in {10, 11, 12, 13} : r \in Reg
    BY DEF Reg
  <2>2. phase = "exec"
    BY <1>2 DEF Execute
  <2>3. mem = Loaded(ImageOf(Programs[program])) /\ DOMAIN reg = Reg
        /\ reg[10] = Lo(y) /\ reg[11] = Hi(y)
    BY DEF WideInv
  <2>4. CASE At(0, Lo(x), Hi(x), before)
    <3>1. Leaves(12, LowResult)
      BY <1>2, <2>3, <2>4, WideSteps DEF At, LowResult
    <3>2. ip' = 2
      BY <2>4, <3>1 DEF Leaves, At, U16
    <3>3. AfterLow'
      BY <1>1, <2>1, <2>4, <3>1, <3>2 DEF Leaves, At, AfterLow
    <3> QED BY <1>1, <2>1, <2>3, <3>1, <3>3 DEF Leaves, WideInv
  <2>5. CASE AfterLow
    <3>1. Leaves(13, HighResult)
      BY <1>2, <2>3, <2>5, WideSteps DEF At, AfterLow, HighResult
    <3>2. ip' = 4
      BY <2>5, <3>1 DEF Leaves, AfterLow, At, U16
    <3>3. AfterHigh'
      BY <1>1, <2>1, <2>5, <3>1, <3>2 DEF Leaves, At, AfterLow, AfterHigh
    <3> QED BY <1>1, <2>1, <2>3, <3>1, <3>3 DEF Leaves, WideInv
  <2>6. CASE AfterHigh
    <3>1. Abrk(\h9598)
      BY <1>2, <2>3, <2>6, WideSteps DEF At, AfterHigh
    <3> QED BY <1>1, <2>3, <2>6, <3>1 DEF Abrk, Stop, WideInv, AfterHigh, At
  <2> QED BY <2>2, <2>4, <2>5, <2>6 DEF WideInv
<1>3. CASE IoDone
  <2>1. mem' = mem /\ reg' = reg /\ sreg' = sreg /\ ip' = ip /\ phase = "io" /\ phase' = "exec"
    BY <1>3 DEF IoDone, cpuVars
  <2> QED BY <1>1, <2>1 DEF WideInv, AfterLow, AfterHigh, At
<1>4. CASE UNCHANGED vars
  <2>1. mem' = mem /\ reg' = reg /\ sreg' = sreg /\ ip' = ip /\ phase' = phase
    BY <1>4 DEF vars, cpuVars
  <2> QED BY <1>1, <2>1 DEF WideInv, AfterLow, AfterHigh, At
<1> QED BY <1>2, <1>3, <1>4 DEF Next

\* At the end it is what the program promises.
LEMMA WideDone ==
  ASSUME OperandsAreWords, WideInv
  PROVE  WideAdd /\ WideCompare /\ WideSubtractFromClear
<1> DEFINE lo == LowResult
           hi == HighResult
<1>1. ASSUME NEW p \in Wide, Ended(p)
      PROVE  /\ Result = Pair(HighResult.val, LowResult.val) /\ sreg = HighResult.sreg
             /\ program = p
  <2>1. sreg = HighResult.sreg /\ reg[12] = LowResult.val /\ reg[13] = HighResult.val
    BY <1>1 DEF Ended, WideInv
  <2>2. Result = Pair(reg[13], reg[12])
    BY DEF Result, Index, X
  <2> QED BY <1>1, <2>1, <2>2 DEF Ended
<1>2. WideAdd
  <2> SUFFICES ASSUME Ended("add")
               PROVE  /\ Result = U16(x + y)
                      /\ "C" \in sreg <=> x + y > 65535
                      /\ SignedFlags(Int16(x) + Int16(y))
    BY DEF WideAdd
  <2>1. Result = Pair(hi.val, lo.val) /\ sreg = hi.sreg /\ program = "add"
    BY <1>1 DEF Wide
  <2>2. lo = AddBytes(Lo(x), Lo(y), 0, before)
        /\ hi = AddBytes(Hi(x), Hi(y), CarryIn(lo.sreg), lo.sreg)
    BY <2>1 DEF LowResult, HighResult, Operation
  <2> HIDE DEF lo, hi
  <2>3. /\ Pair(hi.val, lo.val) = U16(x + y)
        /\ "C" \in hi.sreg <=> x + y > 65535
        /\ FlagsFor(hi.sreg, U16(x + y), Int16(x) + Int16(y))
    BY <2>2, AddTwice DEF OperandsAreWords
  <2> QED BY <2>1, <2>3 DEF FlagsFor, SignedFlags
<1>3. WideSubtractFromClear
  <2> SUFFICES ASSUME Ended("subtract"), "C" \notin before
               PROVE  /\ Result = U16(x - y)
                      /\ "C" \in sreg <=> x < y
                      /\ SignedFlags(Int16(x) - Int16(y))
    BY DEF WideSubtractFromClear
  <2>1. Result = Pair(hi.val, lo.val) /\ sreg = hi.sreg /\ program = "subtract"
    BY <1>1 DEF Wide
  <2>2. lo = SubBytes(Lo(x), Lo(y), 0, before)
        /\ hi = SubBytes(Hi(x), Hi(y), CarryIn(lo.sreg), lo.sreg)
    BY <2>1 DEF LowResult, HighResult, Operation
  <2> HIDE DEF lo, hi
  <2>3. /\ Pair(hi.val, lo.val) = U16(x - y)
        /\ "C" \in hi.sreg <=> x < y
        /\ FlagsFor(hi.sreg, U16(x - y), Int16(x) - Int16(y))
    BY <2>2, SubtractTwice DEF OperandsAreWords
  <2> QED BY <2>1, <2>3 DEF FlagsFor, SignedFlags
<1>4. WideCompare
  <2> SUFFICES ASSUME Ended("compare") PROVE ("C" \in sreg <=> x < y) /\ Result = x
    BY DEF WideCompare
  <2>1. Result = Pair(hi.val, lo.val) /\ sreg = hi.sreg /\ program = "compare"
    BY <1>1 DEF Wide
  <2> DEFINE f == CompareBytes(Lo(x), Lo(y), 0, before)
  <2>2. lo.val = Lo(x) /\ lo.sreg = f
    BY <2>1 DEF LowResult, Operation
  <2>3. hi.val = Hi(x) /\ hi.sreg = CompareBytes(Hi(x), Hi(y), CarryIn(f), f)
    BY <2>1, <2>2 DEF HighResult, Operation
  <2> HIDE DEF lo, hi
  <2>4. "C" \in hi.sreg <=> x < y
    BY <2>3, CompareTwice DEF OperandsAreWords
  <2>5. Result = x
    BY <2>1, <2>2, <2>3, WordBytes DEF OperandsAreWords
  <2> QED BY <2>1, <2>4, <2>5
<1> QED BY <1>2, <1>3, <1>4

------------------------------------------------------------------------------
\* One instruction on a pair.

\* Its constant of six bits is a byte, and a word with nothing in the high
\* byte.
LEMMA ByteIsWord ==
  ASSUME NEW k \in 0 .. 63
  PROVE  k \in Byte /\ k \in Addr /\ 0 \in Byte /\ 0 \in Bit /\ Pair(0, k) = k /\ Int16Of(0, k) = k
BY AddrBounds DEF Byte, Bit, Pair, Int16Of, Int16

\* adiw adds the constant to the pair (execute.c:44-67).
LEMMA AddWordIs ==
  ASSUME NEW w \in Addr, NEW k \in 0 .. 63, NEW s,
         NEW r, r = AddWord(Lo(w), Hi(w), k, s)
  PROVE  /\ Pair(r.hi, r.lo) = U16(w + k)
         /\ "C" \in r.sreg <=> w + k > 65535
         /\ "Z" \in r.sreg <=> U16(w + k) = 0
         /\ FlagsFor(r.sreg, U16(w + k), Int16(w) + k)
<1> DEFINE h == Hi(w)
           l == Lo(w)
           c == Carry(l + k)
           low == (l + k) % 256
           high == (h + 0 + c) % 256
           over == (h >= 128 <=> 0 >= 128) /\ ~ (h >= 128 <=> high >= 128)
           b == AddBytes(h, c, 0, s)
<1>1. h \in Byte /\ l \in Byte /\ w = Pair(h, l) /\ k \in Byte /\ 0 \in Byte /\ 0 \in Bit
      /\ Pair(0, k) = k /\ Int16Of(0, k) = k
  BY WordBytes, ByteIsWord
<1> HIDE DEF h, l
<1>2. U8(l + k) = low /\ ((l + k) \div 256) % 2 = c /\ c \in Byte /\ c \in Bit
  BY <1>1 DEF U8, Byte, Bit, Carry
<1>3. /\ r.lo = low /\ r.hi = b.val
      /\ r.sreg = IF low # 0 THEN b.sreg \ {"Z"} ELSE b.sreg
  BY <1>2 DEF AddWord, h, l
<1>4. h + c + 0 = h + 0 + c /\ ~ (c >= 128) /\ ~ (0 >= 128)
  BY <1>1, <1>2 DEF Byte, Bit
<1>5. /\ b.val = high
      /\ "C" \in b.sreg <=> h + 0 + c > 255
      /\ "V" \in b.sreg <=> over
      /\ "N" \in b.sreg <=> high >= 128
      /\ "Z" \in b.sreg <=> high = 0
      /\ "S" \in b.sreg <=> ~ ("N" \in b.sreg <=> "V" \in b.sreg)
  <2> DEFINE none == 0
             v == (h + c + none) % 256
  <2>1. h \in Byte /\ c \in Byte /\ none \in Bit /\ b = AddBytes(h, c, none, s)
    BY <1>1, <1>2
  <2>2. h + c + none = h + 0 + c /\ v = high
    BY <1>4
  <2> HIDE DEF none, c, b
  <2>3. /\ b.val = v
        /\ "C" \in b.sreg <=> h + c + none > 255
        /\ "V" \in b.sreg <=> (h >= 128 <=> c >= 128) /\ ~ (h >= 128 <=> v >= 128)
        /\ "N" \in b.sreg <=> v >= 128
        /\ "Z" \in b.sreg <=> v = 0
        /\ "S" \in b.sreg <=> ~ ("N" \in b.sreg <=> "V" \in b.sreg)
    BY <2>1, AddFlags
  <2> HIDE DEF v
  <2> QED BY <1>4, <2>2, <2>3
<1>6. /\ Pair(high, low) = U16(w + k)
      /\ h + 0 + c > 255 <=> w + k > 65535
      /\ high >= 128 <=> U16(w + k) >= 32768
  BY <1>1, WordSum
<1>7. /\ over <=> Int16(w) + k \notin Word16
      /\ Int16(w) + k < 0 <=> ~ (high >= 128 <=> over)
  BY <1>1, SignedSum DEF Int16Of
<1>8. Pair(high, low) = 0 <=> high = 0 /\ low = 0
  <2>1. high \in Nat /\ low \in Nat
    BY <1>1, <1>2 DEF Byte, Bit
  <2> HIDE DEF high, low
  <2> QED BY <2>1 DEF Pair
<1> HIDE DEF low, high, over, c, b
<1> QED BY <1>3, <1>5, <1>6, <1>7, <1>8 DEF FlagsFor

\* sbiw subtracts it; the borrow of the high byte is right if no carry was
\* left over, and Z is only ever cleared (execute.c:709-730).
LEMMA SubWordIs ==
  ASSUME NEW w \in Addr, NEW k \in 0 .. 63, NEW s,
         NEW r, r = SubWord(Lo(w), Hi(w), k, s)
  PROVE  /\ Pair(r.hi, r.lo) = U16(w - k)
         /\ "C" \notin s => ("C" \in r.sreg <=> w < k)
         /\ "Z" \in r.sreg => "Z" \in s /\ U16(w - k) = 0
         /\ FlagsFor(r.sreg, U16(w - k), Int16(w) - k)
<1> DEFINE h == Hi(w)
           l == Lo(w)
           c == Borrow(l, k)
           low == (l - k) % 256
           high == (h - 0 - c) % 256
           over == ~ (h >= 128 <=> 0 >= 128) /\ ~ (h >= 128 <=> high >= 128)
           b == SubBytes(h, c, 0, s)
<1>1. h \in Byte /\ l \in Byte /\ w = Pair(h, l) /\ k \in Byte /\ 0 \in Byte /\ 0 \in Bit
      /\ Pair(0, k) = k /\ Int16Of(0, k) = k
  BY WordBytes, ByteIsWord
<1> HIDE DEF h, l
<1>2. U8(U16(l - k)) = low /\ (U16(l - k) \div 256) % 2 = c /\ c \in Byte /\ c \in Bit
  BY <1>1 DEF U8, U16, Byte, Bit, Borrow
<1>3. /\ r.lo = low /\ r.hi = b.val
      /\ r.sreg = IF low # 0 THEN b.sreg \ {"Z"} ELSE b.sreg
  BY <1>2 DEF SubWord, h, l
<1>4. h - c - 0 = h - 0 - c /\ ~ (c >= 128) /\ ~ (0 >= 128) /\ 0 + c = c
      /\ (c > h <=> 0 + c > h)
  BY <1>1, <1>2 DEF Byte, Bit
<1>5. /\ b.val = high
      /\ "C" \in b.sreg <=> c + CarryIn(s) > h
      /\ "V" \in b.sreg <=> over
      /\ "N" \in b.sreg <=> high >= 128
      /\ "Z" \in b.sreg => "Z" \in s /\ high = 0
      /\ "S" \in b.sreg <=> ~ ("N" \in b.sreg <=> "V" \in b.sreg)
  <2> DEFINE none == 0
             v == (h - c - none) % 256
  <2>1. h \in Byte /\ c \in Byte /\ none \in Bit /\ b = SubBytes(h, c, none, s)
    BY <1>1, <1>2
  <2>2. v = high /\ (h = c + none => high = 0)
    BY <1>1, <1>2, <1>4 DEF Byte, Bit
  <2> HIDE DEF none, c, b
  <2>3. /\ b.val = (h - c - none) % 256
        /\ "C" \in b.sreg <=> c + CarryIn(s) > h
        /\ "V" \in b.sreg <=> ~ (h >= 128 <=> c >= 128)
                               /\ ~ (h >= 128 <=> (h - c - none) % 256 >= 128)
        /\ "N" \in b.sreg <=> (h - c - none) % 256 >= 128
        /\ "Z" \in b.sreg <=> "Z" \in s /\ h = c + none
        /\ "S" \in b.sreg <=> ~ ("N" \in b.sreg <=> "V" \in b.sreg)
    BY <2>1, SubtractByte
  <2>4. (h - c - none) % 256 = high
    BY <2>2
  <2> HIDE DEF high, v
  <2> QED BY <1>4, <2>2, <2>3, <2>4 DEF over
<1>6. /\ Pair(high, low) = U16(w - k)
      /\ 0 + c > h <=> w < k
      /\ high >= 128 <=> U16(w - k) >= 32768
  BY <1>1, WordDifference
<1>7. /\ over <=> Int16(w) - k \notin Word16
      /\ Int16(w) - k < 0 <=> ~ (high >= 128 <=> over)
  BY <1>1, SignedDifference DEF Int16Of
<1>8. high = 0 /\ low = 0 => Pair(high, low) = 0
  BY DEF Pair
<1>9. "C" \notin s => c + CarryIn(s) = c
  BY <1>2 DEF CarryIn, Bit
<1> HIDE DEF low, high, over, c, b
<1> QED BY <1>3, <1>4, <1>5, <1>6, <1>7, <1>8, <1>9 DEF FlagsFor

\* What the instruction makes of the pair.
PairResult == IF program = "addImm" THEN AddWord(Lo(x), Hi(x), Constant, before)
                                    ELSE SubWord(Lo(x), Hi(x), Constant, before)

AfterPair == At(2, PairResult.lo, PairResult.hi, PairResult.sreg)

\* As WideInv, with one instruction.
ImmediateInv == program \in {"addImm", "subtractImm"} =>
  /\ mem = Loaded(ImageOf(Programs[program]))
  /\ DOMAIN reg = Reg
  /\ \/ phase = "exec" /\ At(0, Lo(x), Hi(x), before)
     \/ phase \in {"exec", "io"} /\ AfterPair
     \/ /\ phase = "exit" /\ sreg = PairResult.sreg
        /\ reg[12] = PairResult.lo /\ reg[13] = PairResult.hi

\* It holds at the start.
LEMMA ImmediateStarts == Init => ImmediateInv
<1>1. 12 \in Reg /\ 13 \in Reg
  BY DEF Reg
<1> QED BY <1>1 DEF Init, ImmediateInv, At

\* Every step of execute takes it on.
LEMMA ImmediateKept == ImmediateInv /\ [Next]_vars => ImmediateInv'
<1> SUFFICES ASSUME ImmediateInv, [Next]_vars, program \in {"addImm", "subtractImm"}
             PROVE  ImmediateInv'
  BY DEF ImmediateInv, Next, vars, benchVars
<1>1. program' = program /\ x' = x /\ before' = before /\ PairResult' = PairResult
  BY DEF Next, vars, benchVars, PairResult
<1>2. CASE Execute
  <2>1. 12 \in Reg /\ 13 \in Reg
    BY DEF Reg
  <2>2. phase = "exec"
    BY <1>2 DEF Execute
  <2>3. mem = Loaded(ImageOf(Programs[program])) /\ DOMAIN reg = Reg
    BY DEF ImmediateInv
  <2>4. CASE At(0, Lo(x), Hi(x), before)
    <3>1. LeavesPair(PairResult)
      BY <1>2, <2>3, <2>4, ImmediateSteps DEF At, PairResult
    <3>2. ip' = 2
      BY <2>4, <3>1 DEF LeavesPair, At, U16
    <3>3. AfterPair'
      BY <1>1, <2>1, <3>1, <3>2 DEF LeavesPair, At, AfterPair
    <3> QED BY <1>1, <2>3, <3>1, <3>3 DEF LeavesPair, ImmediateInv
  <2>5. CASE AfterPair
    <3>1. Abrk(\h9598)
      BY <1>2, <2>3, <2>5, ImmediateSteps DEF At, AfterPair
    <3> QED BY <1>1, <2>3, <2>5, <3>1 DEF Abrk, Stop, ImmediateInv, AfterPair, At
  <2> QED BY <2>2, <2>4, <2>5 DEF ImmediateInv
<1>3. CASE IoDone
  <2>1. mem' = mem /\ reg' = reg /\ sreg' = sreg /\ ip' = ip /\ phase = "io" /\ phase' = "exec"
    BY <1>3 DEF IoDone, cpuVars
  <2> QED BY <1>1, <2>1 DEF ImmediateInv, AfterPair, At
<1>4. CASE UNCHANGED vars
  <2>1. mem' = mem /\ reg' = reg /\ sreg' = sreg /\ ip' = ip /\ phase' = phase
    BY <1>4 DEF vars, cpuVars
  <2> QED BY <1>1, <2>1 DEF ImmediateInv, AfterPair, At
<1> QED BY <1>2, <1>3, <1>4 DEF Next

\* At the end it is what the program promises.
LEMMA ImmediateDone ==
  ASSUME OperandsAreWords, ImmediateInv
  PROVE  WordImmediate
<1> DEFINE r == PairResult
<1>1. ASSUME NEW p \in {"addImm", "subtractImm"}, Ended(p)
      PROVE  Result = Pair(PairResult.hi, PairResult.lo) /\ sreg = PairResult.sreg /\ program = p
  <2>1. sreg = PairResult.sreg /\ reg[12] = PairResult.lo /\ reg[13] = PairResult.hi
    BY <1>1 DEF Ended, ImmediateInv
  <2>2. Result = Pair(reg[13], reg[12])
    BY DEF Result, Index, X
  <2> QED BY <1>1, <2>1, <2>2 DEF Ended
<1>2. ASSUME Ended("addImm")
      PROVE  /\ Result = U16(x + Constant)
             /\ "C" \in sreg <=> x + Constant > 65535
             /\ "Z" \in sreg <=> Result = 0
             /\ SignedFlags(Int16(x) + Constant)
  <2>1. Result = Pair(r.hi, r.lo) /\ sreg = r.sreg /\ program = "addImm"
    BY <1>1, <1>2
  <2>2. r = AddWord(Lo(x), Hi(x), Constant, before)
    BY <2>1 DEF PairResult
  <2> HIDE DEF r
  <2>3. /\ Pair(r.hi, r.lo) = U16(x + Constant)
        /\ "C" \in r.sreg <=> x + Constant > 65535
        /\ "Z" \in r.sreg <=> U16(x + Constant) = 0
        /\ FlagsFor(r.sreg, U16(x + Constant), Int16(x) + Constant)
    BY <2>2, AddWordIs, OperandsAssumption DEF OperandsAreWords
  <2> QED BY <2>1, <2>3 DEF FlagsFor, SignedFlags
<1>3. ASSUME Ended("subtractImm")
      PROVE  /\ Result = U16(x - Constant)
             /\ SignedFlags(Int16(x) - Constant)
             /\ "Z" \in sreg => "Z" \in before /\ Result = 0
             /\ "C" \notin before => ("C" \in sreg <=> x < Constant)
  <2>1. Result = Pair(r.hi, r.lo) /\ sreg = r.sreg /\ program = "subtractImm"
    BY <1>1, <1>3
  <2>2. r = SubWord(Lo(x), Hi(x), Constant, before)
    BY <2>1 DEF PairResult
  <2> HIDE DEF r
  <2>3. /\ Pair(r.hi, r.lo) = U16(x - Constant)
        /\ "C" \notin before => ("C" \in r.sreg <=> x < Constant)
        /\ "Z" \in r.sreg => "Z" \in before /\ U16(x - Constant) = 0
        /\ FlagsFor(r.sreg, U16(x - Constant), Int16(x) - Constant)
    BY <2>2, SubWordIs, OperandsAssumption DEF OperandsAreWords
  <2> QED BY <2>1, <2>3 DEF FlagsFor, SignedFlags
<1> QED BY <1>2, <1>3 DEF WordImmediate

------------------------------------------------------------------------------
\* The theorems.
Inv == OperandsAreWords /\ WideInv /\ ImmediateInv

\* The invariant from which they all follow.
LEMMA ProgramsGoOn == Spec => []Inv
<1>1. Init => Inv
  BY Starts, ImmediateStarts DEF Inv
<1>2. Inv /\ [Next]_vars => Inv'
  <2>1. OperandsAreWords /\ [Next]_vars => OperandsAreWords'
    BY DEF OperandsAreWords, Next, vars, benchVars
  <2> QED BY <2>1, WideKept, ImmediateKept DEF Inv
<1> QED BY <1>1, <1>2, PTL DEF Spec

\* Add then AddWithC leave the sum of any two words, its carry and the flags
\* of its signed value, whatever the flags were before (execute.c:8-41).
THEOREM WordsAdd == Spec => []WideAdd
<1>1. Inv => WideAdd
  BY WideDone DEF Inv
<1> QED BY <1>1, ProgramsGoOn, PTL

\* Compare then CompareCarry leave in C which of any two words is the lower,
\* and change neither (execute.c:259-288).
THEOREM WordsCompare == Spec => []WideCompare
<1>1. Inv => WideCompare
  BY WideDone DEF Inv
<1> QED BY <1>1, ProgramsGoOn, PTL

\* Subtract then SubtractWithC leave the difference of any two words, its
\* borrow and the flags of its signed value, if C was clear before
\* (execute.c:679-692, 856-867).
THEOREM WordsSubtract == Spec => []WideSubtractFromClear
<1>1. Inv => WideSubtractFromClear
  BY WideDone DEF Inv
<1> QED BY <1>1, ProgramsGoOn, PTL

\* AddImmWord and SubtractImmWord leave sum and difference of any word and
\* any constant of six bits, with the flags WordImmediate grants them
\* (execute.c:44-67, 709-730).
THEOREM PairsCompute == Spec => []WordImmediate
<1>1. Inv => WordImmediate
  BY ImmediateDone DEF Inv
<1> QED BY <1>1, ProgramsGoOn, PTL
=============================================================================
