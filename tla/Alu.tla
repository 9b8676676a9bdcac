--------------------------------- MODULE Alu ---------------------------------
(***************************************************************************)
(* The arithmetic and logic of execute.c and the flag helpers of           *)
(* run_misc.c, as operators on bytes.  A status register is the set of its *)
(* flags that are one.  An operation returns the record of the byte it     *)
(* stores in Rd and of the status register it leaves; the handlers of Cpu  *)
(* put the two in place.  Every flag is computed where the code computes   *)
(* it, from the operands it reads there: S is the S of check_zsnf, taken   *)
(* before a shift updates V, and the borrow of check_subf is the one it    *)
(* adds to its second operand, whichever instruction called it.            *)
(***************************************************************************)
EXTENDS Word

\* runheader.h: the bits of sreg, from bit 0 to bit 7.
FlagOf == <<"C", "Z", "N", "V", "S", "H", "T", "I">>
Flags  == {"C", "Z", "N", "V", "S", "H", "T", "I"}

Put(s, flag, on) == IF on THEN s \cup {flag} ELSE s \ {flag}
CarryIn(s) == IF "C" \in s THEN 1 ELSE 0

\* Z and N of a byte, then S from that N and the V the register holds.
CheckZsnf(r, s) ==
  LET zn == Put(Put(s, "Z", r = 0), "N", Sign(r))
  IN  Put(zn, "S", ("N" \in zn) # ("V" \in zn))

\* Mutant of CheckCv: V is set and never cleared, as by the lines commented
\* out in check_cv.
CheckCvSticky(result, a, b, s) ==
  LET c == Put(s, "C", (result \div 256) % 2 = 1)
  IN  IF Sign(a) = Sign(b) /\ Sign(a) # Sign(result) THEN c \cup {"V"} ELSE c

\* C is bit 8 of the 16-bit result, V the overflow of an ADDITION.
CheckCv(result, a, b, s) ==
  Put(Put(s, "C", (result \div 256) % 2 = 1),
      "V", Sign(a) = Sign(b) /\ Sign(a) # Sign(result))

\* Mutant of CheckSubf: the borrow forgets the carry that came in.
CheckSubfBorrow(result, a, b, s) ==
  LET v  == Put(s, "V", Sign(a) # Sign(b) /\ Sign(a) # Sign(result))
      z  == IF result = 0 THEN v ELSE v \ {"Z"}
      zn == Put(z, "N", Sign(result))
      f  == Put(zn, "S", ("N" \in zn) # ("V" \in zn))
  IN  Put(f, "C", b > a)

\* The flags of the subtractions: Z is only ever cleared, and C compares a
\* with b plus the C the register held.
CheckSubf(result, a, b, s) ==
  LET v  == Put(s, "V", Sign(a) # Sign(b) /\ Sign(a) # Sign(result))
      z  == IF result = 0 THEN v ELSE v \ {"Z"}
      zn == Put(z, "N", Sign(result))
      f  == Put(zn, "S", ("N" \in zn) # ("V" \in zn))
  IN  Put(f, "C", b + CarryIn(s) > a)

------------------------------------------------------------------------------
\* Mutant of AddBytes: the sum keeps its ninth bit.
AddBytesWide(a, b, c, s) ==
  LET result == U16(a + b + c)
  IN  [val |-> result, sreg |-> CheckZsnf(U8(result), CheckCv(result, a, b, s))]

\* add with c = 0, adc with c = CarryIn(s).
AddBytes(a, b, c, s) ==
  LET result == U16(a + b + c)
  IN  [val  |-> U8(result),
       sreg |-> CheckZsnf(U8(result), CheckCv(result, a, b, s))]

\* sub and subi with c = 0, sbc and sbci with c = CarryIn(s).
SubBytes(a, b, c, s) ==
  LET result == U16(a - b - c)
  IN  [val |-> U8(result), sreg |-> CheckSubf(result, a, b, s)]

\* Mutant of CompareBytes: cpc compares without the carry.
CompareBytesAlone(a, b, c, s) ==
  LET result == U16(a - b)
  IN  CheckZsnf(U8(result), CheckCv(result, a, b, s))

\* cp, cpi and cpc: the flags of the difference, taken with the helper of
\* the additions.
CompareBytes(a, b, c, s) ==
  LET result == U16(a - b - c)
  IN  CheckZsnf(U8(result), CheckCv(result, a, b, s))

\* and, andi, cbr, or, ori, eor: V is cleared.
Logical(v, s) == [val |-> v, sreg |-> CheckZsnf(v, s \ {"V"})]

Complement(a, s) ==
  [val |-> Not8(a), sreg |-> CheckZsnf(Not8(a), (s \cup {"C"}) \ {"V"})]

Increment(a, s) ==
  [val |-> U8(a + 1), sreg |-> CheckZsnf(U8(a + 1), Put(s, "V", a = 127))]

Decrement(a, s) ==
  [val |-> U8(a - 1), sreg |-> CheckZsnf(U8(a - 1), Put(s, "V", a = 128))]

Negate(a, s) ==
  LET v == IF a = 128 THEN a ELSE U8(256 - a)
  IN  [val  |-> v,
       sreg |-> CheckZsnf(v, Put(Put(s, "V", v = 128), "C", v # 0))]

\* asr, lsr and ror: top is the bit shifted in at the left.  V is set when N
\* and C differ and never cleared.
ShiftRight(a, top, s) ==
  LET v == (a \div 2) + (IF top THEN 128 ELSE 0)
      f == CheckZsnf(v, Put(s, "C", a % 2 = 1))
  IN  [val  |-> v,
       sreg |-> IF ("N" \in f) # ("C" \in f) THEN f \cup {"V"} ELSE f]

\* The new byte is (old << 4) | (old & 0xf0).
Swapped(a) == Or8(U8(16 * a), And8(a, 240))

------------------------------------------------------------------------------
\* Mutant of AddWord: Z is the Z of the high byte.
AddWordHighZ(lo, hi, k, s) ==
  LET r == AddBytes(hi, ((lo + k) \div 256) % 2, 0, s)
  IN  [lo |-> U8(lo + k), hi |-> r.val, sreg |-> r.sreg]

\* The register pairs.  adiw and sbiw give lo and hi; mul and muls, given
\* their product, write r1:r0.
AddWord(lo, hi, k, s) ==
  LET low == lo + k
      c   == (low \div 256) % 2
      r   == AddBytes(hi, c, 0, s)
  IN  [lo |-> U8(low), hi |-> r.val,
       sreg |-> IF U8(low) # 0 THEN r.sreg \ {"Z"} ELSE r.sreg]

SubWord(lo, hi, k, s) ==
  LET low == U16(lo - k)
      c   == (low \div 256) % 2
      r   == SubBytes(hi, c, 0, s)
  IN  [lo |-> U8(low), hi |-> r.val,
       sreg |-> IF U8(low) # 0 THEN r.sreg \ {"Z"} ELSE r.sreg]

Product(p, s) ==
  LET w == U16(p)
  IN  [lo |-> Lo(w), hi |-> Hi(w),
       sreg |-> Put(Put(s, "C", Sign(Hi(w))), "Z", w = 0)]

\* inc_reg and dec_reg on the pair hi:lo of an index register.
IncPair(lo, hi) ==
  [lo |-> U8(lo + 1), hi |-> IF U8(lo + 1) = 0 THEN U8(hi + 1) ELSE hi]
DecPair(lo, hi) ==
  [lo |-> U8(lo - 1), hi |-> IF U8(lo - 1) = 0 THEN U8(hi - 1) ELSE hi]
==============================================================================
