--------------------------------- MODULE Cpu ---------------------------------
(***************************************************************************)
(* One instruction of execute: the fetch, the dispatch and the handlers.   *)
(* Each handler is an action on the opcode op fetched at ip.  A handler    *)
(* that returns 0 hands over to run_io; one that returns 1 ends execute.   *)
(*                                                                         *)
(* The chain never reaches its rules lsl, sbr and ser: add, ori and ldi    *)
(* stand before them and match the same opcodes.  Nothing calls clrf and   *)
(* setf.  They have no action.                                             *)
(***************************************************************************)
EXTENDS MachineState

\* The ways an instruction ends: the registers and flags it leaves, the
\* bytes it takes, and whether it stored.
Finish(r, s, next) ==
  /\ reg' = r /\ sreg' = s /\ ip' = next
  /\ phase' = "io"
  /\ UNCHANGED err

Compute(r, s) == Finish(r, s, U16(ip + 2)) /\ UNCHANGED <<mem, sp>>
Goto(next) == Finish(reg, sreg, next) /\ UNCHANGED <<mem, sp>>

\* An Alu result goes to Rd; a pair goes to Rn+1:Rn.
ToReg(d, res) == Compute([reg EXCEPT ![d] = res.val], res.sreg)
ToPair(n, res) ==
  Compute([reg EXCEPT ![n] = res.lo, ![n + 1] = res.hi], res.sreg)

Stop == /\ phase' = "exit" /\ err' = 1
        /\ UNCHANGED <<mem, reg, sreg, sp>>

------------------------------------------------------------------------------
\* Arithmetic and logic.
Add(op)  == ToReg(D(op), AddBytes(reg[D(op)], reg[R(op)], 0, sreg))
Adc(op)  == ToReg(D(op), AddBytes(reg[D(op)], reg[R(op)], CarryIn(sreg), sreg))
Sub(op)  == ToReg(D(op), SubBytes(reg[D(op)], reg[R(op)], 0, sreg))
Subi(op) == ToReg(D(op), SubBytes(reg[D(op)], K(op), 0, sreg))
Sbc(op)  == ToReg(D(op), SubBytes(reg[D(op)], reg[R(op)], CarryIn(sreg), sreg))
Sbci(op) == ToReg(D(op), SubBytes(reg[D(op)], K(op), CarryIn(sreg), sreg))
And(op)  == ToReg(D(op), Logical(And8(reg[D(op)], reg[R(op)]), sreg))
Andi(op) == ToReg(D(op), Logical(And8(reg[D(op)], K(op)), sreg))
\* cbr complements the constant and lets andi run.
Cbr(op)  == ToReg(D(op), Logical(And8(reg[D(op)], Not8(K(op))), sreg))
Or(op)   == ToReg(D(op), Logical(Or8(reg[D(op)], reg[R(op)]), sreg))
Ori(op)  == ToReg(D(op), Logical(Or8(reg[D(op)], K(op)), sreg))
Eor(op)  == ToReg(D(op), Logical(Xor8(reg[D(op)], reg[R(op)]), sreg))
Com(op)  == ToReg(D(op), Complement(reg[D(op)], sreg))
Neg(op)  == ToReg(D(op), Negate(reg[D(op)], sreg))
Inc(op)  == ToReg(D(op), Increment(reg[D(op)], sreg))
Dec(op)  == ToReg(D(op), Decrement(reg[D(op)], sreg))
Asr(op)  == ToReg(D(op), ShiftRight(reg[D(op)], Sign(reg[D(op)]), sreg))
Lsr(op)  == ToReg(D(op), ShiftRight(reg[D(op)], FALSE, sreg))
Ror(op)  == ToReg(D(op), ShiftRight(reg[D(op)], "C" \in sreg, sreg))
Swap(op) == ToReg(D(op), [val |-> Swapped(reg[D(op)]), sreg |-> sreg])
Ldi(op)  == ToReg(D(op), [val |-> K(op), sreg |-> sreg])
Mov(op)  == ToReg(D(op), [val |-> reg[R(op)], sreg |-> sreg])

Adiw(op) == ToPair(WordReg(op),
                   AddWord(reg[WordReg(op)], reg[WordReg(op) + 1], WordK(op), sreg))
Sbiw(op) == ToPair(WordReg(op),
                   SubWord(reg[WordReg(op)], reg[WordReg(op) + 1], WordK(op), sreg))
Mul(op)  == ToPair(0, Product(reg[D(op)] * reg[R(op)], sreg))
Muls(op) == ToPair(0, Product(Signed(reg[D(op)]) * Signed(reg[R(op)]), sreg))

\* The source is read again after the low byte is written.
Movw(op) ==
  IF R(op) > 14 \/ D(op) > 14
  THEN Stop /\ UNCHANGED ip
  ELSE LET low == [reg EXCEPT ![D(op)] = reg[R(op)]]
       IN  Compute([low EXCEPT ![D(op) + 1] = low[R(op) + 1]], sreg)

\* Flags and single bits.
Cp(op)  == Compute(reg, CompareBytes(reg[D(op)], reg[R(op)], 0, sreg))
Cpc(op) == Compute(reg, CompareBytes(reg[D(op)], reg[R(op)], CarryIn(sreg), sreg))
Cpi(op) == Compute(reg, CompareBytes(reg[D(op)], K(op), 0, sreg))
Bset(op) == Compute(reg, sreg \cup {FlagOf[SregBit(op) + 1]})
Bclr(op) == Compute(reg, sreg \ {FlagOf[SregBit(op) + 1]})
Bst(op) == Compute(reg, Put(sreg, "T", HasBit(reg[D(op)], RegBit(op))))
Bld(op) ==
  LET bits == Put(Bits(reg[D(op)]), RegBit(op), "T" \in sreg)
  IN  ToReg(D(op), [val |-> FromBits(bits), sreg |-> sreg])
Nop(op) == Compute(reg, sreg)

------------------------------------------------------------------------------
\* Control.
SkipIf(skip) ==
  LET next == U16(ip + 2)
  IN  IF ~ skip THEN next
      ELSE IF TwoWords(WordAt(next)) THEN U16(next + 4) ELSE U16(next + 2)

Cpse(op) ==
  LET flags == CompareBytes(reg[D(op)], reg[R(op)], 0, sreg)
  IN  Finish(reg, flags, SkipIf("Z" \in flags)) /\ UNCHANGED <<mem, sp>>
Sbrc(op) == Goto(SkipIf(~ HasBit(reg[D(op)], RegBit(op))))
Sbrs(op) == Goto(SkipIf(HasBit(reg[D(op)], RegBit(op))))

BranchIf(taken, op) == Goto(IF taken THEN BranchTarget(ip, op) ELSE U16(ip + 2))
Branchs(op) == BranchIf(FlagOf[RegBit(op) + 1] \in sreg, op)
Branchc(op) == BranchIf(FlagOf[RegBit(op) + 1] \notin sreg, op)

IndirectTarget == Pair(reg[15], reg[14])
Jmp(op)  == Goto(WordAt(ip + 2))
Ijmp(op) == Goto(IndirectTarget)
Abrk(op) == Stop /\ ip' = U16(ip + 2)

\* Mutant of CallTo: the high byte is pushed first.
CallToSwapped(target, return) ==
  LET sp1 == AfterPush(sp, StackTop)
      high == Poke(mem, sp, Hi(return))
  IN  /\ Finish(reg, sreg, target)
      /\ mem' = Poke(high, sp1, Lo(return))
      /\ sp' = AfterPush(sp1, StackTop)

\* call and icall push the low byte of the return address, then the high one.
\* The target is read before the pushes.
CallTo(target, return) ==
  LET sp1 == AfterPush(sp, StackTop)
      low == Poke(mem, sp, Lo(return))
  IN  /\ Finish(reg, sreg, target)
      /\ mem' = Poke(low, sp1, Hi(return))
      /\ sp' = AfterPush(sp1, StackTop)
Call(op)  == CallTo(WordAt(ip + 2), U16(ip + 4))
Icall(op) == CallTo(IndirectTarget, U16(ip + 2))

\* Mutant of Ret: the pointer stays on the return address.
RetInPlace(op) ==
  LET sp1 == AfterPop(sp, StackTop)
      sp2 == AfterPop(sp1, StackTop)
  IN  /\ Finish(reg, sreg, Pair(Peek(sp1), Peek(sp2)))
      /\ UNCHANGED <<mem, sp>>

Ret(op) ==
  LET sp1 == AfterPop(sp, StackTop)
      sp2 == AfterPop(sp1, StackTop)
  IN  /\ Finish(reg, sreg, Pair(Peek(sp1), Peek(sp2)))
      /\ sp' = sp2
      /\ UNCHANGED mem

------------------------------------------------------------------------------
\* Memory.
Push(op) ==
  /\ Finish(reg, sreg, U16(ip + 2))
  /\ mem' = Poke(mem, sp, reg[D(op)])
  /\ sp' = AfterPush(sp, StackTop)

Pop(op) ==
  LET top == AfterPop(sp, StackTop)
  IN  /\ Finish([reg EXCEPT ![D(op)] = Peek(top)], sreg, U16(ip + 2))
      /\ sp' = top
      /\ UNCHANGED mem

\* Mutant of Lds: the address is cut to a byte.
LdsLow(op) ==
  /\ Finish([reg EXCEPT ![D(op)] = Peek(Lo(WordAt(ip + 2)))], sreg, U16(ip + 4))
  /\ UNCHANGED <<mem, sp>>

Lds(op) ==
  /\ Finish([reg EXCEPT ![D(op)] = Peek(WordAt(ip + 2))], sreg, U16(ip + 4))
  /\ UNCHANGED <<mem, sp>>

Sts(op) ==
  /\ Finish(reg, sreg, U16(ip + 4))
  /\ mem' = Poke(mem, WordAt(ip + 2), reg[D(op)])
  /\ UNCHANGED sp

\* The index registers: X is r13:r12, Y is r15:r14; n is the low register.
X == 12
Y == 14
Index(n) == Pair(reg[n + 1], reg[n])
Moved(r, n, pair) == [r EXCEPT ![n] = pair.lo, ![n + 1] = pair.hi]
\* Mutant of Up: no carry into the high register.
UpLow(r, n) == [r EXCEPT ![n] = U8(r[n] + 1)]
Up(r, n)   == Moved(r, n, IncPair(r[n], r[n + 1]))
Down(r, n) == Moved(r, n, DecPair(r[n], r[n + 1]))

\* Plain, then incremented after the access; decremented before it, at the
\* address below the old index; mode 3 does nothing.
LoadIndirect(op, n) ==
  LET loaded(a) == [reg EXCEPT ![D(op)] = Peek(a)]
      below == Peek(U16(Index(n) - 1))
      mode == IndexMode(op)
  IN  \/ mode = 0 /\ Compute(loaded(Index(n)), sreg)
      \/ mode = 1 /\ Compute(Up(loaded(Index(n)), n), sreg)
      \/ mode = 2 /\ Compute([Down(reg, n) EXCEPT ![D(op)] = below], sreg)
      \/ mode = 3 /\ Compute(reg, sreg)

\* The byte v goes to address a.
Store(a, v, r) ==
  /\ Finish(r, sreg, U16(ip + 2))
  /\ mem' = Poke(mem, a, v)
  /\ UNCHANGED sp

StoreIndirect(op, n) ==
  LET down == Down(reg, n)
      mode == IndexMode(op)
  IN  \/ mode = 0 /\ Store(Index(n), reg[D(op)], reg)
      \/ mode = 1 /\ Store(Index(n), reg[D(op)], Up(reg, n))
      \/ mode = 2 /\ Store(U16(Index(n) - 1), down[D(op)], down)
      \/ mode = 3 /\ Compute(reg, sreg)

Lddx(op) == LoadIndirect(op, X)
Lddy(op) == LoadIndirect(op, Y)
Stdx(op) == StoreIndirect(op, X)
Stdy(op) == StoreIndirect(op, Y)

------------------------------------------------------------------------------
\* The last else of the chain: execute returns what run_io returned last, 0.
Unknown == phase' = "exit" /\ UNCHANGED <<mem, reg, sreg, ip, sp, err>>

Execute ==
  /\ phase = "exec"
  /\ \E op \in {WordAt(ip)} : \E h \in {Handler(op)} :
       \/ (h = "adc" /\ Adc(op)) \/ (h = "add" /\ Add(op))
       \/ (h = "abrk" /\ Abrk(op)) \/ (h = "adiw" /\ Adiw(op))
       \/ (h = "and" /\ And(op)) \/ (h = "andi" /\ Andi(op))
       \/ (h = "asr" /\ Asr(op)) \/ (h = "bclr" /\ Bclr(op))
       \/ (h = "bld" /\ Bld(op)) \/ (h = "branchc" /\ Branchc(op))
       \/ (h = "branchs" /\ Branchs(op)) \/ (h = "bset" /\ Bset(op))
       \/ (h = "bst" /\ Bst(op)) \/ (h = "cbr" /\ Cbr(op))
       \/ (h = "call" /\ Call(op)) \/ (h = "com" /\ Com(op))
       \/ (h = "cp" /\ Cp(op)) \/ (h = "cpc" /\ Cpc(op))
       \/ (h = "cpi" /\ Cpi(op)) \/ (h = "cpse" /\ Cpse(op))
       \/ (h = "dec" /\ Dec(op)) \/ (h = "eor" /\ Eor(op))
       \/ (h = "icall" /\ Icall(op)) \/ (h = "ijmp" /\ Ijmp(op))
       \/ (h = "inc" /\ Inc(op)) \/ (h = "jmp" /\ Jmp(op))
       \/ (h = "lddx" /\ Lddx(op)) \/ (h = "lddy" /\ Lddy(op))
       \/ (h = "ldi" /\ Ldi(op)) \/ (h = "lds" /\ Lds(op))
       \/ (h = "lsr" /\ Lsr(op)) \/ (h = "mov" /\ Mov(op))
       \/ (h = "movw" /\ Movw(op)) \/ (h = "mul" /\ Mul(op))
       \/ (h = "muls" /\ Muls(op)) \/ (h = "neg" /\ Neg(op))
       \/ (h = "nop" /\ Nop(op)) \/ (h = "or" /\ Or(op))
       \/ (h = "ori" /\ Ori(op)) \/ (h = "pop" /\ Pop(op))
       \/ (h = "push" /\ Push(op)) \/ (h = "ret" /\ Ret(op))
       \/ (h = "ror" /\ Ror(op)) \/ (h = "sbc" /\ Sbc(op))
       \/ (h = "sbci" /\ Sbci(op)) \/ (h = "sbiw" /\ Sbiw(op))
       \/ (h = "sbrc" /\ Sbrc(op)) \/ (h = "sbrs" /\ Sbrs(op))
       \/ (h = "stdx" /\ Stdx(op)) \/ (h = "stdy" /\ Stdy(op))
       \/ (h = "sts" /\ Sts(op)) \/ (h = "sub" /\ Sub(op))
       \/ (h = "subi" /\ Subi(op)) \/ (h = "swap" /\ Swap(op))
       \/ (h = "unknown" /\ Unknown)
==============================================================================
