---------------------------- MODULE MachineProofs ----------------------------
(***************************************************************************)
(* Type correctness of the emulator: whatever the program loaded, the size *)
(* of the window, the keys and what malloc left in memory, no step leaves  *)
(* the registers, the pointers, the memory or the window out of range.     *)
(* There is one step for every handler of execute.                         *)
(*                                                                         *)
(* Then, of ProgramRuns: calls return, and the devices keep out of the     *)
(* program's memory and registers.  FramesInv says what is in the two      *)
(* cells of a call as long as nothing wrote there.  A call at the bottom   *)
(* of the address space, whose cells would wrap, is no exception to the    *)
(* theorem: no pointer is two below it.                                    *)
(*                                                                         *)
(* And a program that is whole, leaves its own code alone, returns where   *)
(* it was called and aims its indirect jumps at lines is executed line by  *)
(* line.  Landing is the inductive invariant: the address after every call *)
(* that has not returned is a line too.  It needs what both sides make of  *)
(* an opcode, that a skip passes two words exactly where the assembler     *)
(* wrote two, and that a Return to an intact frame goes back to its        *)
(* caller.                                                                 *)
(*                                                                         *)
(* And what the user of the console may count on, for every program, every *)
(* window, every set of key codes and any number of keys.                  *)
(*                                                                         *)
(* The window shows the screen ROM between two instructions, whatever      *)
(* malloc left in old_win.  The redraw is a difference with old_win, which *)
(* starts as garbage, so the window is right only because the first scan   *)
(* meets a ROM without a printable byte: load cleared it, and the one      *)
(* instruction executed before the first scan finds every register zero    *)
(* and its stack at the top.  ScreenInv follows these three stages.        *)
(*                                                                         *)
(* No order of keys makes the stepper run ahead, and the key cell holds    *)
(* the latest key.  Both rest on QueueInv: the queue is what remains of    *)
(* the history, so the key that run_io takes is the next of the keys       *)
(* pressed.  PaceInv counts one key more while an instruction is under way *)
(* or about to start, since StepPaced alone does not survive the count     *)
(* going up.  LatchInv needs that a user who presses neither F4 nor F5     *)
(* stays out of the two loops that read keys without latching them.        *)
(***************************************************************************)
EXTENDS ProgramRuns, KeyRuns, InstructionProofs
LOCAL INSTANCE FiniteSetsExt

\* A memory block of bytes, with nothing outside the address space.
IsMemory(m) == DOMAIN m \subseteq Addr /\ m \in [DOMAIN m -> Byte]

------------------------------------------------------------------------------
\* The memory.

\* What is read is a byte, whether or not anything was written there.
LEMMA PeekIsByte ==
  ASSUME MachineTypeOK, NEW a \in Cell
  PROVE  Peek(a) \in Byte
<1>1. CASE a \in DOMAIN mem
  BY <1>1 DEF Peek, MachineTypeOK
<1>2. CASE a \notin DOMAIN mem
  <2>1. 0 \in Byte /\ Leftover[a] \in Byte
    BY LeftoverAssumption DEF Byte
  <2> QED
    BY <1>2, <2>1 DEF Peek
<1> QED
  BY <1>1, <1>2

\* Storing a byte in the address space leaves a memory.
LEMMA PokeIsMemory ==
  ASSUME NEW m, IsMemory(m), NEW a \in Addr, NEW v \in Byte
  PROVE  IsMemory(Poke(m, a, v))
<1>1. DOMAIN Poke(m, a, v) = DOMAIN m \cup {a}
  BY DEF Poke
<1>2. \A c \in DOMAIN m \cup {a} : (IF c = a THEN v ELSE m[c]) \in Byte
  BY DEF IsMemory
<1>3. Poke(m, a, v) \in [DOMAIN m \cup {a} -> Byte]
  BY <1>2 DEF Poke
<1> QED
  BY <1>1, <1>3 DEF IsMemory

\* Membership of Cell as bounds.
LEMMA CellBounds ==
  ASSUME NEW n
  PROVE  n \in Cell <=> n \in Int /\ 0 <= n /\ n <= 65539
<1> DEFINE top == 65539
<1>1. Cell = 0 .. top
  BY DEF Cell
<1>2. top \in Int /\ \A m \in Int : m <= top <=> m <= 65539
  OBVIOUS
<1> HIDE DEF top
<1>3. n \in 0 .. top <=> n \in Int /\ 0 <= n /\ n <= top
  BY <1>2
<1> QED
  BY <1>1, <1>2, <1>3

\* The bytes of an instruction, and of the word after it, can be read.
LEMMA AddrIsCell ==
  ASSUME NEW a \in Addr
  PROVE  a \in Cell /\ a + 1 \in Cell /\ a + 2 \in Cell /\ a + 3 \in Cell
         /\ a \in Int /\ a + 2 \in Int /\ a + 4 \in Int
<1>1. a \in Int /\ 0 <= a /\ a <= 65535
  BY AddrBounds
<1> QED
  BY <1>1, CellBounds

\* What is read as a word is a word.
LEMMA WordIsAddr ==
  ASSUME MachineTypeOK, NEW a \in Int, a \in Cell, a + 1 \in Cell
  PROVE  WordAt(a) \in Addr
BY PeekIsByte, PairIsAddr DEF WordAt

\* The opcode at ip, and the word after it.
LEMMA FetchIsAddr ==
  ASSUME MachineTypeOK
  PROVE  WordAt(ip) \in Addr /\ WordAt(ip + 2) \in Addr
<1>1. ip \in Addr
  BY DEF MachineTypeOK
<1>2. ip \in Int /\ ip + 2 \in Int /\ (ip + 2) + 1 = ip + 3
  BY <1>1, AddrBounds
<1> QED
  BY <1>1, <1>2, AddrIsCell, WordIsAddr

\* The next instruction is in the address space, whichever way it is reached.
LEMMA NextIsAddr ==
  ASSUME MachineTypeOK
  PROVE  U16(ip + 2) \in Addr /\ U16(ip + 4) \in Addr
BY AddrIsCell, Truncation DEF MachineTypeOK

\* A skip lands in the address space.
LEMMA SkipIsAddr ==
  ASSUME MachineTypeOK, NEW skip \in BOOLEAN
  PROVE  SkipIf(skip) \in Addr
<1> DEFINE next == U16(ip + 2)
<1>1. next \in Addr
  BY NextIsAddr
<1>2. U16(next + 4) \in Addr /\ U16(next + 2) \in Addr
  BY <1>1, AddrIsCell, Truncation
<1> HIDE DEF next
<1>3. (IF ~ skip THEN next
       ELSE IF TwoWords(WordAt(next)) THEN U16(next + 4) ELSE U16(next + 2)) \in Addr
  BY <1>1, <1>2
<1> QED
  BY <1>3 DEF SkipIf, next

\* A branch lands in the address space, forwards or backwards.
LEMMA BranchIsAddr ==
  ASSUME MachineTypeOK, NEW op \in Addr
  PROVE  BranchTarget(ip, op) \in Addr
<1>1. op \in Int /\ ip \in Int
  BY AddrBounds DEF MachineTypeOK
<1>2. BranchK(op) \in Int
  BY <1>1 DEF BranchK
<1>3. ip + BranchK(op) \in Int /\ ip - (128 - BranchK(op)) \in Int
  BY <1>1, <1>2
<1> QED
  BY <1>3, Truncation DEF BranchTarget

\* push_val and pop_val keep the pointer in the address space.
LEMMA PointerIsAddr ==
  ASSUME NEW p \in Addr
  PROVE  AfterPush(p, StackTop) \in Addr /\ AfterPop(p, StackTop) \in Addr
<1>1. p + 1 \in Int /\ p - 1 \in Int
  BY AddrBounds
<1>2. (p + 1) % 65536 \in Addr /\ (p - 1) % 65536 \in Addr
  BY <1>1, Truncation DEF U16
<1>3. StackTop \in Addr /\ StackTop + 1 = 65536
  BY AddrBounds DEF StackTop
<1> QED
  BY <1>2, <1>3 DEF AfterPush, AfterPop

------------------------------------------------------------------------------
\* The fields of an opcode.

\* The registers, constants and flags the operand fields can name exist.
LEMMA Fields ==
  ASSUME NEW op \in Addr
  PROVE  /\ D(op) \in Reg /\ R(op) \in Reg /\ K(op) \in Byte
         /\ WordReg(op) \in Reg /\ WordReg(op) + 1 \in Reg /\ WordK(op) \in 0 .. 63
         /\ FlagOf[RegBit(op) + 1] \in Flags /\ FlagOf[SregBit(op) + 1] \in Flags
<1>1. op \in Int /\ op \div 16 \in Int /\ op \div 256 \in Int /\ op \div 64 \in Int
  BY AddrBounds
<1>2. D(op) \in Reg /\ R(op) \in Reg
  BY <1>1 DEF D, R, Reg
<1>3. K(op) \in Byte
  BY <1>1 DEF K, Byte
<1>4. WordReg(op) \in Reg /\ WordReg(op) + 1 \in Reg /\ WordK(op) \in 0 .. 63
  BY <1>1 DEF WordReg, WordK, Reg
<1>5. \A n \in 0 .. 7 : FlagOf[n + 1] \in Flags
  BY DEF FlagOf, Flags
<1>6. RegBit(op) \in 0 .. 7 /\ SregBit(op) \in 0 .. 7
  BY <1>1 DEF RegBit, SregBit
<1> QED
  BY <1>2, <1>3, <1>4, <1>5, <1>6

------------------------------------------------------------------------------
\* The ways an instruction ends.

\* An instruction that leaves registers, flags and an address in range.
LEMMA FinishTypeOK ==
  ASSUME MachineTypeOK, NEW r \in [Reg -> Byte], NEW s \in SUBSET Flags,
         NEW next \in Addr, Finish(r, s, next), IsMemory(mem'), sp' \in Addr
  PROVE  MachineTypeOK'
BY DEF Finish, MachineTypeOK, IsMemory, Phases

\* An instruction of one word that only touches registers and flags.
LEMMA ComputeTypeOK ==
  ASSUME MachineTypeOK, NEW r \in [Reg -> Byte], NEW s \in SUBSET Flags,
         Compute(r, s)
  PROVE  MachineTypeOK'
BY FinishTypeOK, NextIsAddr DEF Compute, MachineTypeOK, IsMemory

\* An instruction that only sets ip.
LEMMA GotoTypeOK ==
  ASSUME MachineTypeOK, NEW next \in Addr, Goto(next)
  PROVE  MachineTypeOK'
BY FinishTypeOK DEF Goto, MachineTypeOK, IsMemory

\* An instruction that stores in Rd.
LEMMA ToRegTypeOK ==
  ASSUME MachineTypeOK, NEW d \in Reg, NEW res, IsResult(res), ToReg(d, res)
  PROVE  MachineTypeOK'
<1>1. [reg EXCEPT ![d] = res.val] \in [Reg -> Byte]
  BY DEF MachineTypeOK, IsResult
<1> QED
  BY <1>1, ComputeTypeOK DEF ToReg, IsResult

\* An instruction that stores in a pair of registers.
LEMMA ToPairTypeOK ==
  ASSUME MachineTypeOK, NEW n \in Reg, n + 1 \in Reg, NEW res, IsPair(res),
         res.sreg \in SUBSET Flags, ToPair(n, res)
  PROVE  MachineTypeOK'
<1>1. [reg EXCEPT ![n] = res.lo, ![n + 1] = res.hi] \in [Reg -> Byte]
  BY DEF MachineTypeOK, IsPair
<1> QED
  BY <1>1, ComputeTypeOK DEF ToPair

\* An instruction that ends execute.
LEMMA StopTypeOK ==
  ASSUME MachineTypeOK, Stop, ip' \in Addr
  PROVE  MachineTypeOK'
BY DEF Stop, MachineTypeOK, Phases

------------------------------------------------------------------------------
\* The handlers.

\* What every handler may assume of its opcode, the registers and the flags.
LEMMA Operand ==
  ASSUME MachineTypeOK, NEW op \in Addr
  PROVE  /\ D(op) \in Reg /\ R(op) \in Reg /\ K(op) \in Byte
         /\ reg[D(op)] \in Byte /\ reg[R(op)] \in Byte
         /\ sreg \in SUBSET Flags /\ CarryIn(sreg) \in 0 .. 1 /\ 0 \in 0 .. 1
BY Fields, CarryIsBit DEF MachineTypeOK

\* The instructions that store in Rd.
LEMMA RegisterHandlers ==
  ASSUME MachineTypeOK, NEW op \in Addr,
         \/ Add(op) \/ Adc(op) \/ Sub(op) \/ Subi(op) \/ Sbc(op) \/ Sbci(op)
         \/ And(op) \/ Andi(op) \/ Cbr(op) \/ Or(op) \/ Ori(op) \/ Eor(op)
         \/ Com(op) \/ Neg(op) \/ Inc(op) \/ Dec(op) \/ Asr(op) \/ Lsr(op)
         \/ Ror(op) \/ Swap(op) \/ Ldi(op) \/ Mov(op) \/ Bld(op)
  PROVE  MachineTypeOK'
<1> USE Operand
<1>1. Not8(K(op)) \in Byte
  BY BitwiseBytes
<1>2. \A a, b \in Byte : And8(a, b) \in Byte /\ Or8(a, b) \in Byte /\ Xor8(a, b) \in Byte
  BY BitwiseBytes
<1>3. \A v \in Byte : IsResult([val |-> v, sreg |-> sreg])
  BY DEF IsResult
<1>4. CASE Add(op)
  BY <1>4, SumsAreResults, ToRegTypeOK DEF Add
<1>5. CASE Adc(op)
  BY <1>5, SumsAreResults, ToRegTypeOK DEF Adc
<1>6. CASE Sub(op)
  BY <1>6, SumsAreResults, ToRegTypeOK DEF Sub
<1>7. CASE Subi(op)
  BY <1>7, SumsAreResults, ToRegTypeOK DEF Subi
<1>8. CASE Sbc(op)
  BY <1>8, SumsAreResults, ToRegTypeOK DEF Sbc
<1>9. CASE Sbci(op)
  BY <1>9, SumsAreResults, ToRegTypeOK DEF Sbci
<1>10. CASE And(op)
  BY <1>1, <1>2, <1>10, UnaryResults, ToRegTypeOK DEF And
<1>11. CASE Andi(op)
  BY <1>1, <1>2, <1>11, UnaryResults, ToRegTypeOK DEF Andi
<1>12. CASE Cbr(op)
  BY <1>1, <1>2, <1>12, UnaryResults, ToRegTypeOK DEF Cbr
<1>13. CASE Or(op)
  BY <1>1, <1>2, <1>13, UnaryResults, ToRegTypeOK DEF Or
<1>14. CASE Ori(op)
  BY <1>1, <1>2, <1>14, UnaryResults, ToRegTypeOK DEF Ori
<1>15. CASE Eor(op)
  BY <1>1, <1>2, <1>15, UnaryResults, ToRegTypeOK DEF Eor
<1>16. CASE Com(op)
  BY <1>16, UnaryResults, ToRegTypeOK DEF Com
<1>17. CASE Neg(op)
  BY <1>17, UnaryResults, ToRegTypeOK DEF Neg
<1>18. CASE Inc(op)
  BY <1>18, UnaryResults, ToRegTypeOK DEF Inc
<1>19. CASE Dec(op)
  BY <1>19, UnaryResults, ToRegTypeOK DEF Dec
<1>20. CASE Asr(op)
  <2>1. Sign(reg[D(op)]) \in BOOLEAN
    BY DEF Sign
  <2>2. IsResult(ShiftRight(reg[D(op)], Sign(reg[D(op)]), sreg))
    BY <2>1, ShiftResults
  <2> QED
    BY <1>20, <2>2, ToRegTypeOK DEF Asr
<1>21. CASE Lsr(op)
  BY <1>21, ShiftResults, ToRegTypeOK DEF Lsr
<1>22. CASE Ror(op)
  <2>1. ("C" \in sreg) \in BOOLEAN
    OBVIOUS
  <2>2. IsResult(ShiftRight(reg[D(op)], "C" \in sreg, sreg))
    BY <2>1, ShiftResults
  <2> QED
    BY <1>22, <2>2, ToRegTypeOK DEF Ror
<1>23. CASE Swap(op)
  BY <1>3, <1>23, ShiftResults, FromBitsIsByte, ToRegTypeOK DEF Swap
<1>24. CASE Ldi(op)
  BY <1>3, <1>24, ShiftResults, FromBitsIsByte, ToRegTypeOK DEF Ldi
<1>25. CASE Mov(op)
  BY <1>3, <1>25, ShiftResults, FromBitsIsByte, ToRegTypeOK DEF Mov
<1>26. CASE Bld(op)
  BY <1>3, <1>26, ShiftResults, FromBitsIsByte, ToRegTypeOK DEF Bld
<1> QED
  BY <1>4, <1>5, <1>6, <1>7, <1>8, <1>9, <1>10, <1>11, <1>12, <1>13, <1>14, <1>15,
     <1>16, <1>17, <1>18, <1>19, <1>20, <1>21, <1>22, <1>23, <1>24, <1>25, <1>26

\* The instructions that store in a pair of registers.
LEMMA PairHandlers ==
  ASSUME MachineTypeOK, NEW op \in Addr,
         \/ Adiw(op) \/ Sbiw(op) \/ Mul(op) \/ Muls(op) \/ Movw(op)
  PROVE  MachineTypeOK'
<1> USE Operand
<1>1. /\ WordReg(op) \in Reg /\ WordReg(op) + 1 \in Reg /\ WordK(op) \in 0 .. 63
      /\ reg[WordReg(op)] \in Byte /\ reg[WordReg(op) + 1] \in Byte
  BY Fields DEF MachineTypeOK
<1>2. 0 \in Reg /\ 0 + 1 \in Reg
  BY DEF Reg
<1>3. CASE Adiw(op)
  BY <1>1, <1>3, WordResults, ToPairTypeOK DEF Adiw
<1>4. CASE Sbiw(op)
  BY <1>1, <1>4, WordResults, ToPairTypeOK DEF Sbiw
<1>5. CASE Mul(op)
  <2>1. reg[D(op)] \in Int /\ reg[R(op)] \in Int
    BY ByteIsInt
  <2>2. reg[D(op)] * reg[R(op)] \in Int
    BY <2>1
  <2> QED
    BY <1>2, <1>5, <2>2, ProductResults, ToPairTypeOK DEF Mul
<1>6. CASE Muls(op)
  <2>1. Signed(reg[D(op)]) \in Int /\ Signed(reg[R(op)]) \in Int
    BY ByteIsInt, SignedIsInt
  <2>2. Signed(reg[D(op)]) * Signed(reg[R(op)]) \in Int
    BY <2>1
  <2> QED
    BY <1>2, <1>6, <2>2, ProductResults, ToPairTypeOK DEF Muls
<1>7. CASE Movw(op)
  <2>1. CASE R(op) > 14 \/ D(op) > 14
    BY <1>7, <2>1, StopTypeOK DEF Movw, MachineTypeOK
  <2>2. CASE ~ (R(op) > 14 \/ D(op) > 14)
    <3> DEFINE low == [reg EXCEPT ![D(op)] = reg[R(op)]]
    <3>1. R(op) + 1 \in Reg /\ D(op) + 1 \in Reg
      BY <2>2 DEF Reg
    <3>2. low \in [Reg -> Byte]
      BY DEF MachineTypeOK
    <3>3. [low EXCEPT ![D(op) + 1] = low[R(op) + 1]] \in [Reg -> Byte]
      BY <3>1, <3>2
    <3> QED
      BY <1>7, <2>2, <3>3, ComputeTypeOK DEF Movw
  <2> QED
    BY <2>1, <2>2
<1> QED
  BY <1>3, <1>4, <1>5, <1>6, <1>7

\* The instructions that change flags alone, and nop.
LEMMA FlagHandlers ==
  ASSUME MachineTypeOK, NEW op \in Addr,
         \/ Cp(op) \/ Cpc(op) \/ Cpi(op) \/ Bset(op) \/ Bclr(op) \/ Bst(op) \/ Nop(op)
  PROVE  MachineTypeOK'
<1> USE Operand
<1>1. reg \in [Reg -> Byte] /\ FlagOf[SregBit(op) + 1] \in Flags /\ "T" \in Flags
  BY Fields DEF MachineTypeOK, Flags
<1>2. CASE Cp(op)
  BY <1>1, <1>2, SumsAreResults, ComputeTypeOK DEF Cp
<1>3. CASE Cpc(op)
  BY <1>1, <1>3, SumsAreResults, ComputeTypeOK DEF Cpc
<1>4. CASE Cpi(op)
  BY <1>1, <1>4, SumsAreResults, ComputeTypeOK DEF Cpi
<1>5. CASE Bset(op)
  BY <1>1, <1>5, ComputeTypeOK DEF Bset
<1>6. CASE Bclr(op)
  BY <1>1, <1>6, ComputeTypeOK DEF Bclr
<1>7. CASE Bst(op)
  <2>1. HasBit(reg[D(op)], RegBit(op)) \in BOOLEAN
    BY DEF HasBit
  <2> QED
    BY <1>1, <1>7, <2>1, PutFlags, ComputeTypeOK DEF Bst
<1>8. CASE Nop(op)
  BY <1>1, <1>8, ComputeTypeOK DEF Nop
<1> QED
  BY <1>2, <1>3, <1>4, <1>5, <1>6, <1>7, <1>8

\* Skips, branches and jumps, and the break.
LEMMA ControlHandlers ==
  ASSUME MachineTypeOK, NEW op \in Addr,
         \/ Cpse(op) \/ Sbrc(op) \/ Sbrs(op) \/ Branchs(op) \/ Branchc(op)
         \/ Jmp(op) \/ Ijmp(op) \/ Abrk(op)
  PROVE  MachineTypeOK'
<1> USE Operand
<1>1. (Goto(BranchTarget(ip, op)) \/ Goto(U16(ip + 2))) => MachineTypeOK'
  BY BranchIsAddr, NextIsAddr, GotoTypeOK
<1>2. CASE Cpse(op)
  <2> DEFINE flags == CompareBytes(reg[D(op)], reg[R(op)], 0, sreg)
  <2>1. flags \in SUBSET Flags
    BY SumsAreResults
  <2> HIDE DEF flags
  <2>2. ("Z" \in flags) \in BOOLEAN
    OBVIOUS
  <2>3. SkipIf("Z" \in flags) \in Addr
    BY <2>2, SkipIsAddr
  <2> QED
    BY <1>2, <2>1, <2>3, FinishTypeOK DEF Cpse, MachineTypeOK, IsMemory, flags
<1>3. CASE Sbrc(op)
  BY <1>3, SkipIsAddr, GotoTypeOK DEF Sbrc, HasBit
<1>4. CASE Sbrs(op)
  BY <1>4, SkipIsAddr, GotoTypeOK DEF Sbrs, HasBit
<1>5. CASE Branchs(op)
  BY <1>1, <1>5 DEF Branchs, BranchIf
<1>6. CASE Branchc(op)
  BY <1>1, <1>6 DEF Branchc, BranchIf
<1>7. CASE Jmp(op)
  BY <1>7, FetchIsAddr, GotoTypeOK DEF Jmp
<1>8. CASE Ijmp(op)
  <2>1. 14 \in Reg /\ 15 \in Reg
    BY DEF Reg
  <2> QED
    BY <1>8, <2>1, PairIsAddr, GotoTypeOK DEF Ijmp, IndirectTarget, MachineTypeOK
<1>9. CASE Abrk(op)
  BY <1>9, NextIsAddr, StopTypeOK DEF Abrk
<1> QED
  BY <1>2, <1>3, <1>4, <1>5, <1>6, <1>7, <1>8, <1>9

\* The instructions that use the stack.
LEMMA StackHandlers ==
  ASSUME MachineTypeOK, NEW op \in Addr,
         \/ Call(op) \/ Icall(op) \/ Ret(op) \/ Push(op) \/ Pop(op)
  PROVE  MachineTypeOK'
<1> USE Operand
<1>1. reg \in [Reg -> Byte] /\ sp \in Addr /\ IsMemory(mem)
  BY DEF MachineTypeOK, IsMemory
<1>2. ASSUME NEW target \in Addr, NEW return \in Addr, CallTo(target, return)
      PROVE  MachineTypeOK'
  <2> DEFINE sp1 == AfterPush(sp, StackTop)
             low == Poke(mem, sp, Lo(return))
  <2>1. Lo(return) \in Byte /\ Hi(return) \in Byte
    BY Halves
  <2>2. sp1 \in Addr /\ AfterPush(sp1, StackTop) \in Addr
    BY <1>1, PointerIsAddr
  <2>3. IsMemory(low)
    BY <1>1, <2>1, PokeIsMemory
  <2> HIDE DEF sp1, low
  <2>4. IsMemory(Poke(low, sp1, Hi(return)))
    BY <2>1, <2>2, <2>3, PokeIsMemory
  <2> QED
    BY <1>1, <1>2, <2>2, <2>4, FinishTypeOK DEF CallTo, sp1, low
<1>3. CASE Call(op)
  BY <1>2, <1>3, FetchIsAddr, NextIsAddr DEF Call
<1>4. CASE Icall(op)
  <2>1. 14 \in Reg /\ 15 \in Reg
    BY DEF Reg
  <2>2. IndirectTarget \in Addr
    BY <1>1, <2>1, PairIsAddr DEF IndirectTarget
  <2> QED
    BY <1>2, <1>4, <2>2, NextIsAddr DEF Icall
<1>5. CASE Ret(op)
  <2> DEFINE sp1 == AfterPop(sp, StackTop)
             sp2 == AfterPop(sp1, StackTop)
  <2>1. sp1 \in Addr /\ sp2 \in Addr
    BY <1>1, PointerIsAddr
  <2>2. Pair(Peek(sp1), Peek(sp2)) \in Addr
    BY <2>1, AddrIsCell, PeekIsByte, PairIsAddr
  <2> HIDE DEF sp1, sp2
  <2> QED
    BY <1>1, <1>5, <2>1, <2>2, FinishTypeOK DEF Ret, sp1, sp2
<1>6. CASE Push(op)
  BY <1>1, <1>6, NextIsAddr, PointerIsAddr, PokeIsMemory, FinishTypeOK DEF Push
<1>7. CASE Pop(op)
  <2>1. AfterPop(sp, StackTop) \in Addr /\ Peek(AfterPop(sp, StackTop)) \in Byte
    BY <1>1, PointerIsAddr, AddrIsCell, PeekIsByte
  <2>2. [reg EXCEPT ![D(op)] = Peek(AfterPop(sp, StackTop))] \in [Reg -> Byte]
    BY <1>1, <2>1
  <2> QED
    BY <1>1, <1>7, <2>1, <2>2, NextIsAddr, FinishTypeOK DEF Pop
<1> QED
  BY <1>3, <1>4, <1>5, <1>6, <1>7

\* An index register, moved either way, is an address.
LEMMA IndexPairs ==
  ASSUME MachineTypeOK, NEW n \in {X, Y}, NEW r \in [Reg -> Byte]
  PROVE  /\ Index(n) \in Addr /\ U16(Index(n) - 1) \in Addr
         /\ Up(r, n) \in [Reg -> Byte] /\ Down(r, n) \in [Reg -> Byte]
<1>1. n \in Reg /\ n + 1 \in Reg
  BY DEF X, Y, Reg
<1>2. Index(n) \in Addr
  BY <1>1, PairIsAddr DEF Index, MachineTypeOK
<1>3. U16(Index(n) - 1) \in Addr
  <2>1. Index(n) - 1 \in Int
    BY <1>2, AddrBounds
  <2> QED
    BY <2>1, Truncation
<1>4. r[n] \in Byte /\ r[n + 1] \in Byte
  BY <1>1
<1>5. IsPair(IncPair(r[n], r[n + 1])) /\ IsPair(DecPair(r[n], r[n + 1]))
  BY <1>4, PairSteps
<1>6. ASSUME NEW pair, IsPair(pair)
      PROVE  Moved(r, n, pair) \in [Reg -> Byte]
  BY <1>1, <1>6 DEF Moved, IsPair
<1> QED
  BY <1>2, <1>3, <1>5, <1>6 DEF Up, Down

\* Loads and stores.
LEMMA MemoryHandlers ==
  ASSUME MachineTypeOK, NEW op \in Addr,
         \/ Lds(op) \/ Sts(op) \/ Lddx(op) \/ Lddy(op) \/ Stdx(op) \/ Stdy(op)
  PROVE  MachineTypeOK'
<1> USE Operand
<1>1. reg \in [Reg -> Byte] /\ sp \in Addr /\ IsMemory(mem)
  BY DEF MachineTypeOK, IsMemory
<1>2. \A a \in Addr : [reg EXCEPT ![D(op)] = Peek(a)] \in [Reg -> Byte]
  BY <1>1, AddrIsCell, PeekIsByte
<1>3. CASE Lds(op)
  BY <1>1, <1>2, <1>3, FetchIsAddr, NextIsAddr, FinishTypeOK DEF Lds
<1>4. CASE Sts(op)
  BY <1>1, <1>4, FetchIsAddr, NextIsAddr, PokeIsMemory, FinishTypeOK DEF Sts
<1>5. ASSUME NEW n \in {X, Y}, LoadIndirect(op, n)
      PROVE  MachineTypeOK'
  <2> DEFINE loaded == [reg EXCEPT ![D(op)] = Peek(Index(n))]
             down == [Down(reg, n) EXCEPT ![D(op)] = Peek(U16(Index(n) - 1))]
  <2>1. Index(n) \in Addr /\ U16(Index(n) - 1) \in Addr /\ Down(reg, n) \in [Reg -> Byte]
    BY <1>1, IndexPairs
  <2>2. loaded \in [Reg -> Byte]
    BY <1>2, <2>1
  <2>3. Up(loaded, n) \in [Reg -> Byte]
    BY <2>2, IndexPairs
  <2>4. down \in [Reg -> Byte]
    BY <2>1, AddrIsCell, PeekIsByte
  <2>5. \/ Compute(loaded, sreg) \/ Compute(Up(loaded, n), sreg)
        \/ Compute(down, sreg) \/ Compute(reg, sreg)
    BY <1>5 DEF LoadIndirect
  <2> QED
    BY <1>1, <2>2, <2>3, <2>4, <2>5, ComputeTypeOK
<1>6. ASSUME NEW n \in {X, Y}, StoreIndirect(op, n)
      PROVE  MachineTypeOK'
  <2>1. /\ Index(n) \in Addr /\ U16(Index(n) - 1) \in Addr
        /\ Up(reg, n) \in [Reg -> Byte] /\ Down(reg, n) \in [Reg -> Byte]
    BY <1>1, IndexPairs
  <2>2. Down(reg, n)[D(op)] \in Byte
    BY <2>1
  <2>3. ASSUME NEW a \in Addr, NEW v \in Byte, NEW r \in [Reg -> Byte], Store(a, v, r)
        PROVE  MachineTypeOK'
    BY <1>1, <2>3, NextIsAddr, PokeIsMemory, FinishTypeOK DEF Store
  <2> QED
    BY <1>1, <1>6, <2>1, <2>2, <2>3, ComputeTypeOK DEF StoreIndirect
<1>7. CASE Lddx(op)
  BY <1>5, <1>7 DEF Lddx
<1>8. CASE Lddy(op)
  BY <1>5, <1>8 DEF Lddy
<1>9. CASE Stdx(op)
  BY <1>6, <1>9 DEF Stdx
<1>10. CASE Stdy(op)
  BY <1>6, <1>10 DEF Stdy
<1> QED
  BY <1>3, <1>4, <1>7, <1>8, <1>9, <1>10

\* One instruction, whatever its opcode.
LEMMA ExecuteTypeOK ==
  ASSUME MachineTypeOK, Execute
  PROVE  MachineTypeOK'
<1> DEFINE op == WordAt(ip)
<1>1. op \in Addr
  BY FetchIsAddr
<1> HIDE DEF op
<1>2. CASE \/ Add(op) \/ Adc(op) \/ Sub(op) \/ Subi(op) \/ Sbc(op) \/ Sbci(op)
          \/ And(op) \/ Andi(op) \/ Cbr(op) \/ Or(op) \/ Ori(op) \/ Eor(op)
          \/ Com(op) \/ Neg(op) \/ Inc(op) \/ Dec(op) \/ Asr(op) \/ Lsr(op)
          \/ Ror(op) \/ Swap(op) \/ Ldi(op) \/ Mov(op) \/ Bld(op)
  BY <1>1, <1>2, RegisterHandlers
<1>3. CASE \/ Adiw(op) \/ Sbiw(op) \/ Mul(op) \/ Muls(op) \/ Movw(op)
  BY <1>1, <1>3, PairHandlers
<1>4. CASE \/ Cp(op) \/ Cpc(op) \/ Cpi(op) \/ Bset(op) \/ Bclr(op) \/ Bst(op)
          \/ Nop(op)
  BY <1>1, <1>4, FlagHandlers
<1>5. CASE \/ Cpse(op) \/ Sbrc(op) \/ Sbrs(op) \/ Branchs(op) \/ Branchc(op) \/ Jmp(op)
          \/ Ijmp(op) \/ Abrk(op)
  BY <1>1, <1>5, ControlHandlers
<1>6. CASE \/ Call(op) \/ Icall(op) \/ Ret(op) \/ Push(op) \/ Pop(op)
  BY <1>1, <1>6, StackHandlers
<1>7. CASE \/ Lds(op) \/ Sts(op) \/ Lddx(op) \/ Lddy(op) \/ Stdx(op) \/ Stdy(op)
  BY <1>1, <1>7, MemoryHandlers
<1>8. CASE Unknown
  BY <1>8 DEF Unknown, MachineTypeOK, Phases
<1> QED
  BY <1>2, <1>3, <1>4, <1>5, <1>6, <1>7, <1>8 DEF Execute, op

------------------------------------------------------------------------------
\* The console.

\* The cells run_io writes are in the address space.
LEMMA DeviceAddresses ==
  /\ KeyCell \in Addr /\ RandomCell \in Addr /\ RandomCell + 1 \in Addr
BY AddrBounds DEF KeyCell, RandomCell

\* A position of the window is a cell of the screen ROM.
LEMMA PositionBounds ==
  ASSUME NEW i \in Position
  PROVE  i \in Int /\ 0 <= i /\ i < \h1800
<1> DEFINE n == MaxX * MaxY
<1>1. n \in Int /\ n <= \h1800
  BY ScreenAssumption
<1>2. i \in 0 .. (n - 1)
  BY DEF Position
<1> HIDE DEF n
<1> QED
  BY <1>1, <1>2

\* The screen ROM holds bytes.
LEMMA ScreenByteIsByte ==
  ASSUME MachineTypeOK, NEW i \in Position
  PROVE  ScreenByte(i) \in Byte
<1>1. SCR_OFF + i \in Cell
  BY PositionBounds, CellBounds DEF SCR_OFF
<1> QED
  BY <1>1, PeekIsByte DEF ScreenByte

\* A scan fills the window and old_win with bytes.
LEMMA ScanTypeOK ==
  ASSUME TypeOK, Scan
  PROVE  oldWin' \in [Position -> Byte] /\ shown' \in [Position -> Byte]
<1>1. MachineTypeOK /\ shown \in [Position -> Byte]
  BY DEF TypeOK, ConsoleTypeOK
<1> QED
  BY <1>1, ScreenByteIsByte DEF Scan

\* Reading a key leaves a queue of keys.
LEMMA TakeKeyTypeOK ==
  ASSUME keys \in Seq(KeyCodes), TakeKey
  PROVE  keys' \in Seq(KeyCodes)
BY DEF TakeKey

\* The six outcomes of the poll of the keyboard.
LEMMA PollTypeOK ==
  ASSUME TypeOK, NEW accepts, Poll(accepts), IsMemory(mem'),
         phase' \in Phases, err' \in {-1, 0, 1}, step' \in BOOLEAN, showReg' \in BOOLEAN
  PROVE  TypeOK'
<1>1. oldWin' \in [Position -> Byte] /\ shown' \in [Position -> Byte]
  BY ScanTypeOK DEF Poll
<1>2. keys' \in Seq(KeyCodes)
  BY TakeKeyTypeOK DEF Poll, TypeOK, ConsoleTypeOK
<1>3. ConsoleTypeOK'
  BY <1>1, <1>2 DEF Poll, TypeOK, ConsoleTypeOK
<1>4. MachineTypeOK'
  BY DEF Poll, TypeOK, MachineTypeOK, IsMemory, cpuVars
<1> QED
  BY <1>3, <1>4 DEF TypeOK

\* Every step of run_io.
LEMMA RunIoTypeOK ==
  ASSUME TypeOK, RunIo
  PROVE  TypeOK'
<1>1. IsMemory(mem) /\ err \in {-1, 0, 1} /\ step \in BOOLEAN /\ showReg \in BOOLEAN
      /\ phase \in Phases
  BY DEF TypeOK, MachineTypeOK, ConsoleTypeOK, IsMemory
<1>2. \A on : PastKeyboard(on) => phase' \in Phases
  BY DEF PastKeyboard, Phases
<1>3. "exit" \in Phases /\ "paused" \in Phases /\ "devices" \in Phases /\ "exec"
   \in Phases
  BY DEF Phases
<1>4. CASE ToggleRegisters
  BY <1>1, <1>2, <1>4, PollTypeOK DEF ToggleRegisters
<1>5. CASE ClearText
  BY <1>1, <1>2, <1>5, PollTypeOK DEF ClearText
<1>6. CASE BreakKey
  BY <1>1, <1>3, <1>6, PollTypeOK DEF BreakKey
<1>7. CASE PauseKey
  BY <1>1, <1>3, <1>7, PollTypeOK DEF PauseKey
<1>8. CASE StepKey
  BY <1>1, <1>2, <1>8, PollTypeOK DEF StepKey
<1>9. CASE PlainKey
  <2>1. NextKey \in Int
    <3>1. CASE keys = <<>>
      BY <3>1 DEF NextKey, NoKey
    <3>2. CASE keys # <<>>
      <4>1. keys \in Seq(KeyCodes)
        BY DEF TypeOK, ConsoleTypeOK
      <4>2. Head(keys) \in KeyCodes
        BY <3>2, <4>1, HeadTailProperties
      <4>3. KeyCodes \subseteq Nat
        BY KeysAssumption
      <4>4. NextKey = Head(keys)
        BY <3>2 DEF NextKey
      <4>5. Head(keys) \in Nat
        BY <4>2, <4>3
      <4>6. \A n \in Nat : n \in Int
        OBVIOUS
      <4> QED
        BY <4>4, <4>5, <4>6
    <3> QED
      BY <3>1, <3>2
  <2>2. AsKey(NextKey) \in Byte
    BY <2>1, Truncation DEF AsKey
  <2>3. IsMemory(mem')
    BY <1>1, <1>9, <2>2, DeviceAddresses, PokeIsMemory DEF PlainKey
  <2> QED
    BY <1>1, <1>2, <1>9, <2>3, PollTypeOK DEF PlainKey
<1>10. CASE Resume
  <2>1. keys' \in Seq(KeyCodes)
    BY <1>10, TakeKeyTypeOK DEF Resume, TypeOK, ConsoleTypeOK
  <2>2. phase' \in Phases
    BY <1>2, <1>10 DEF Resume
  <2> QED
    BY <1>10, <2>1, <2>2 DEF Resume, TypeOK, MachineTypeOK, ConsoleTypeOK, cpuVars,
       screenVars
<1>11. CASE Stepper
  <2>1. keys' \in Seq(KeyCodes)
    BY <1>11, TakeKeyTypeOK DEF Stepper, TypeOK, ConsoleTypeOK
  <2>2. phase' \in Phases /\ step' \in BOOLEAN
    BY <1>1, <1>3, <1>11 DEF Stepper
  <2> QED
    BY <1>11, <2>1, <2>2 DEF Stepper, TypeOK, MachineTypeOK, ConsoleTypeOK, cpuVars,
       screenVars
<1>12. CASE Devices
  <2>1. IsMemory(mem')
    <3>1. PICK low, high \in RandomBytes :
            mem' = Poke(Poke(mem, RandomCell, low), RandomCell + 1, high)
      BY <1>12 DEF Devices
    <3>2. low \in Byte /\ high \in Byte
      BY RandomAssumption
    <3>3. IsMemory(Poke(mem, RandomCell, low))
      BY <1>1, <3>2, DeviceAddresses, PokeIsMemory
    <3> QED
      BY <3>1, <3>2, <3>3, DeviceAddresses, PokeIsMemory
  <2> QED
    BY <1>3, <1>12, <2>1 DEF Devices, TypeOK, MachineTypeOK, ConsoleTypeOK, IsMemory,
         cpuVars, consoleVars
<1> QED
  BY <1>4, <1>5, <1>6, <1>7, <1>8, <1>9, <1>10, <1>11, <1>12 DEF RunIo

\* The user.
LEMMA TypingTypeOK ==
  ASSUME TypeOK, NEW k \in KeyCodes, Type(k)
  PROVE  TypeOK'
<1>1. keys' \in Seq(KeyCodes)
  BY DEF Type, TypeOK, ConsoleTypeOK
<1>2. typed' \in 0 .. MaxTyped
  BY KeysAssumption DEF Type, TypeOK, ConsoleTypeOK
<1> QED
  BY <1>1, <1>2 DEF Type, TypeOK, MachineTypeOK, ConsoleTypeOK, cpuVars, screenVars

------------------------------------------------------------------------------
\* The machine starts, and stays, in range.

\* What load, run and execute leave before the first instruction.
LEMMA InitTypeOK == Init => TypeOK
<1> SUFFICES ASSUME Init PROVE TypeOK
  OBVIOUS
<1>1. DOMAIN mem \subseteq Addr /\ mem \in [DOMAIN mem -> Byte]
  <2>1. PICK img \in Images : mem = Loaded(img)
    BY DEF Init, MachineInit
  <2>2. DOMAIN img \subseteq Addr /\ img \in [DOMAIN img -> Byte]
    BY ImagesAssumption
  <2> QED
    BY <2>1, <2>2 DEF Loaded
<1>2. 0 \in Byte /\ 32 \in Byte /\ 0 \in Addr /\ StackTop \in Addr
  BY AddrBounds DEF Byte, StackTop
<1>3. MachineTypeOK
  BY <1>1, <1>2 DEF Init, MachineInit, MachineTypeOK, Phases
<1>4. oldWin \in [Position -> Byte] /\ shown \in [Position -> Byte]
  BY <1>2, RandomAssumption DEF Init, ConsoleInit
<1>5. keys \in Seq(KeyCodes) /\ typed \in 0 .. MaxTyped
  BY KeysAssumption DEF Init, ConsoleInit
<1>6. ConsoleTypeOK
  BY <1>4, <1>5 DEF Init, ConsoleInit, ConsoleTypeOK
<1> QED
  BY <1>3, <1>6 DEF TypeOK

\* Every step of the emulator and of the user.
LEMMA NextTypeOK == TypeOK /\ [Next]_vars => TypeOK'
<1> SUFFICES ASSUME TypeOK, [Next]_vars PROVE TypeOK'
  OBVIOUS
<1>1. CASE Execute /\ UNCHANGED consoleVars
  <2>1. MachineTypeOK'
    BY <1>1, ExecuteTypeOK DEF TypeOK
  <2>2. ConsoleTypeOK'
    BY <1>1 DEF TypeOK, ConsoleTypeOK, consoleVars
  <2> QED
    BY <2>1, <2>2 DEF TypeOK
<1>2. CASE RunIo
  BY <1>2, RunIoTypeOK
<1>3. CASE User
  BY <1>3, TypingTypeOK DEF User
<1>4. CASE UNCHANGED vars
  BY <1>4 DEF vars, cpuVars, consoleVars, TypeOK, MachineTypeOK, ConsoleTypeOK
<1> QED
  BY <1>1, <1>2, <1>3, <1>4 DEF Next, Emulator

\* No instruction, key or program takes the emulator out of its types: bytes
\* in the registers and in memory, pointers in the address space, and no cell
\* of memory or of the window beyond them (execute.c:893-1196, display.c).
THEOREM MachineIsTyped == Spec => []TypeOK
BY InitTypeOK, NextTypeOK, PTL DEF Spec

------------------------------------------------------------------------------
\* Calls.

FrameOK(f) ==
  /\ f \in [sp : Addr, return : Addr, intact : BOOLEAN]
  /\ f.intact /\ f.sp >= 2 =>
       Peek(f.sp) = Lo(f.return) /\ Peek(f.sp - 1) = Hi(f.return)
FramesInv == \A f \in frames : FrameOK(f)

\* The pointer away from the ends of the address space.
LEMMA PointerNext ==
  ASSUME NEW p \in Addr
  PROVE  /\ p >= 1 => AfterPush(p, StackTop) = p - 1
         /\ p <= 65534 => AfterPop(p, StackTop) = p + 1
<1>1. p \in Int /\ 0 <= p /\ p <= 65535
  BY AddrBounds
<1>2. StackTop + 1 = 65536
  BY DEF StackTop
<1>3. \A x \in Int : 0 <= x /\ x <= 65535 => x % 65536 = x
  OBVIOUS
<1>4. p >= 1 => (p - 1) % 65536 = p - 1
  BY <1>1, <1>3
<1>5. p <= 65534 => (p + 1) % 65536 = p + 1
  BY <1>1, <1>3
<1> QED BY <1>1, <1>2, <1>4, <1>5 DEF AfterPush, AfterPop

\* What the two pushes of a call leave in memory.
LEMMA CallStores ==
  ASSUME NEW target, NEW return, CallTo(target, return),
         sp \in Addr, sp >= 2, NEW s, s = sp
  PROVE  Peek(s)' = Lo(return) /\ Peek(s - 1)' = Hi(return)
<1>1. AfterPush(sp, StackTop) = s - 1 /\ s \in Int
  BY PointerNext, AddrBounds
<1>2. mem' = Poke(Poke(mem, s, Lo(return)), s - 1, Hi(return))
  BY <1>1 DEF CallTo
<1>3. s # s - 1
  BY <1>1
<1> QED BY <1>2, <1>3 DEF Poke, Peek

\* The handler that runs is the one the opcode names.
LEMMA CallRuns ==
  ASSUME Execute
  PROVE  /\ Instruction = "call"  => \E t : CallTo(t, U16(ip + 4))
         /\ Instruction = "icall" => \E t : CallTo(t, U16(ip + 2))
         /\ Instruction = "ret"   => Ret(WordAt(ip))
<1>1. Instruction = "call" => Call(WordAt(ip))
  BY DEF Execute, Instruction
<1>2. Instruction = "icall" => Icall(WordAt(ip))
  BY DEF Execute, Instruction
<1>3. Instruction = "ret" => Ret(WordAt(ip))
  BY DEF Execute, Instruction
<1> QED BY <1>1, <1>2, <1>3 DEF Call, Icall

\* Only execute leaves the phase of execute.
LEMMA OnlyExecute ==
  ASSUME [TraceNext]_traceVars, Executes
  PROVE  Execute
<1>1. ~ UNCHANGED traceVars
  BY DEF Executes, traceVars, vars
<1>2. RunIo => phase # "exec"
  BY DEF RunIo, ToggleRegisters, ClearText, BreakKey, PauseKey, StepKey, PlainKey,
     Resume, Stepper, Devices, Poll
<1>3. User => phase' = phase
  BY DEF User, Type
<1> QED BY <1>1, <1>2, <1>3 DEF Executes, TraceNext, Next, Emulator

\* A call leaves its return address in its cells.
LEMMA CalledIsOK ==
  ASSUME MachineTypeOK, [TraceNext]_traceVars, NEW f \in Called
  PROVE  FrameOK(f)'
<1>1. /\ Executes /\ Instruction \in {"call", "icall"}
      /\ f = [sp     |-> sp,
              return |-> U16(ip + (IF Instruction = "call" THEN 4 ELSE 2)),
              intact |-> TRUE]
  BY DEF Called
<1>2. /\ sp \in Addr /\ f.sp = sp
      /\ f.return = IF Instruction = "call" THEN U16(ip + 4) ELSE U16(ip + 2)
  BY <1>1 DEF MachineTypeOK
<1>3. f.return \in Addr
  BY <1>2, NextIsAddr
<1>4. \E t : CallTo(t, f.return)
  BY <1>1, <1>2, OnlyExecute, CallRuns
<1>5. f.sp >= 2 => Peek(f.sp)' = Lo(f.return) /\ Peek(f.sp - 1)' = Hi(f.return)
  BY <1>2, <1>4, CallStores
<1>6. f \in [sp : Addr, return : Addr, intact : BOOLEAN]
  BY <1>1, <1>2, <1>3
<1> QED BY <1>5, <1>6 DEF FrameOK

\* A frame that is kept is what it was, and so are its cells if it is intact.
LEMMA KeptIsOK ==
  ASSUME FramesInv, NEW g \in Kept
  PROVE  FrameOK(g)'
<1>1. PICK f \in frames :
        g = [f EXCEPT !.intact = @ /\ Unchanged(f.sp) /\ Unchanged(f.sp - 1)]
  BY DEF Kept
<1>2. FrameOK(f)
  BY DEF FramesInv
<1>3. (f.intact /\ Unchanged(f.sp) /\ Unchanged(f.sp - 1)) \in BOOLEAN
  BY <1>2 DEF FrameOK, Unchanged
<1> DEFINE still == f.intact /\ Unchanged(f.sp) /\ Unchanged(f.sp - 1)
<1>4. /\ g \in [sp : Addr, return : Addr, intact : BOOLEAN]
      /\ g.sp = f.sp /\ g.return = f.return /\ g.intact = still
  <2> HIDE DEF still
  <2> QED BY <1>1, <1>2, <1>3 DEF FrameOK, still
<1> QED BY <1>2, <1>4 DEF FrameOK, Unchanged

\* So what is known of the frames stays true.
LEMMA FramesKept ==
  ASSUME MachineTypeOK, FramesInv, [TraceNext]_traceVars
  PROVE  FramesInv'
<1>1. CASE TraceNext
  BY <1>1, CalledIsOK, KeptIsOK DEF TraceNext, Trace, FramesInv
<1>2. CASE UNCHANGED traceVars
  BY <1>2 DEF traceVars, vars, FramesInv, FrameOK, Peek
<1> QED BY <1>1, <1>2

\* A Return to an intact frame goes back to its caller.
LEMMA ReturnGoesBack ==
  ASSUME MachineTypeOK, FramesInv, [TraceNext]_traceVars,
         NEW f \in frames, Executes, Instruction = "ret", f.intact, sp = f.sp - 2
  PROVE  ip' = f.return /\ sp' = f.sp
<1>1. sp \in Int /\ 0 <= sp /\ f.sp \in Addr /\ f.sp \in Int /\ f.sp <= 65535
  BY AddrBounds DEF MachineTypeOK, FramesInv, FrameOK
<1>2. f.sp - 1 \in Addr /\ sp <= 65534 /\ f.sp - 1 <= 65534
  BY <1>1, AddrBounds
<1>3. sp + 1 = f.sp - 1 /\ (f.sp - 1) + 1 = f.sp /\ f.sp >= 2
  BY <1>1
<1>4. /\ AfterPop(sp, StackTop) = f.sp - 1
      /\ AfterPop(f.sp - 1, StackTop) = f.sp
  BY <1>2, <1>3, PointerNext DEF MachineTypeOK
<1>5. /\ ip' = Pair(Peek(f.sp - 1), Peek(f.sp)) /\ sp' = f.sp
  BY <1>4, OnlyExecute, CallRuns DEF Ret, Finish
<1>6. Pair(Peek(f.sp - 1), Peek(f.sp)) = f.return
  BY <1>3, WordBytes DEF FramesInv, FrameOK
<1> QED BY <1>5, <1>6

\* Whatever program runs, and whatever it calls, pushes and stores, a Return
\* that finds the pointer and the cells of a call as the call left them goes
\* back to it (execute.c:217-226, 346-357, 651-657).
THEOREM CallsReturn == TraceSpec => ReturnsToCaller
<1>1. TraceInit => Init /\ FramesInv
  BY DEF TraceInit, FramesInv
<1>2. [TraceNext]_traceVars => [Next]_vars
  BY DEF TraceNext, traceVars
<1>3. TypeOK /\ FramesInv /\ [TraceNext]_traceVars => FramesInv'
  BY FramesKept DEF TypeOK
<1>4. /\ TypeOK /\ FramesInv /\ [TraceNext]_traceVars
      => [\A f \in frames :
            Executes /\ Instruction = "ret" /\ f.intact /\ sp = f.sp - 2
          => ip' = f.return /\ sp' = f.sp]_traceVars
  BY ReturnGoesBack DEF TypeOK
<1> QED
  BY <1>1, <1>2, <1>3, <1>4, InitTypeOK, NextTypeOK, PTL
     DEF TraceSpec, ReturnsToCaller
------------------------------------------------------------------------------
\* Outside of execute only the cells of the devices change.

OnlyDevices ==
  /\ \A a \in DOMAIN mem' \ DeviceCells : a \in DOMAIN mem /\ mem'[a] = mem[a]
  /\ UNCHANGED cpuVars

\* A store in a cell of the devices is a store in no other cell.
LEMMA DeviceStores ==
  ASSUME NEW m, NEW a \in DeviceCells, NEW v
  PROVE  \A c \in DOMAIN Poke(m, a, v) \ DeviceCells :
           c \in DOMAIN m /\ Poke(m, a, v)[c] = m[c]
BY DEF Poke

\* Whatever run_io does.
LEMMA RunIoStores ==
  ASSUME RunIo
  PROVE  OnlyDevices
<1>1. CASE ToggleRegisters \/ ClearText \/ BreakKey \/ PauseKey \/ StepKey
           \/ Resume \/ Stepper
  BY <1>1 DEF OnlyDevices, ToggleRegisters, ClearText, BreakKey, PauseKey, StepKey,
     Resume, Stepper, Poll
<1>2. CASE PlainKey
  <2>1. mem' = mem \/ mem' = Poke(mem, KeyCell, AsKey(NextKey))
    BY <1>2 DEF PlainKey
  <2>2. UNCHANGED cpuVars /\ KeyCell \in DeviceCells
    BY <1>2 DEF PlainKey, Poll, DeviceCells
  <2> QED BY <2>1, <2>2, DeviceStores DEF OnlyDevices
<1>3. CASE Devices
  <2>1. PICK low, high \in RandomBytes :
          mem' = Poke(Poke(mem, RandomCell, low), RandomCell + 1, high)
    BY <1>3 DEF Devices
  <2>2. /\ UNCHANGED cpuVars
        /\ RandomCell \in DeviceCells /\ RandomCell + 1 \in DeviceCells
    BY <1>3 DEF Devices, DeviceCells
  <2> DEFINE m == Poke(mem, RandomCell, low)
  <2>3. \A c \in DOMAIN m \ DeviceCells : c \in DOMAIN mem /\ m[c] = mem[c]
    BY <2>2, DeviceStores
  <2> HIDE DEF m
  <2>4. \A c \in DOMAIN mem' \ DeviceCells : c \in DOMAIN m /\ mem'[c] = m[c]
    BY <2>1, <2>2, DeviceStores DEF m
  <2> QED BY <2>2, <2>3, <2>4 DEF OnlyDevices
<1> QED BY <1>1, <1>2, <1>3 DEF RunIo

\* Neither run_io nor the user touches the code, the stack, the screen ROM or
\* the registers, whatever keys come (display.c:72, 116-117).
THEOREM DevicesAreKeptOut == TraceSpec => DevicesKeepOut
<1>1. [TraceNext]_traceVars => [phase # "exec" => OnlyDevices]_traceVars
  <2> SUFFICES ASSUME TraceNext, phase # "exec" PROVE OnlyDevices
    OBVIOUS
  <2>1. ~ Execute
    BY DEF Execute
  <2>2. CASE User
    BY <2>2 DEF User, Type, OnlyDevices
  <2> QED BY <2>1, <2>2, RunIoStores DEF TraceNext, Next, Emulator
<1> QED
  BY <1>1, PTL DEF TraceSpec, DevicesKeepOut, OnlyDevices

------------------------------------------------------------------------------
\* The screen.

ScreenBlank == \A i \in Position : ~ Drawable(ScreenByte(i))

\* Before the first instruction.
Untouched ==
  /\ phase = "exec"
  /\ reg = [r \in Reg |-> 0]
  /\ sp = StackTop
  /\ ScreenBlank

\* Before the first scan, or execute returned without one.
Unscanned == phase \in {"io", "exit"} /\ ScreenBlank

\* What old_win holds was drawn; past the scan it is the screen ROM.
Drawn ==
  /\ \A i \in Position : Drawable(oldWin[i]) => shown[i] = oldWin[i]
  /\ phase # "io" => \A i \in Position : oldWin[i] = ScreenByte(i)

ScreenInv == Untouched \/ Unscanned \/ Drawn

------------------------------------------------------------------------------
\* What the screen ROM keeps when a byte is stored.

\* The cells of the window are cells of the screen ROM.
LEMMA PositionInRom ==
  ASSUME NEW i \in Position
  PROVE  SCR_OFF + i \in ScreenRom
<1> DEFINE top == \hd800 - 1
<1>1. i \in Int /\ 0 <= i /\ i < 6144
  BY PositionBounds
<1>2. ScreenRom = SCR_OFF .. top
  BY DEF ScreenRom
<1>3. SCR_OFF + i \in Int /\ top \in Int /\ SCR_OFF <= SCR_OFF + i /\ SCR_OFF + i <= top
  BY <1>1 DEF SCR_OFF
<1>4. SCR_OFF \in Int
  BY DEF SCR_OFF
<1> HIDE DEF top
<1> QED
  BY <1>2, <1>3, <1>4

\* The stack top and the cells run_io writes are outside the screen ROM.
LEMMA OutsideRom ==
  /\ StackTop \notin ScreenRom /\ StackTop - 1 \notin ScreenRom
  /\ KeyCell \notin ScreenRom /\ RandomCell \notin ScreenRom
  /\ RandomCell + 1 \notin ScreenRom
BY DEF StackTop, ScreenRom, SCR_OFF, KeyCell, RandomCell

\* A byte stored outside the screen ROM is not seen there.
LEMMA PokeOutside ==
  ASSUME NEW a, a \notin ScreenRom, NEW v, mem' = Poke(mem, a, v), NEW i \in Position
  PROVE  ScreenByte(i)' = ScreenByte(i)
<1>1. SCR_OFF + i # a
  BY PositionInRom
<1> QED
  BY <1>1 DEF ScreenByte, Peek, Poke

\* A zero stored anywhere leaves a blank screen ROM blank.
LEMMA PokeZero ==
  ASSUME ScreenBlank, NEW a, mem' = Poke(mem, a, 0)
  PROVE  ScreenBlank'
<1> SUFFICES ASSUME NEW i \in Position PROVE ~ Drawable(ScreenByte(i)')
  BY DEF ScreenBlank
<1>1. CASE SCR_OFF + i = a
  BY <1>1 DEF ScreenByte, Peek, Poke, Drawable
<1>2. CASE SCR_OFF + i # a
  <2>1. ScreenByte(i)' = ScreenByte(i)
    BY <1>2 DEF ScreenByte, Peek, Poke
  <2> QED
    BY <2>1 DEF ScreenBlank
<1> QED
  BY <1>1, <1>2

\* An unchanged memory is an unchanged screen ROM.
LEMMA SameMemory ==
  ASSUME mem' = mem
  PROVE  /\ \A i \in Position : ScreenByte(i)' = ScreenByte(i)
         /\ ScreenBlank => ScreenBlank'
BY DEF ScreenByte, Peek, ScreenBlank

------------------------------------------------------------------------------
\* The instructions.

\* The instructions that store.
Stores(op) == \/ Call(op) \/ Icall(op) \/ Push(op) \/ Sts(op)
              \/ StoreIndirect(op, X) \/ StoreIndirect(op, Y)

\* How an instruction ends.
Ended(op) ==
  /\ phase' = "io" \/ (phase' = "exit" /\ mem' = mem)
  /\ mem' = mem \/ Stores(op)

\* An instruction hands over to run_io, or execute returns and the memory is
\* as it was; and only six of the handlers store.
LEMMA ExecuteEnds ==
  ASSUME Execute
  PROVE  phase = "exec" /\ Ended(WordAt(ip))
<1> DEFINE op == WordAt(ip)
<1>0. phase = "exec"
  BY DEF Execute
<1> SUFFICES Ended(op)
  BY <1>0
<1> HIDE DEF op
<1>1. \A r, s : Compute(r, s) => Ended(op)
  BY DEF Compute, Finish, Ended
<1>2. \A next : Goto(next) => Ended(op)
  BY DEF Goto, Finish, Ended
<1>3. Stop => Ended(op)
  BY DEF Stop, Ended
<1>4. Stores(op) => Ended(op)
  BY <1>1 DEF Ended, Stores, Call, Icall, CallTo, Push, Sts, StoreIndirect, Store, Finish
<1>5. CASE \/ Add(op) \/ Adc(op) \/ Sub(op) \/ Subi(op) \/ Sbc(op) \/ Sbci(op)
          \/ And(op) \/ Andi(op) \/ Cbr(op) \/ Or(op) \/ Ori(op) \/ Eor(op)
          \/ Com(op) \/ Neg(op) \/ Inc(op) \/ Dec(op) \/ Asr(op) \/ Lsr(op)
          \/ Ror(op) \/ Swap(op) \/ Ldi(op) \/ Mov(op) \/ Bld(op)
  BY <1>1, <1>5
     DEF ToReg, Add, Adc, Sub, Subi, Sbc, Sbci, And, Andi, Cbr, Or, Ori, Eor, Com,
         Neg, Inc, Dec, Asr, Lsr, Ror, Swap, Ldi, Mov, Bld
<1>6. CASE \/ Adiw(op) \/ Sbiw(op) \/ Mul(op) \/ Muls(op) \/ Movw(op)
          \/ Cp(op) \/ Cpc(op) \/ Cpi(op) \/ Bset(op) \/ Bclr(op) \/ Bst(op)
          \/ Nop(op) \/ Lddx(op) \/ Lddy(op)
  BY <1>1, <1>3, <1>6
     DEF ToPair, Adiw, Sbiw, Mul, Muls, Movw, Cp, Cpc, Cpi, Bset, Bclr, Bst, Nop,
         Lddx, Lddy, LoadIndirect
<1>7. CASE \/ Sbrc(op) \/ Sbrs(op) \/ Branchs(op) \/ Branchc(op) \/ Jmp(op)
          \/ Ijmp(op) \/ Abrk(op)
  BY <1>2, <1>3, <1>7 DEF Sbrc, Sbrs, Branchs, Branchc, BranchIf, Jmp, Ijmp, Abrk
<1>8. CASE \/ Cpse(op) \/ Ret(op) \/ Pop(op) \/ Lds(op) \/ Unknown
  BY <1>8 DEF Cpse, Ret, Pop, Lds, Unknown, Finish, Ended
<1>9. CASE \/ Call(op) \/ Icall(op) \/ Push(op) \/ Sts(op) \/ Stdx(op) \/ Stdy(op)
  BY <1>4, <1>9 DEF Stores, Stdx, Stdy
<1> QED
  BY <1>5, <1>6, <1>7, <1>8, <1>9 DEF Execute, op

\* The first instruction stores a zero, or stores at the top of the address
\* space: the stack grows down from there, and an index register decremented
\* from zero points there.
LEMMA FirstInstruction ==
  ASSUME MachineTypeOK, Untouched, Execute
  PROVE  ScreenBlank'
<1> DEFINE op == WordAt(ip)
<1>1. op \in Addr
  BY FetchIsAddr
<1> HIDE DEF op
<1>2. ScreenBlank /\ sp = StackTop /\ reg[D(op)] = 0
  BY <1>1, Fields DEF Untouched
<1>3. ASSUME NEW a, a \notin ScreenRom, NEW v, mem' = Poke(mem, a, v)
      PROVE  ScreenBlank'
  BY <1>2, <1>3, PokeOutside DEF ScreenBlank
<1>4. ASSUME NEW n \in {X, Y}
      PROVE  U16(Index(n) - 1) = StackTop
  BY <1>4 DEF Untouched, X, Y, Reg, Index, Pair, U16, StackTop
<1>5. ASSUME NEW target, NEW return, CallTo(target, return)
      PROVE  ScreenBlank'
  <2> DEFINE low == Poke(mem, StackTop, Lo(return))
  <2>1. AfterPush(sp, StackTop) = StackTop - 1
    BY <1>2 DEF AfterPush, StackTop
  <2>2. mem' = Poke(low, StackTop - 1, Hi(return))
    BY <1>2, <1>5, <2>1 DEF CallTo
  <2>3. \A i \in Position : ScreenByte(i)' = ScreenByte(i)
    <3> SUFFICES ASSUME NEW i \in Position PROVE ScreenByte(i)' = ScreenByte(i)
      OBVIOUS
    <3>1. SCR_OFF + i # StackTop /\ SCR_OFF + i # StackTop - 1
      BY PositionInRom, OutsideRom
    <3> QED
      BY <2>2, <3>1 DEF ScreenByte, Peek, Poke
  <2> QED
    BY <1>2, <2>3 DEF ScreenBlank
<1>6. CASE mem' = mem
  BY <1>2, <1>6, SameMemory
<1>7. CASE Stores(op)
  <2>1. CASE Call(op) \/ Icall(op)
    BY <1>5, <2>1 DEF Call, Icall
  <2>2. CASE Push(op)
    BY <1>2, <1>3, <2>2, OutsideRom DEF Push
  <2>3. CASE Sts(op)
    BY <1>2, <2>3, PokeZero DEF Sts
  <2>4. ASSUME NEW n \in {X, Y}, StoreIndirect(op, n)
        PROVE  ScreenBlank'
    <3>1. CASE \E a, r : Store(a, reg[D(op)], r)
      BY <1>2, <3>1, PokeZero DEF Store
    <3>2. CASE \E v, r : Store(U16(Index(n) - 1), v, r)
      BY <1>3, <1>4, <3>2, OutsideRom DEF Store
    <3>3. CASE Compute(reg, sreg)
      BY <1>2, <3>3, SameMemory DEF Compute
    <3> QED
      BY <2>4, <3>1, <3>2, <3>3 DEF StoreIndirect
  <2> QED
    BY <1>7, <2>1, <2>2, <2>3, <2>4 DEF Stores
<1> QED
  BY <1>6, <1>7, ExecuteEnds DEF op, Ended

\* Every instruction.
LEMMA ExecuteScreen ==
  ASSUME MachineTypeOK, ScreenInv, Execute, UNCHANGED consoleVars
  PROVE  ScreenInv'
<1>1. phase = "exec" /\ (phase' = "io" \/ (phase' = "exit" /\ mem' = mem))
  BY ExecuteEnds DEF Ended
<1>2. oldWin' = oldWin /\ shown' = shown
  BY DEF consoleVars
<1>3. CASE Untouched
  BY <1>1, <1>3, FirstInstruction DEF ScreenInv, Unscanned
<1>4. CASE Unscanned
  BY <1>1, <1>4 DEF Unscanned
<1>5. CASE Drawn
  <2>1. CASE phase' = "io"
    BY <1>2, <1>5, <2>1 DEF Drawn, ScreenInv
  <2>2. CASE phase' = "exit" /\ mem' = mem
    BY <1>1, <1>2, <1>5, <2>2, SameMemory DEF Drawn, ScreenInv
  <2> QED
    BY <1>1, <2>1, <2>2
<1> QED
  BY <1>3, <1>4, <1>5 DEF ScreenInv

------------------------------------------------------------------------------
\* The console.

\* A scan leaves the window drawn, whether or not it is the first.
LEMMA PollScreen ==
  ASSUME ScreenInv, TypeOK, NEW accepts, Poll(accepts),
         \A i \in Position : ScreenByte(i)' = ScreenByte(i)
  PROVE  ScreenInv'
<1>1. \A i \in Position : oldWin'[i] = ScreenByte(i)
  BY DEF Poll, Scan
<1>2. ASSUME NEW i \in Position, Drawable(ScreenByte(i))
      PROVE  shown'[i] = ScreenByte(i)
  <2>1. Drawn
    BY <1>2 DEF Poll, ScreenInv, Untouched, Unscanned, ScreenBlank
  <2>2. CASE ScreenByte(i) # oldWin[i]
    BY <1>2, <2>2 DEF Poll, Scan
  <2>3. CASE ScreenByte(i) = oldWin[i]
    <3>1. shown'[i] = shown[i]
      BY <2>3 DEF Poll, Scan
    <3> QED
      BY <1>2, <2>1, <2>3, <3>1 DEF Drawn
  <2> QED
    BY <2>2, <2>3
<1> QED
  BY <1>1, <1>2 DEF ScreenInv, Drawn

\* Past the scan nothing the window depends on changes.
LEMMA PastScanScreen ==
  ASSUME ScreenInv, phase \in {"paused", "stepping", "devices"}, UNCHANGED screenVars,
         \A i \in Position : ScreenByte(i)' = ScreenByte(i)
  PROVE  ScreenInv'
BY DEF ScreenInv, Untouched, Unscanned, Drawn, screenVars

\* Every step of run_io.
LEMMA RunIoScreen ==
  ASSUME TypeOK, ScreenInv, RunIo
  PROVE  ScreenInv'
<1>1. CASE ToggleRegisters
  BY <1>1, SameMemory, PollScreen DEF ToggleRegisters
<1>2. CASE ClearText
  BY <1>2, SameMemory, PollScreen DEF ClearText
<1>3. CASE BreakKey
  BY <1>3, SameMemory, PollScreen DEF BreakKey
<1>4. CASE PauseKey
  BY <1>4, SameMemory, PollScreen DEF PauseKey
<1>5. CASE StepKey
  BY <1>5, SameMemory, PollScreen DEF StepKey
<1>6. CASE PlainKey
  <2>1. \A i \in Position : ScreenByte(i)' = ScreenByte(i)
    BY <1>6, SameMemory, PokeOutside, OutsideRom DEF PlainKey
  <2> QED
    BY <1>6, <2>1, PollScreen DEF PlainKey
<1>7. CASE Resume
  BY <1>7, SameMemory, PastScanScreen DEF Resume
<1>8. CASE Stepper
  BY <1>8, SameMemory, PastScanScreen DEF Stepper
<1>9. CASE Devices
  <2>1. PICK low, high \in RandomBytes :
          mem' = Poke(Poke(mem, RandomCell, low), RandomCell + 1, high)
    BY <1>9 DEF Devices
  <2>2. ASSUME NEW i \in Position
        PROVE  ScreenByte(i)' = ScreenByte(i)
    <3>1. SCR_OFF + i # RandomCell /\ SCR_OFF + i # RandomCell + 1
      BY PositionInRom, OutsideRom
    <3> QED
      BY <2>1, <3>1 DEF ScreenByte, Peek, Poke
  <2> QED
    BY <1>9, <2>2, PastScanScreen DEF Devices, consoleVars, screenVars
<1> QED
  BY <1>1, <1>2, <1>3, <1>4, <1>5, <1>6, <1>7, <1>8, <1>9 DEF RunIo

------------------------------------------------------------------------------
\* The invariant, and what it is for.

\* load cleared the screen ROM, and run the registers.
LEMMA InitScreen == Init => ScreenInv
<1> SUFFICES ASSUME Init PROVE ScreenInv
  OBVIOUS
<1>1. PICK img \in Images : mem = Loaded(img)
  BY DEF Init, MachineInit
<1>2. ASSUME NEW i \in Position
      PROVE  ~ Drawable(ScreenByte(i))
  <2>1. SCR_OFF + i \in ScreenRom /\ SCR_OFF + i \notin DOMAIN mem
    BY <1>1, PositionInRom DEF Loaded
  <2>2. ScreenByte(i) = 0
    BY <2>1 DEF ScreenByte, Peek
  <2> QED
    BY <2>2 DEF Drawable
<1> QED
  BY <1>2 DEF Init, MachineInit, ScreenInv, Untouched, ScreenBlank

\* Every step of the emulator and of the user.
LEMMA NextScreen == TypeOK /\ ScreenInv /\ [Next]_vars => ScreenInv'
<1> SUFFICES ASSUME TypeOK, ScreenInv, [Next]_vars PROVE ScreenInv'
  OBVIOUS
<1>1. CASE Execute /\ UNCHANGED consoleVars
  BY <1>1, ExecuteScreen DEF TypeOK
<1>2. CASE RunIo
  BY <1>2, RunIoScreen
<1>3. CASE User
  BY <1>3, SameMemory
     DEF User, Type, ScreenInv, Untouched, Unscanned, Drawn, cpuVars, screenVars
<1>4. CASE UNCHANGED vars
  BY <1>4, SameMemory
     DEF vars, ScreenInv, Untouched, Unscanned, Drawn, cpuVars, consoleVars
<1> QED
  BY <1>1, <1>2, <1>3, <1>4 DEF Next, Emulator

\* Between two instructions every printable byte of the screen ROM is the
\* character its window cell shows (ScreenFaithful of Console, the scan of
\* run_io in display.c), in every run of the emulator.
THEOREM ScreenIsFaithful == Spec => []ScreenFaithful
<1>1. ScreenInv => ScreenFaithful
  <2> SUFFICES ASSUME ScreenInv, phase # "io", NEW i \in Position, Drawable(ScreenByte(i))
               PROVE  shown[i] = ScreenByte(i)
    BY DEF ScreenFaithful
  <2> QED
    BY DEF ScreenInv, Untouched, Unscanned, ScreenBlank, Drawn
<1>2. Spec => []TypeOK
  BY MachineIsTyped
<1> QED
  BY <1>1, <1>2, InitScreen, NextScreen, PTL DEF Spec
------------------------------------------------------------------------------
\* The keys.

\* How many of the keys pressed the emulator has read.
Read == Len(pressed) - Len(keys)

\* The queue is the part of the history that has not been read yet.
QueueInv ==
  /\ pressed \in Seq(KeyCodes) /\ Len(keys) <= Len(pressed)
  /\ \A i \in 1 .. Len(keys) : keys[i] = pressed[Read + i]

\* A key turned the stepper on, and one more let each instruction through: the
\* one under way, or about to start, has had its key.
PaceInv ==
  /\ stepRuns \in Nat /\ (phase = "stepping" => step)
  /\ step \/ stepRuns > 0 => stepRuns + 1 <= Read
  /\ step /\ phase \in {"exec", "devices"} => stepRuns + 2 <= Read

\* The last plain key read, if there is one, is in the key cell.
Latched ==
  \A i \in 1 .. Read :
    Plain(pressed[i]) /\ (\A j \in (i + 1) .. Read : ~ Plain(pressed[j]))
      => Peek(KeyCell) = pressed[i] % 256
LatchInv ==
  ~ Pressed({F4, F5}) =>
    ~ step /\ phase \notin {"paused", "stepping"} /\ Latched

KeyInv == TypeOK /\ QueueInv /\ PaceInv

\* The program leaves the key cell alone.
KeyCellKept == phase = "exec" => UNCHANGED Peek(KeyCell)

------------------------------------------------------------------------------
\* The queue and the history.
Typing  == \E k \in KeyCodes : keys' = Append(keys, k) /\ pressed' = Append(pressed, k)
Taking  == keys # <<>> /\ keys' = Tail(keys) /\ pressed' = pressed
Leaving == keys' = keys /\ pressed' = pressed

\* What the steps do to the keys: the user adds one, the poll takes one if
\* there is one, the pause and the stepper take one.
LEMMA TakeKeyCases ==
  ASSUME TakeKey, KeyTrace, typed' = typed
  PROVE  /\ keys # <<>> => Taking
         /\ keys = <<>> => Leaving
BY DEF TakeKey, KeyTrace, Taking, Leaving

\* The user adds one, to the queue and to the history.
LEMMA UserTypes ==
  ASSUME TypeOK, User, KeyTrace
  PROVE  Typing
<1>1. PICK k \in KeyCodes : Type(k)
  BY DEF User
<1>2. keys \in Seq(KeyCodes) /\ typed \in Nat
  BY KeysAssumption DEF TypeOK, ConsoleTypeOK
<1>3. keys' = Append(keys, k) /\ typed' # typed
  BY <1>1, <1>2 DEF Type
<1>4. keys'[Len(keys')] = k
  BY <1>2, <1>3, AppendProperties
<1> QED
  BY <1>3, <1>4 DEF KeyTrace, Typing

\* Reading keeps the queue the rest of the history.
LEMMA QueueSteps ==
  ASSUME keys \in Seq(KeyCodes), QueueInv, Typing \/ Taking \/ Leaving
  PROVE  /\ QueueInv'
         /\ Read \in Nat /\ Read' = IF Taking THEN Read + 1 ELSE Read
         /\ Typing \/ Leaving => ~ Taking
         /\ Taking => Head(keys) = pressed[Read + 1]
         /\ \A i \in 1 .. Read : pressed'[i] = pressed[i]
<1>1. /\ pressed \in Seq(KeyCodes) /\ Len(keys) \in Nat /\ Len(pressed) \in Nat
      /\ Len(keys) <= Len(pressed) /\ Read \in Nat
      /\ \A i \in 1 .. Len(keys) : keys[i] = pressed[Read + i]
  BY LenProperties DEF QueueInv, Read
<1>2. CASE Typing
  <2>1. PICK k \in KeyCodes : keys' = Append(keys, k) /\ pressed' = Append(pressed, k)
    BY <1>2 DEF Typing
  <2>2. /\ Len(keys') = Len(keys) + 1 /\ Len(pressed') = Len(pressed) + 1
        /\ pressed' \in Seq(KeyCodes)
        /\ keys'[Len(keys) + 1] = k /\ pressed'[Len(pressed) + 1] = k
        /\ \A i \in 1 .. Len(keys) : keys'[i] = keys[i]
        /\ \A i \in 1 .. Len(pressed) : pressed'[i] = pressed[i]
    BY <1>1, <2>1, AppendProperties
  <2>3. Read' = Read /\ ~ Taking
    BY <1>1, <2>2 DEF Read, Taking
  <2>4. \A i \in 1 .. Len(keys') : keys'[i] = pressed'[Read' + i]
    <3> SUFFICES ASSUME NEW i \in 1 .. Len(keys') PROVE keys'[i] = pressed'[Read' + i]
      OBVIOUS
    <3>1. CASE i = Len(keys) + 1
      <4>1. Read + i = Len(pressed) + 1
        BY <1>1, <3>1 DEF Read
      <4> QED BY <2>2, <2>3, <3>1, <4>1
    <3>2. CASE i # Len(keys) + 1
      <4>1. i \in 1 .. Len(keys) /\ Read + i \in 1 .. Len(pressed)
        BY <1>1, <2>2, <3>2 DEF Read
      <4> QED BY <1>1, <2>2, <2>3, <4>1
    <3> QED BY <3>1, <3>2
  <2>5. QueueInv'
    BY <1>1, <2>2, <2>4 DEF QueueInv
  <2>6. \A i \in 1 .. Read : i \in 1 .. Len(pressed)
    BY <1>1 DEF Read
  <2> QED BY <1>1, <2>2, <2>3, <2>5, <2>6
<1>3. CASE Taking
  <2>1. /\ keys' \in Seq(KeyCodes) /\ Len(keys') = Len(keys) - 1 /\ Len(keys) >= 1
        /\ Head(keys) = keys[1] /\ pressed' = pressed
        /\ \A i \in 1 .. Len(keys') : keys'[i] = keys[i + 1]
    BY <1>3, HeadTailProperties, EmptySeq, LenProperties DEF Taking
  <2>2. Read' = Read + 1
    BY <1>1, <2>1 DEF Read
  <2>3. \A i \in 1 .. Len(keys') : i + 1 \in 1 .. Len(keys) /\ Read' + i = Read + (i + 1)
    BY <1>1, <2>1, <2>2
  <2>4. \A i \in 1 .. Len(keys') : keys'[i] = pressed'[Read' + i]
    BY <1>1, <2>1, <2>3
  <2>5. QueueInv'
    BY <1>1, <2>1, <2>4 DEF QueueInv
  <2>6. 1 \in 1 .. Len(keys)
    BY <1>1, <2>1
  <2>7. ~ Typing /\ ~ Leaving
    <3>1. \A k \in KeyCodes : Len(Append(keys, k)) = Len(keys) + 1
      BY AppendProperties
    <3> QED BY <1>1, <2>1, <3>1 DEF Typing, Leaving
  <2> QED BY <1>1, <1>3, <2>1, <2>2, <2>5, <2>6, <2>7
<1>4. CASE Leaving
  <2>1. Read' = Read /\ QueueInv'
    BY <1>4 DEF Leaving, QueueInv, Read
  <2>2. ~ Taking
    <3>1. ASSUME Taking PROVE FALSE
      <4>1. Len(Tail(keys)) = Len(keys) - 1
        BY <3>1, HeadTailProperties DEF Taking
      <4> QED BY <1>1, <1>4, <3>1, <4>1 DEF Taking, Leaving
    <3> QED BY <3>1
  <2> QED BY <1>1, <1>4, <2>1, <2>2 DEF Leaving
<1> QED BY <1>2, <1>3, <1>4

------------------------------------------------------------------------------
\* What a step does to the keys, the stepper and the phase.
Typed == Typing /\ UNCHANGED <<phase, step, stepRuns, mem>>
Executed ==
  /\ Leaving /\ UNCHANGED step
  /\ phase = "exec" /\ phase' \in {"io", "exit"}
  /\ stepRuns' = stepRuns + (IF step THEN 1 ELSE 0)
Polled ==
  /\ phase = "io" /\ (IF keys = <<>> THEN Leaving ELSE Taking)
  /\ UNCHANGED stepRuns
  /\ \/ /\ UNCHANGED step
        /\ phase' \in {"exit", IF step THEN "stepping" ELSE "devices"}
     \/ UNCHANGED step /\ phase' = "paused" /\ keys # <<>> /\ Head(keys) = F4
     \/ step' /\ phase' = "stepping" /\ keys # <<>> /\ Head(keys) = F5
Resumed ==
  /\ phase = "paused" /\ Taking /\ UNCHANGED <<step, stepRuns, mem>>
  /\ phase' = IF step THEN "stepping" ELSE "devices"
Stepped ==
  /\ phase = "stepping" /\ Taking /\ UNCHANGED <<stepRuns, mem>>
  /\ step' \in BOOLEAN
  /\ phase' = "devices" \/ (phase' = "stepping" /\ step')
Refreshed ==
  /\ phase = "devices" /\ phase' = "exec" /\ Leaving
  /\ UNCHANGED <<step, stepRuns>>

\* The six outcomes of the poll.
LEMMA PollSteps ==
  ASSUME KeyTrace, NEW accepts, Poll(accepts), TypeOK, stepRuns \in Nat
  PROVE  /\ phase = "io" /\ (IF keys = <<>> THEN Leaving ELSE Taking)
         /\ UNCHANGED stepRuns
<1>1. phase = "io" /\ TakeKey /\ typed' = typed
  BY DEF Poll
<1> QED
  BY <1>1, TakeKeyCases DEF KeyTrace

\* The steps of run_io.
LEMMA RunIoSteps ==
  ASSUME TypeOK, stepRuns \in Nat, RunIo, KeyTrace
  PROVE  Polled \/ Resumed \/ Stepped \/ Refreshed
<1>1. CASE ToggleRegisters \/ ClearText \/ BreakKey \/ PlainKey
  BY <1>1, PollSteps
     DEF ToggleRegisters, ClearText, BreakKey, PlainKey, PastKeyboard, Polled
<1>2. CASE PauseKey \/ StepKey
  <2>1. NextKey = IF PauseKey THEN F4 ELSE F5
    BY <1>2 DEF PauseKey, StepKey, Poll, F4, F5
  <2>2. keys # <<>> /\ Head(keys) = IF PauseKey THEN F4 ELSE F5
    BY <2>1 DEF NextKey, NoKey, F4, F5, KEY_F
  <2> QED
    BY <1>2, <2>2, PollSteps DEF PauseKey, StepKey, PastKeyboard, Polled
<1>3. CASE Resume
  BY <1>3, TakeKeyCases DEF Resume, Resumed, PastKeyboard, KeyTrace
<1>4. CASE Stepper
  <2>1. Taking /\ phase = "stepping" /\ UNCHANGED <<stepRuns, mem>>
    BY <1>4, TakeKeyCases DEF Stepper, KeyTrace
  <2>2. step' = (Head(keys) \notin StepOff) /\ StepOn \cap StepOff = {}
    BY <1>4 DEF Stepper, StepOn, StepOff, KEY_F
  <2>3. phase' = "devices" \/ (phase' = "stepping" /\ step')
    BY <1>4, <2>2 DEF Stepper
  <2> QED BY <2>1, <2>2, <2>3 DEF Stepped
<1>5. CASE Devices
  BY <1>5 DEF Devices, Refreshed, Leaving, KeyTrace, consoleVars
<1> QED
  BY <1>1, <1>2, <1>3, <1>4, <1>5 DEF RunIo

\* All the steps.
LEMMA KeySteps ==
  ASSUME TypeOK, stepRuns \in Nat, [KeyNext]_keyVars
  PROVE  \/ Typed \/ Executed \/ Polled \/ Resumed \/ Stepped \/ Refreshed
         \/ Leaving /\ UNCHANGED <<phase, step, stepRuns, mem>>
<1>1. CASE User /\ KeyTrace
  <2>1. UNCHANGED <<phase, step, mem>>
    BY <1>1 DEF User, Type
  <2>2. stepRuns' = stepRuns
    BY <1>1, <2>1 DEF KeyTrace
  <2> QED BY <1>1, <2>1, <2>2, UserTypes DEF Typed
<1>2. CASE Execute /\ UNCHANGED consoleVars /\ KeyTrace
  <2>1. phase = "exec" /\ phase' \in {"io", "exit"}
    BY <1>2, ExecuteEnds DEF Ended
  <2> QED BY <1>2, <2>1 DEF Executed, Leaving, KeyTrace, consoleVars
<1>3. CASE RunIo /\ KeyTrace
  BY <1>3, RunIoSteps
<1>4. CASE UNCHANGED keyVars
  BY <1>4 DEF keyVars, vars, consoleVars, Leaving
<1> QED
  BY <1>1, <1>2, <1>3, <1>4 DEF KeyNext, Next, Emulator

\* No step runs ahead of the keys.
LEMMA PaceKept ==
  ASSUME KeyInv, [KeyNext]_keyVars
  PROVE  QueueInv' /\ PaceInv'
<1>1. keys \in Seq(KeyCodes) /\ step \in BOOLEAN /\ stepRuns \in Nat
  BY DEF KeyInv, TypeOK, ConsoleTypeOK, PaceInv
<1>2. /\ step \/ stepRuns > 0 => stepRuns + 1 <= Read
      /\ step /\ phase \in {"exec", "devices"} => stepRuns + 2 <= Read
      /\ phase = "stepping" => step
  BY DEF KeyInv, PaceInv
<1>3. ASSUME Typing \/ Taking \/ Leaving
      PROVE  QueueInv' /\ Read \in Nat /\ Read' = IF Taking THEN Read + 1 ELSE Read
  BY <1>1, <1>3, QueueSteps DEF KeyInv
<1>4. CASE Typed
  <2>1. QueueInv' /\ Read \in Nat /\ (Read' = Read \/ Read' = Read + 1)
    BY <1>3, <1>4 DEF Typed
  <2> QED BY <1>1, <1>2, <1>4, <2>1 DEF Typed, PaceInv
<1>5. CASE Executed
  <2>1. QueueInv' /\ Read \in Nat /\ (Read' = Read \/ Read' = Read + 1)
    BY <1>3, <1>5 DEF Executed
  <2> QED BY <1>1, <1>2, <1>5, <2>1 DEF Executed, PaceInv
<1>6. CASE Polled
  <2>1. QueueInv' /\ Read \in Nat /\ (Read' = Read \/ Read' = Read + 1)
        /\ (keys # <<>> => Read' = Read + 1)
    BY <1>3, <1>6 DEF Polled, Taking
  <2> QED BY <1>1, <1>2, <1>6, <2>1 DEF Polled, PaceInv
<1>7. CASE Resumed
  <2>1. QueueInv' /\ Read \in Nat /\ Read' = Read + 1
    BY <1>3, <1>7 DEF Resumed
  <2> QED BY <1>1, <1>2, <1>7, <2>1 DEF Resumed, PaceInv
<1>8. CASE Stepped
  <2>1. QueueInv' /\ Read \in Nat /\ Read' = Read + 1
    BY <1>3, <1>8 DEF Stepped
  <2> QED BY <1>1, <1>2, <1>8, <2>1 DEF Stepped, PaceInv
<1>9. CASE Refreshed
  <2>1. QueueInv' /\ Read \in Nat /\ (Read' = Read \/ Read' = Read + 1)
    BY <1>3, <1>9 DEF Refreshed
  <2> QED BY <1>1, <1>2, <1>9, <2>1 DEF Refreshed, PaceInv
<1>10. CASE Leaving /\ UNCHANGED <<phase, step, stepRuns, mem>>
  <2>1. QueueInv' /\ Read \in Nat /\ (Read' = Read \/ Read' = Read + 1)
    BY <1>3, <1>10
  <2> QED BY <1>1, <1>2, <1>10, <2>1 DEF PaceInv
<1> QED
  BY <1>1, <1>4, <1>5, <1>6, <1>7, <1>8, <1>9, <1>10, KeySteps DEF KeyInv

\* The invariant holds at the start, is kept, and so holds.
LEMMA KeyInvInit == KeyInit => KeyInv
<1> SUFFICES ASSUME KeyInit PROVE KeyInv
  OBVIOUS
<1>1. TypeOK
  BY InitTypeOK DEF KeyInit
<1>2. keys = <<>> /\ pressed = <<>> /\ stepRuns = 0 /\ ~ step /\ phase = "exec"
  BY DEF KeyInit, Init, MachineInit, ConsoleInit
<1>3. Len(keys) = 0 /\ Len(pressed) = 0 /\ pressed \in Seq(KeyCodes)
  BY <1>2, EmptySeq
<1>4. QueueInv
  BY <1>3 DEF QueueInv
<1>5. PaceInv
  BY <1>2, <1>3 DEF PaceInv, Read
<1> QED BY <1>1, <1>4, <1>5 DEF KeyInv

LEMMA KeyInvKept == KeyInv /\ [KeyNext]_keyVars => KeyInv'
<1> SUFFICES ASSUME KeyInv, [KeyNext]_keyVars PROVE KeyInv'
  OBVIOUS
<1>1. TypeOK'
  BY NextTypeOK DEF KeyInv, KeyNext, keyVars
<1> QED BY <1>1, PaceKept DEF KeyInv

LEMMA KeyInvHolds == KeySpec => []KeyInv
BY KeyInvInit, KeyInvKept, PTL DEF KeySpec

\* The keys taken from the queue are the first ones of the history.
LEMMA TakenIs ==
  ASSUME KeyInv
  PROVE  /\ Read \in Nat /\ Len(Taken) = Read /\ DOMAIN Taken = 1 .. Read
         /\ \A i \in 1 .. Read : Taken[i] = pressed[i]
<1>1. /\ pressed \in Seq(KeyCodes) /\ Len(keys) \in Nat /\ Len(pressed) \in Nat
      /\ Len(keys) <= Len(pressed)
  BY LenProperties DEF KeyInv, QueueInv, TypeOK, ConsoleTypeOK
<1>2. Read \in Nat /\ Read <= Len(pressed)
  BY <1>1 DEF Read
<1>3. \A i \in 1 .. Read : pressed[i] \in KeyCodes
  BY <1>1, <1>2, ElementOfSeq
<1> QED
  BY <1>2, <1>3, SubSeqProperties DEF Taken, Read

\* The stepper is never ahead of the keys (display.c:64-67, 96-112).
THEOREM StepsArePaced == KeySpec => []StepPaced
<1>1. KeyInv => StepPaced
  BY TakenIs DEF KeyInv, PaceInv, StepPaced
<1> QED BY KeyInvHolds, <1>1, PTL

------------------------------------------------------------------------------
\* The key cell.

\* The poll stores a plain key, and nothing else.
LEMMA PollLatches ==
  ASSUME TypeOK, stepRuns \in Nat, RunIo, phase = "io"
  PROVE  /\ keys = <<>> \/ ~ Plain(Head(keys)) => Peek(KeyCell)' = Peek(KeyCell)
         /\ keys # <<>> /\ Plain(Head(keys)) => Peek(KeyCell)' = Head(keys) % 256
<1>1. CASE ToggleRegisters \/ ClearText \/ BreakKey \/ PauseKey \/ StepKey
  <2>1. NextKey \in Special /\ mem' = mem
    <3>1. mem' = mem /\ NextKey \in {KEY_F(1), KEY_F(2), KEY_F(3), KEY_F(4), KEY_F(5), CtrlC}
      BY <1>1 DEF ToggleRegisters, ClearText, BreakKey, PauseKey, StepKey, Poll
    <3>2. 1 \in 1 .. 5 /\ 2 \in 1 .. 5 /\ 3 \in 1 .. 5 /\ 4 \in 1 .. 5 /\ 5 \in 1 .. 5
      OBVIOUS
    <3> QED BY <3>1, <3>2 DEF Special
  <2>2. keys # <<>> => ~ Plain(Head(keys))
    BY <2>1 DEF NextKey, Special, Plain, F1, F2, F3, F4, F5
  <2> QED BY <2>1, <2>2 DEF Peek
<1>2. CASE PlainKey
  <2>1. CASE keys = <<>>
    <3>1. AsKey(NextKey) = 255
      <4>1. NextKey = -1
        BY <2>1 DEF NextKey, NoKey
      <4>2. NextKey \in Int /\ NextKey + 1 = 0
        BY <4>1
      <4>3. \A n \in Int : n + 1 = 0 => n % 256 = 255
        OBVIOUS
      <4> QED BY <4>2, <4>3 DEF AsKey, U8
    <3>2. mem' = mem
      BY <1>2, <3>1 DEF PlainKey
    <3> QED BY <2>1, <3>2 DEF Peek
  <2>2. CASE keys # <<>>
    <3>1. NextKey = Head(keys) /\ Head(keys) \in Nat
      BY <2>2, KeysAssumption, HeadTailProperties DEF NextKey, TypeOK, ConsoleTypeOK
    <3>2. AsKey(NextKey) = Head(keys) % 256
      BY <3>1 DEF AsKey, U8
    <3>3. Plain(Head(keys)) <=> Head(keys) % 256 <= \h7f
      BY <1>2, <3>1 DEF PlainKey, Poll, Special, Plain, F1, F2, F3, F4, F5
    <3>4. CASE Plain(Head(keys))
      <4>1. mem' = Poke(mem, KeyCell, Head(keys) % 256)
        BY <1>2, <3>2, <3>3, <3>4 DEF PlainKey
      <4> QED BY <2>2, <3>4, <4>1 DEF Poke, Peek
    <3>5. CASE ~ Plain(Head(keys))
      <4>1. mem' = mem
        BY <1>2, <3>2, <3>3, <3>5 DEF PlainKey
      <4> QED BY <2>2, <3>5, <4>1 DEF Peek
    <3> QED BY <3>4, <3>5
  <2> QED BY <2>1, <2>2
<1> QED
  BY <1>1, <1>2 DEF RunIo, Resume, Stepper, Devices

\* The random cells are not the key cell.
LEMMA DevicesSpare ==
  ASSUME Devices
  PROVE  Peek(KeyCell)' = Peek(KeyCell)
BY DEF Devices, Poke, Peek, KeyCell, RandomCell, ScreenRom, SCR_OFF

\* Every step keeps the latest plain key latched, if the program does.
LEMMA LatchKept ==
  ASSUME KeyInv, LatchInv, [KeyNext]_keyVars, [KeyCellKept]_keyVars
  PROVE  LatchInv'
<1>1. /\ keys \in Seq(KeyCodes) /\ stepRuns \in Nat /\ pressed \in Seq(KeyCodes)
      /\ QueueInv /\ Read \in Nat
  BY TakenIs DEF KeyInv, TypeOK, ConsoleTypeOK, PaceInv, QueueInv
<1>2. ASSUME Typing \/ Taking \/ Leaving
      PROVE  /\ Read' = IF Taking THEN Read + 1 ELSE Read
             /\ Typing \/ Leaving => ~ Taking
             /\ Taking => Head(keys) = pressed[Read + 1] /\ pressed' = pressed
             /\ \A i \in 1 .. Read : pressed'[i] = pressed[i]
             /\ Pressed({F4, F5}) => Pressed({F4, F5})'
  <2>1. Pressed({F4, F5}) => Pressed({F4, F5})'
    <3>1. CASE Typing
      <4>1. PICK k \in KeyCodes : pressed' = Append(pressed, k)
        BY <3>1 DEF Typing
      <4>2. /\ DOMAIN pressed \subseteq DOMAIN pressed'
            /\ \A i \in DOMAIN pressed : pressed'[i] = pressed[i]
        BY <1>1, <4>1, AppendProperties, LenProperties
      <4> QED BY <4>2 DEF Pressed
    <3>2. CASE Taking \/ Leaving
      BY <3>2 DEF Taking, Leaving, Pressed
    <3> QED BY <1>2, <3>1, <3>2
  <2> QED BY <1>1, <1>2, <2>1, QueueSteps DEF Taking
<1> SUFFICES ASSUME ~ Pressed({F4, F5})'
             PROVE  (~ step /\ phase \notin {"paused", "stepping"} /\ Latched)'
  BY DEF LatchInv
<1>3. /\ ~ Pressed({F4, F5}) => ~ step /\ phase \notin {"paused", "stepping"} /\ Latched
  BY DEF LatchInv
<1>4. ASSUME Read' = Read, \A i \in 1 .. Read : pressed'[i] = pressed[i],
             Latched, Peek(KeyCell)' = Peek(KeyCell)
      PROVE  Latched'
  <2> SUFFICES ASSUME NEW i \in 1 .. Read, Plain(pressed'[i]),
                      \A j \in (i + 1) .. Read : ~ Plain(pressed'[j])
               PROVE  Peek(KeyCell)' = pressed'[i] % 256
    BY <1>4 DEF Latched
  <2>1. \A j \in (i + 1) .. Read : j \in 1 .. Read
    BY <1>1
  <2> QED BY <1>4, <2>1 DEF Latched
<1>5. ASSUME Typing \/ Leaving, Peek(KeyCell)' = Peek(KeyCell)
      PROVE  Latched => Latched'
  BY <1>2, <1>4, <1>5
<1>6. CASE Typed \/ (Leaving /\ UNCHANGED <<phase, step, stepRuns, mem>>)
  <2>1. /\ Typing \/ Leaving
        /\ UNCHANGED <<phase, step, mem>>
    BY <1>6 DEF Typed
  <2>2. Peek(KeyCell)' = Peek(KeyCell)
    BY <2>1 DEF Peek
  <2> QED BY <1>2, <1>3, <1>5, <2>1, <2>2
<1>7. CASE Executed
  <2>1. keyVars' # keyVars
    BY <1>7 DEF Executed, keyVars, vars
  <2>2. Peek(KeyCell)' = Peek(KeyCell)
    BY <1>7, <2>1 DEF Executed, KeyCellKept
  <2> QED BY <1>2, <1>3, <1>5, <1>7, <2>2 DEF Executed
<1>8. CASE RunIo /\ phase = "io" /\ Polled
  <2>1. CASE keys = <<>>
    <3>1. Leaving /\ Peek(KeyCell)' = Peek(KeyCell)
      BY <1>1, <1>8, <2>1, PollLatches DEF Polled, KeyInv
    <3> QED BY <1>2, <1>3, <1>5, <1>8, <2>1, <3>1 DEF Polled
  <2>2. CASE keys # <<>>
    <3>1. Taking /\ Read' = Read + 1 /\ pressed' = pressed
      BY <1>2, <1>8, <2>2 DEF Polled
    <3>2. Head(keys) = pressed[Read + 1] /\ Read + 1 \in DOMAIN pressed
      <4>1. Len(keys) \in Nat /\ Len(keys) > 0 /\ Read + 1 <= Len(pressed)
        BY <1>1, <2>2, EmptySeq, LenProperties DEF Read
      <4> QED BY <1>1, <1>2, <3>1, <4>1, LenProperties
    <3>3. Head(keys) # F4 /\ Head(keys) # F5
      BY <3>1, <3>2 DEF Pressed
    <3>4. Peek(KeyCell)' = IF Plain(pressed[Read + 1]) THEN pressed[Read + 1] % 256
                                                       ELSE Peek(KeyCell)
      BY <1>1, <1>8, <2>2, <3>2, PollLatches DEF KeyInv
    <3>5. Latched'
      <4> SUFFICES ASSUME NEW i \in 1 .. (Read + 1), Plain(pressed[i]),
                          \A j \in (i + 1) .. (Read + 1) : ~ Plain(pressed[j])
                   PROVE  Peek(KeyCell)' = pressed[i] % 256
        BY <3>1 DEF Latched
      <4>1. CASE i = Read + 1
        BY <3>4, <4>1
      <4>2. CASE i # Read + 1
        <5>1. i \in 1 .. Read /\ Read + 1 \in (i + 1) .. (Read + 1)
          BY <1>1, <4>2
        <5>2. \A j \in (i + 1) .. Read : j \in (i + 1) .. (Read + 1)
          BY <1>1, <5>1
        <5>3. Latched
          BY <1>2, <1>3, <3>1
        <5> QED BY <3>4, <5>1, <5>2, <5>3 DEF Latched
      <4> QED BY <4>1, <4>2
    <3>6. step' = step /\ phase' \notin {"paused", "stepping"}
      BY <1>2, <1>3, <1>8, <3>1, <3>3 DEF Polled
    <3> QED BY <1>2, <1>3, <3>1, <3>5, <3>6
  <2> QED BY <2>1, <2>2
<1>9. CASE Resumed \/ Stepped
  <2>1. Taking /\ phase \in {"paused", "stepping"}
    BY <1>9 DEF Resumed, Stepped
  <2> QED BY <1>2, <1>3, <2>1
<1>10. CASE Devices /\ Refreshed
  BY <1>2, <1>3, <1>5, <1>10, DevicesSpare DEF Refreshed
<1>11. CASE Polled
  <2>1. phase = "io" /\ phase' # phase
    BY <1>11 DEF Polled
  <2>2. RunIo
    BY <2>1, ExecuteEnds DEF KeyNext, Next, Emulator, User, Type, keyVars, vars
  <2> QED BY <1>8, <1>11, <2>1, <2>2
<1>12. CASE Refreshed
  <2>1. phase = "devices" /\ phase' # phase
    BY <1>12 DEF Refreshed
  <2>2. RunIo
    BY <2>1, ExecuteEnds DEF KeyNext, Next, Emulator, User, Type, keyVars, vars
  <2>3. Devices
    BY <2>1, <2>2 DEF RunIo, ToggleRegisters, ClearText, BreakKey, PauseKey, StepKey,
                      PlainKey, Poll, Resume, Stepper
  <2> QED BY <1>10, <1>12, <2>3
<1> QED
  BY <1>1, <1>6, <1>7, <1>9, <1>11, <1>12, KeySteps DEF KeyInv

\* A set of numbers up to n has a greatest, which is what Max finds: the least
\* of its bounds.
LEMMA GreatestIsMax ==
  ASSUME NEW n \in Nat, NEW S \in SUBSET (1 .. n), S # {}
  PROVE  \E m \in S : (\A i \in S : i <= m) /\ Max(S) = m
<1> DEFINE Order == OpToRel(<, Nat)
           T == {b \in Nat : \A i \in S : i <= b}
<1>1. T \in SUBSET Nat /\ n \in T
  OBVIOUS
<1>2. PICK m \in T : \A b \in T : ~ (<<b, m>> \in Order)
  <2>1. IsWellFoundedOn(Order, Nat)
    BY NatLessThanWellFounded
  <2> HIDE DEF Order, T
  <2> QED BY <1>1, <2>1, WFMin
<1>3. \A b, c \in Nat : b < c => <<b, c>> \in Order
  BY DEF OpToRel
<1> HIDE DEF Order
<1>4. m \in Nat /\ \A i \in S : i \in Nat /\ i >= 1 /\ i <= m
  OBVIOUS
<1>5. m \in S
  <2> SUFFICES ASSUME m \notin S PROVE FALSE
    OBVIOUS
  <2>1. PICK j \in S : TRUE
    OBVIOUS
  <2>2. j \in Nat /\ j >= 1 /\ j <= m
    BY <1>4
  <2>3. m - 1 \in Nat /\ m - 1 < m
    BY <1>4, <2>2
  <2>4. ASSUME NEW i \in S PROVE i <= m - 1
    <3>1. i \in Nat /\ i <= m /\ i # m
      BY <1>4
    <3> QED BY <1>4, <3>1
  <2>5. m - 1 \in T
    BY <2>3, <2>4
  <2> HIDE DEF T
  <2> QED BY <1>1, <1>2, <1>3, <1>4, <2>3, <2>5
<1> HIDE DEF T
<1>6. Max(S) \in S /\ \A i \in S : Max(S) >= i
  <2>1. \A i \in S : m >= i
    BY <1>4
  <2> QED BY <1>5, <2>1 DEF Max
<1>7. Max(S) = m
  <2>1. Max(S) \in Nat /\ Max(S) <= m /\ Max(S) >= m
    BY <1>4, <1>5, <1>6
  <2> QED BY <1>4, <2>1
<1> QED BY <1>4, <1>5, <1>7

\* At the start no key has been read.
LEMMA LatchInit == KeyInit => LatchInv
<1> SUFFICES ASSUME KeyInit PROVE LatchInv
  OBVIOUS
<1>1. keys = <<>> /\ pressed = <<>> /\ ~ step /\ phase = "exec"
  BY DEF KeyInit, Init, MachineInit, ConsoleInit
<1>2. Read = 0
  BY <1>1, EmptySeq DEF Read
<1> QED BY <1>1, <1>2 DEF LatchInv, Latched

\* For every program that does not store to the key cell, the cell holds the
\* latest plain key read, in the order the keys were pressed (display.c:34-73).
THEOREM KeysAreLatched == KeySpec /\ [][KeyCellKept]_keyVars => []KeyLatch
<1>1. ASSUME KeyInv, LatchInv PROVE KeyLatch
  <2> DEFINE plain == {i \in DOMAIN Taken : Plain(Taken[i])}
  <2> SUFFICES ASSUME ~ Pressed({F4, F5}), plain # {}
               PROVE  Peek(KeyCell) = Taken[Max(plain)] % 256
    BY DEF KeyLatch
  <2>1. /\ Read \in Nat /\ DOMAIN Taken = 1 .. Read
        /\ \A i \in 1 .. Read : Taken[i] = pressed[i]
    BY <1>1, TakenIs
  <2>2. plain \in SUBSET (1 .. Read)
    BY <2>1
  <2>3. PICK m \in plain : (\A i \in plain : i <= m) /\ Max(plain) = m
    BY <2>1, <2>2, GreatestIsMax
  <2>4. Plain(pressed[m]) /\ \A j \in (m + 1) .. Read : ~ Plain(pressed[j])
    BY <2>1, <2>2, <2>3
  <2> QED BY <1>1, <2>1, <2>2, <2>3, <2>4 DEF LatchInv, Latched
<1>2. KeyInv /\ LatchInv /\ [KeyNext]_keyVars /\ [KeyCellKept]_keyVars => LatchInv'
  BY LatchKept
<1> QED BY KeyInvHolds, LatchInit, <1>1, <1>2, PTL DEF KeySpec

------------------------------------------------------------------------------
\* Programs, line by line.

\* The lines of the program that runs, and where they are.
Line(i) == Programs[program][i]
At(i) == Addresses(Programs[program])[i]
Lines == 1 .. Len(Programs[program])
LineSize(i) == Size(TypeOf(Line(i)[1]))

\* While the code is as it was loaded, the emulator finds each line at its
\* address, and the next one behind it.
LEMMA LineFound ==
  ASSUME program \in Whole, CodeIntact, NEW i \in Lines
  PROVE  /\ At(i) \in Addr
         /\ WordAt(At(i)) = WordOf(Line(i))
         /\ LineSize(i) = 4 => WordAt(At(i) + 2) = Line(i)[3]
         /\ i + 1 \in Lines => U16(At(i) + LineSize(i)) = At(i + 1)
<1> DEFINE p == Programs[program]
           b == BytesOf(Line(i))
           w == WordOf(Line(i))
           x == At(i)
<1>1. WellFormed(p) /\ program \in DOMAIN Programs
  BY DEF Whole
<1>2. IsText(p)
  BY <1>1, ProgramsAssumption DEF IsText
<1>3. \A k \in 1 .. Len(p) : Assembles(p[k])
  BY <1>1 DEF WellFormed
<1>4. \A k \in 1 .. Len(p) : BytesOf(p[k]) \in Seq(Byte)
  BY <1>3, LineHolds
<1>5. \A k \in 1 .. Len(p) :
        /\ At(k) \in Nat
        /\ \A j \in 1 .. Len(BytesOf(p[k])) :
             /\ (At(k) + j) - 1 \in DOMAIN ImageOf(p)
             /\ ImageOf(p)[(At(k) + j) - 1] = BytesOf(p[k])[j]
  BY <1>2, <1>4, ImageHolds DEF At
<1>6. \A k \in 1 .. Len(p) :
        /\ At(k) \in Nat
        /\ \A j \in 1 .. Len(BytesOf(p[k])) :
             /\ (At(k) + j) - 1 \in Addr
             /\ Peek((At(k) + j) - 1) = BytesOf(p[k])[j]
  <2>1. DOMAIN ImageOf(p) \subseteq Addr /\ Code[program] = ImageOf(p)
    BY <1>1 DEF WellFormed, Code
  <2> QED BY <1>5, <2>1 DEF CodeIntact
<1>7. /\ w \in Addr
      /\ LineSize(i) = 4 => Line(i)[3] \in Addr
      /\ Len(b) = LineSize(i) /\ LineSize(i) \in {2, 4}
      /\ b[1] = Lo(w) /\ b[2] = Hi(w)
      /\ LineSize(i) = 4 => b[3] = Lo(Line(i)[3]) /\ b[4] = Hi(Line(i)[3])
  <2>1. Assembles(Line(i))
    BY <1>3 DEF Lines, Line
  <2> QED BY <2>1, LineHolds DEF LineSize, Size
<1>8. /\ x \in Int
      /\ \A j \in 1 .. LineSize(i) : (x + j) - 1 \in Addr /\ Peek((x + j) - 1) = b[j]
  <2>1. x \in Nat /\ \A j \in 1 .. Len(b) : (x + j) - 1 \in Addr /\ Peek((x + j) - 1) = b[j]
    BY <1>6 DEF Line, Lines
  <2> HIDE DEF x, b
  <2> QED BY <1>7, <2>1
<1>9. /\ x \in Addr /\ Peek(x) = Lo(w) /\ Peek(x + 1) = Hi(w)
  <2>1. 1 \in 1 .. LineSize(i) /\ 2 \in 1 .. LineSize(i)
    BY <1>7
  <2>2. (x + 1) - 1 = x /\ (x + 2) - 1 = x + 1
    BY <1>8
  <2> HIDE DEF x, w, b
  <2> QED BY <1>7, <1>8, <2>1, <2>2
<1>10. ASSUME LineSize(i) = 4
       PROVE  Peek(x + 2) = Lo(Line(i)[3]) /\ Peek((x + 2) + 1) = Hi(Line(i)[3])
  <2>1. 3 \in 1 .. LineSize(i) /\ 4 \in 1 .. LineSize(i)
    BY <1>10
  <2>2. (x + 3) - 1 = x + 2 /\ (x + 4) - 1 = (x + 2) + 1
    BY <1>8
  <2> HIDE DEF x, w, b
  <2> QED BY <1>7, <1>8, <1>10, <2>1, <2>2
<1>11. WordAt(x) = w /\ (LineSize(i) = 4 => WordAt(x + 2) = Line(i)[3])
  <2> HIDE DEF x, w
  <2> QED BY <1>7, <1>9, <1>10, WordBytes DEF WordAt
<1>12. ASSUME i + 1 \in Lines
       PROVE  U16(x + LineSize(i)) = At(i + 1)
  <2>1. i + 1 # 1 /\ (i + 1) - 1 = i
    BY DEF Lines
  <2>2. At(i + 1) = x + LineSize(i)
    <3>1. At(i + 1) = IF i + 1 = 1 THEN 0 ELSE At((i + 1) - 1) + Len(BytesOf(p[(i + 1) - 1]))
      BY <1>2, <1>12, AddressesAre DEF At, Lines, IsText
    <3> QED BY <1>7, <2>1, <3>1 DEF Line
  <2>3. At(i + 1) \in Addr
    <3> DEFINE size == Len(BytesOf(p[i + 1]))
    <3>1. size \in {2, 4}
      BY <1>3, <1>12, LineHolds DEF Lines, Size
    <3>2. /\ At(i + 1) \in Nat
          /\ \A j \in 1 .. size : (At(i + 1) + j) - 1 \in Addr
      BY <1>6, <1>12 DEF Lines
    <3> HIDE DEF size
    <3>3. 1 \in 1 .. size
      BY <3>1
    <3>4. (At(i + 1) + 1) - 1 \in Addr
      BY <3>2, <3>3
    <3> QED BY <3>2, <3>4
  <2>4. U16(At(i + 1)) = At(i + 1)
    BY <2>3, AddrBounds DEF U16
  <2> QED BY <2>2, <2>4
<1> QED BY <1>9, <1>11, <1>12

\* Where the handler h of the opcode op takes ip, unless execute returns.
Going(h, op) ==
  \/ /\ h \notin {"lds", "sts", "jmp", "call", "ijmp", "ret", "abrk"}
     /\ ip' = U16(ip + 2)
  \/ h \in {"lds", "sts"} /\ ip' = U16(ip + 4)
  \/ h \in {"cpse", "sbrc", "sbrs"} /\ \E skip : ip' = SkipIf(skip)
  \/ h \in {"branchs", "branchc"} /\ ip' = BranchTarget(ip, op)
  \/ h \in {"jmp", "call"} /\ ip' = WordAt(ip + 2)
  \/ h \in {"ijmp", "icall"} /\ ip' = IndirectTarget
  \/ h = "ret"

\* Every handler.
LEMMA ExecuteGoes ==
  ASSUME Execute
  PROVE  phase' = "exit" \/ Going(Instruction, WordAt(ip))
<1> DEFINE op == WordAt(ip)
           h == Instruction
           Done == phase' = "exit" \/ Going(h, op)
           Straight == h \notin {"lds", "sts", "jmp", "call", "ijmp", "ret", "abrk"}
<1>1. \A r, s : Compute(r, s) /\ Straight => Done
  BY DEF Compute, Finish, Going
<1>2. \A next : Goto(next) => ip' = next
  BY DEF Goto, Finish
<1>3. Stop => Done
  BY DEF Stop
<1>4. Done <=> phase' = "exit" \/ Going(h, op)
  OBVIOUS
<1> SUFFICES Done
  OBVIOUS
<1> HIDE DEF op, h, Straight, Done
<1>5. CASE \/ (h = "adc" /\ Adc(op)) \/ (h = "add" /\ Add(op))
           \/ (h = "sub" /\ Sub(op)) \/ (h = "subi" /\ Subi(op))
           \/ (h = "sbc" /\ Sbc(op)) \/ (h = "sbci" /\ Sbci(op))
           \/ (h = "and" /\ And(op)) \/ (h = "andi" /\ Andi(op))
           \/ (h = "cbr" /\ Cbr(op)) \/ (h = "or" /\ Or(op))
           \/ (h = "ori" /\ Ori(op)) \/ (h = "eor" /\ Eor(op))
           \/ (h = "com" /\ Com(op)) \/ (h = "neg" /\ Neg(op))
           \/ (h = "inc" /\ Inc(op)) \/ (h = "dec" /\ Dec(op))
           \/ (h = "asr" /\ Asr(op)) \/ (h = "lsr" /\ Lsr(op))
           \/ (h = "ror" /\ Ror(op)) \/ (h = "swap" /\ Swap(op))
           \/ (h = "ldi" /\ Ldi(op)) \/ (h = "mov" /\ Mov(op))
           \/ (h = "bld" /\ Bld(op))
  <2>1. Straight
    BY <1>5 DEF Straight
  <2>2. \A d, res : ToReg(d, res) => Done
    BY <1>1, <2>1 DEF ToReg
  <2> QED
    BY <1>5, <2>2
       DEF Add, Adc, Sub, Subi, Sbc, Sbci, And, Andi, Cbr, Or, Ori, Eor, Com,
           Neg, Inc, Dec, Asr, Lsr, Ror, Swap, Ldi, Mov, Bld
<1>6. CASE \/ (h = "adiw" /\ Adiw(op)) \/ (h = "sbiw" /\ Sbiw(op))
           \/ (h = "mul" /\ Mul(op)) \/ (h = "muls" /\ Muls(op))
           \/ (h = "movw" /\ Movw(op)) \/ (h = "cp" /\ Cp(op))
           \/ (h = "cpc" /\ Cpc(op)) \/ (h = "cpi" /\ Cpi(op))
           \/ (h = "bset" /\ Bset(op)) \/ (h = "bclr" /\ Bclr(op))
           \/ (h = "bst" /\ Bst(op)) \/ (h = "nop" /\ Nop(op))
           \/ (h = "lddx" /\ Lddx(op)) \/ (h = "lddy" /\ Lddy(op))
  <2>1. Straight
    BY <1>6 DEF Straight
  <2> QED
    BY <1>1, <1>3, <1>6, <2>1
       DEF ToPair, Adiw, Sbiw, Mul, Muls, Movw, Cp, Cpc, Cpi, Bset, Bclr, Bst, Nop,
           Lddx, Lddy, LoadIndirect
<1>7. CASE (h = "stdx" /\ Stdx(op)) \/ (h = "stdy" /\ Stdy(op))
  <2>1. Straight
    BY <1>7 DEF Straight
  <2>2. \A a, v, r : Store(a, v, r) => Done
    BY <1>4, <2>1 DEF Store, Finish, Going, Straight
  <2> QED BY <1>1, <1>7, <2>1, <2>2 DEF Stdx, Stdy, StoreIndirect
<1>8. CASE (h = "push" /\ Push(op)) \/ (h = "pop" /\ Pop(op))
  BY <1>4, <1>8 DEF Push, Pop, Finish, Going
<1>9. CASE \/ (h = "sbrc" /\ Sbrc(op)) \/ (h = "sbrs" /\ Sbrs(op))
           \/ (h = "cpse" /\ Cpse(op))
  <2>1. \E skip : ip' = SkipIf(skip)
    BY <1>2, <1>9 DEF Sbrc, Sbrs, Cpse, Finish
  <2> QED BY <1>4, <1>9, <2>1 DEF Going
<1>10. CASE (h = "branchs" /\ Branchs(op)) \/ (h = "branchc" /\ Branchc(op))
  <2>1. ip' = BranchTarget(ip, op) \/ ip' = U16(ip + 2)
    BY <1>2, <1>10 DEF Branchs, Branchc, BranchIf
  <2> QED BY <1>4, <1>10, <2>1 DEF Going
<1>11. CASE \/ (h = "jmp" /\ Jmp(op)) \/ (h = "ijmp" /\ Ijmp(op))
            \/ (h = "call" /\ Call(op)) \/ (h = "icall" /\ Icall(op))
            \/ (h = "lds" /\ Lds(op)) \/ (h = "sts" /\ Sts(op)) \/ (h = "ret" /\ Ret(op))
  BY <1>4, <1>2, <1>11 DEF Jmp, Ijmp, Call, Icall, CallTo, Lds, Sts, Finish, Going
<1>12. CASE (h = "abrk" /\ Abrk(op)) \/ (h = "unknown" /\ Unknown)
  BY <1>4, <1>3, <1>12 DEF Abrk, Unknown
<1> QED
  BY <1>5, <1>6, <1>7, <1>8, <1>9, <1>10, <1>11, <1>12
     DEF Execute, Instruction, h, op

\* The places of the lines.
LEMMA LinesAreBoundaries ==
  ASSUME program \in Whole
  PROVE  /\ Boundary[program] = Boundaries(Programs[program])
         /\ \A x : x \in Boundary[program] <=> \E i \in Lines : x = At(i)
BY DEF Whole, Boundary, Boundaries, At, Lines

\* What the emulator fetches at a line is that line.
LEMMA LineFetched ==
  ASSUME program \in Whole, CodeIntact, NEW i \in Lines
  PROVE  LET m  == Line(i)[1]
             t  == TypeOf(m)
             op == WordAt(At(i))
         IN  /\ t \in Types /\ m \in DOMAIN Mnemonics[t]
             /\ Meant(m, Handler(op))
             /\ TwoWords(op) <=> LineSize(i) = 4
             /\ Connected(Programs[program], i)
             /\ t \in {"BRANCH", "BR_BIT"} =>
                  \A from \in Int : BranchTarget(from, op) = U16(from + Line(i)[3])
<1> DEFINE m == Line(i)[1]
           t == TypeOf(m)
           op == WordAt(At(i))
<1>1. Assembles(Line(i)) /\ Connected(Programs[program], i)
  BY DEF Whole, WellFormed, Line, Lines
<1>2. op = WordOf(Line(i))
  BY LineFound
<1>3. /\ t \in Types /\ m \in DOMAIN Mnemonics[t]
      /\ ReadRight(t, m, <<Line(i)[2], Line(i)[3]>>, op)
  BY <1>1, <1>2, LineHolds
<1> HIDE DEF m, t, op
<1>4. /\ Serves(t, m, op)
      /\ t \in {"BRANCH", "BR_BIT"} =>
           \A from \in Int : BranchTarget(from, op) = U16(from + Line(i)[3])
  BY <1>3 DEF ReadRight
<1> QED BY <1>1, <1>3, <1>4 DEF Serves, LineSize, m, t, op

\* A skip passes one whole line.
LEMMA SkipLands ==
  ASSUME program \in Whole, CodeIntact, NEW i \in Lines, ip = At(i), LineSize(i) = 2,
         i + 1 \in Lines, i + 2 \in Lines, NEW skip
  PROVE  SkipIf(skip) \in Boundary[program]
<1> DEFINE next == U16(ip + 2)
<1>1. next = At(i + 1)
  BY LineFound
<1>2. /\ TwoWords(WordAt(next)) <=> LineSize(i + 1) = 4
      /\ LineSize(i + 1) \in {2, 4}
  BY <1>1, LineFetched DEF LineSize, Size
<1>3. U16(next + LineSize(i + 1)) = At(i + 2)
  <2>1. (i + 1) + 1 = i + 2
    BY DEF Lines
  <2> QED BY <1>1, <2>1, LineFound
<1>4. SkipIf(skip) = next \/ SkipIf(skip) = U16(next + LineSize(i + 1))
  BY <1>2 DEF SkipIf
<1> QED BY <1>1, <1>3, <1>4, LinesAreBoundaries

\* An instruction that starts at a line goes on at a line, if the program is
\* disciplined and the frames return to lines.
LEMMA ExecuteLands ==
  ASSUME MachineTypeOK, FramesInv, Disciplined, [TraceNext]_traceVars, Executes,
         ip \in Boundary[program], \A f \in frames : f.return \in Boundary[program]
  PROVE  phase' = "exit" \/ ip' \in Boundary[program]
<1> SUFFICES ASSUME phase' # "exit" PROVE ip' \in Boundary[program]
  OBVIOUS
<1>1. program \in Whole /\ CodeIntact /\ phase = "exec" /\ Matched /\ Aimed
  BY DEF Disciplined, Executes
<1>2. PICK i \in Lines : ip = At(i)
  BY <1>1, LinesAreBoundaries
<1> DEFINE m == Line(i)[1]
           t == TypeOf(m)
           op == WordAt(ip)
           h == Instruction
<1>3. /\ t \in Types /\ m \in DOMAIN Mnemonics[t]
      /\ Meant(m, h)
      /\ Connected(Programs[program], i)
      /\ t \in {"BRANCH", "BR_BIT"} =>
           \A from \in Int : BranchTarget(from, op) = U16(from + Line(i)[3])
  BY <1>1, <1>2, LineFetched DEF Instruction
<1>4. Going(h, op)
  BY OnlyExecute, ExecuteGoes
<1>5. /\ LineSize(i) \in {2, 4} /\ LineSize(i) = Size(t)
      /\ LineSize(i) = 4 <=> h \in {"lds", "sts", "jmp", "call"}
      /\ h \in {"cpse", "sbrc", "sbrs"} => m \in Skips
      /\ h \in {"branchs", "branchc"} => t \in {"BRANCH", "BR_BIT"}
      /\ h = "jmp" => m = "Jump"
      /\ h = "call" => m = "Call"
      /\ m \in Departs => h \in {"jmp", "ijmp", "ret", "abrk"}
  <2>1. LineSize(i) = Size(t) /\ Size(t) \in {2, 4}
    BY DEF LineSize, Size
  <2> HIDE DEF m, t, h
  <2> QED BY <1>3, <2>1, HandlerTells, LineTells
<1>6. /\ m \notin Departs => i + 1 \in Lines
      /\ m \in Skips => i + 2 \in Lines
      /\ m \in {"Jump", "Call"} => Line(i)[3] \in Boundary[program]
      /\ t \in {"BRANCH", "BR_BIT"} => U16(ip + Line(i)[3]) \in Boundary[program]
  BY <1>1, <1>2, <1>3, LinesAreBoundaries DEF Connected, Line, At, Lines
<1>7. ip \in Int
  BY AddrBounds DEF MachineTypeOK
<1>8. i + 1 \in Lines => U16(ip + LineSize(i)) \in Boundary[program]
  BY <1>1, <1>2, LineFound, LinesAreBoundaries
<1> HIDE DEF m, t, op
<1>9. CASE /\ h \notin {"lds", "sts", "jmp", "call", "ijmp", "ret", "abrk"}
           /\ ip' = U16(ip + 2)
  BY <1>5, <1>6, <1>8, <1>9
<1>10. CASE h \in {"lds", "sts"} /\ ip' = U16(ip + 4)
  BY <1>5, <1>6, <1>8, <1>10
<1>11. CASE h \in {"cpse", "sbrc", "sbrs"} /\ \E skip : ip' = SkipIf(skip)
  BY <1>1, <1>2, <1>5, <1>6, <1>11, SkipLands
<1>12. CASE h \in {"branchs", "branchc"} /\ ip' = BranchTarget(ip, op)
  BY <1>3, <1>5, <1>6, <1>7, <1>12
<1>13. CASE h \in {"jmp", "call"} /\ ip' = WordAt(ip + 2)
  <2>1. WordAt(ip + 2) = Line(i)[3]
    BY <1>1, <1>2, <1>5, <1>13, LineFound
  <2> QED BY <1>5, <1>6, <1>13, <2>1
<1>14. CASE h \in {"ijmp", "icall"} /\ ip' = IndirectTarget
  BY <1>1, <1>14 DEF Aimed
<1>15. CASE h = "ret"
  BY <1>1, <1>15, ReturnGoesBack DEF Matched
<1> QED
  BY <1>4, <1>9, <1>10, <1>11, <1>12, <1>13, <1>14, <1>15 DEF Going

\* A call returns to the line after it.
LEMMA CalledLands ==
  ASSUME Disciplined, ip \in Boundary[program], NEW f \in Called
  PROVE  f.return \in Boundary[program]
<1>1. program \in Whole /\ CodeIntact
  BY DEF Disciplined
<1>2. PICK i \in Lines : ip = At(i)
  BY <1>1, LinesAreBoundaries
<1> DEFINE m == Line(i)[1]
           t == TypeOf(m)
           h == Instruction
<1>3. t \in Types /\ m \in DOMAIN Mnemonics[t] /\ Meant(m, h) /\ Connected(Programs[program], i)
  BY <1>1, <1>2, LineFetched DEF Instruction
<1>4. h \in {"call", "icall"} /\ f.return = U16(ip + (IF h = "call" THEN 4 ELSE 2))
  BY DEF Called
<1>5. LineSize(i) = (IF h = "call" THEN 4 ELSE 2) /\ m \notin Departs
  <2>1. LineSize(i) = Size(t) /\ Size(t) \in {2, 4}
    BY DEF LineSize, Size
  <2> HIDE DEF m, t, h
  <2> QED BY <1>3, <1>4, <2>1, HandlerTells, LineTells
<1>6. i + 1 \in Lines
  BY <1>3, <1>5 DEF Connected, Line, Lines
<1> QED BY <1>1, <1>2, <1>4, <1>5, <1>6, LineFound, LinesAreBoundaries

\* The emulator is at a line, and every call left the address of one.
Landing ==
  /\ phase # "exit" => ip \in Boundary[program]
  /\ \A f \in frames : f.return \in Boundary[program]

\* No step leaves the lines.
LEMMA LandingKept ==
  ASSUME TypeOK, FramesInv, Disciplined, Landing, [TraceNext]_traceVars
  PROVE  Landing'
<1>1. CASE UNCHANGED traceVars
  BY <1>1 DEF traceVars, vars, cpuVars, Landing
<1>2. CASE TraceNext
  <2>1. Boundary[program]' = Boundary[program] /\ frames' = Kept \cup Called
    BY <1>2 DEF TraceNext, Trace, Boundary
  <2>2. ASSUME NEW g \in Kept PROVE g.return \in Boundary[program]
    <3>1. PICK f \in frames :
            g = [f EXCEPT !.intact = @ /\ Unchanged(f.sp) /\ Unchanged(f.sp - 1)]
      BY DEF Kept
    <3>2. f.return \in Boundary[program] /\ FrameOK(f)
      BY DEF Landing, FramesInv
    <3> QED BY <3>1, <3>2 DEF FrameOK
  <2>3. ASSUME NEW g \in Called PROVE g.return \in Boundary[program]
    <3>1. phase # "exit"
      BY DEF Called, Executes
    <3> QED BY <3>1, CalledLands DEF Landing
  <2>4. phase' # "exit" => ip' \in Boundary[program]
    <3>1. CASE Execute
      <4>1. phase = "exec" /\ phase' # "exec"
        BY <3>1, ExecuteEnds DEF Ended
      <4> QED BY <1>2, <4>1, ExecuteLands DEF Executes, Landing, TypeOK
    <3>2. CASE RunIo
      <4>1. ip' = ip
        BY <3>2, RunIoStores DEF OnlyDevices, cpuVars
      <4>2. phase # "exit"
        BY <3>2 DEF RunIo, ToggleRegisters, ClearText, BreakKey, PauseKey, StepKey,
           PlainKey, Resume, Stepper, Devices, Poll
      <4> QED BY <4>1, <4>2 DEF Landing
    <3>3. CASE User
      BY <3>3 DEF User, Type, Landing, cpuVars
    <3> QED BY <1>2, <3>1, <3>2, <3>3 DEF TraceNext, Next, Emulator
  <2> QED BY <2>1, <2>2, <2>3, <2>4 DEF Landing
<1> QED BY <1>1, <1>2

\* The first line is at address 0.
LEMMA LandingInit == TraceInit /\ Disciplined => Landing
<1> SUFFICES ASSUME TraceInit, Disciplined PROVE Landing
  OBVIOUS
<1>1. program \in Whole /\ program \in DOMAIN Programs /\ ip = 0 /\ frames = {}
  BY DEF TraceInit, Init, MachineInit, Disciplined
<1>2. 1 \in Lines /\ Len(Programs[program]) \in Nat
  BY <1>1, ProgramsAssumption DEF Lines
<1>3. At(1) = 0
  BY <1>2, AddressesAre DEF At, Lines
<1> QED BY <1>1, <1>2, <1>3, LinesAreBoundaries DEF Landing

\* A program that is whole and leaves its code, its return addresses and its
\* indirect targets in order is executed line by line.
THEOREM LinesAreEntered == TraceSpec /\ []Disciplined => []OnBoundary
<1>1. TraceInit => Init /\ FramesInv
  BY DEF TraceInit, FramesInv
<1>2. [TraceNext]_traceVars => [Next]_vars
  BY DEF TraceNext, traceVars
<1>3. TypeOK /\ FramesInv /\ [TraceNext]_traceVars => FramesInv'
  BY FramesKept DEF TypeOK
<1>4. TypeOK /\ FramesInv /\ Disciplined /\ Landing /\ [TraceNext]_traceVars => Landing'
  BY LandingKept
<1>5. Landing => OnBoundary
  BY DEF Landing, OnBoundary
<1> QED
  BY <1>1, <1>2, <1>3, <1>4, <1>5, InitTypeOK, NextTypeOK, LandingInit, PTL DEF TraceSpec
=============================================================================
