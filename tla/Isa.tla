--------------------------------- MODULE Isa ---------------------------------
(***************************************************************************)
(* The instruction set, as its two readers know it: the assembler's table  *)
(* of mnemonics (opcode.c) with the places get_operand gives the operands  *)
(* (operand.c), and the emulator's chain of masks (execute.c), which the   *)
(* first match ends.  Neither file includes the other.                     *)
(***************************************************************************)
EXTENDS Word, Sequences

------------------------------------------------------------------------------
\* runheader.h: the parts of an opcode that the dispatch masks keep.
Masked(mask, op) ==
  CASE mask = "IMP"  -> op
    [] mask = "DRD"  -> op - (op % 256)
    [] mask = "BRCH" -> op - (op % 1024)
    [] mask = "IMM"  -> op - (op % 4096)
    [] mask = "DRS"  -> op - (16 * ((op \div 16) % 16))
    [] mask = "BIT"  -> op - (16 * ((op \div 16) % 8))
    [] mask = "LSB"  -> op - (op % 256) + (8 * ((op \div 8) % 2))
    [] mask = "LDD"  -> op - (op % 256) + (4 * ((op \div 4) % 4))

\* execute: the chain of else-ifs, in its order.
Rules == <<
  <<"adc", "DRD", \h1c00>>,     <<"add", "DRD", \h0c00>>,
  <<"abrk", "IMP", \h9598>>,    <<"adiw", "DRD", \h9600>>,
  <<"and", "DRD", \h2000>>,     <<"andi", "IMM", \h7000>>,
  <<"asr", "DRS", \h9405>>,     <<"bclr", "BIT", \h9488>>,
  <<"bld", "LSB", \hf800>>,     <<"branchc", "BRCH", \hf400>>,
  <<"branchs", "BRCH", \hf000>>, <<"bset", "BIT", \h9408>>,
  <<"bst", "LSB", \hfa00>>,     <<"cbr", "IMM", \hc000>>,
  <<"call", "IMP", \h940e>>,    <<"com", "DRS", \h9400>>,
  <<"cp", "DRD", \h1400>>,      <<"cpc", "DRD", \h0400>>,
  <<"cpi", "IMM", \h3000>>,     <<"cpse", "DRD", \h1000>>,
  <<"dec", "DRS", \h940a>>,     <<"eor", "DRD", \h2400>>,
  <<"icall", "IMP", \h9509>>,   <<"ijmp", "IMP", \h9409>>,
  <<"inc", "DRS", \h9403>>,     <<"jmp", "IMP", \h940c>>,
  <<"lddx", "LDD", \h900c>>,    <<"lddy", "LDD", \h9008>>,
  <<"ldi", "IMM", \he000>>,     <<"lds", "DRS", \h9000>>,
  <<"lsl", "DRD", \h0c00>>,     <<"lsr", "DRS", \h9406>>,
  <<"mov", "DRD", \h2c00>>,     <<"movw", "DRD", \h0100>>,
  <<"mul", "DRD", \h9c00>>,     <<"muls", "DRD", \h0200>>,
  <<"neg", "DRS", \h9401>>,     <<"nop", "IMP", \h0000>>,
  <<"or", "DRD", \h2800>>,      <<"ori", "IMM", \h6000>>,
  <<"pop", "DRS", \h9203>>,     <<"push", "DRS", \h920f>>,
  <<"ret", "IMP", \h9508>>,     <<"ror", "DRS", \h9407>>,
  <<"sbc", "DRD", \h0800>>,     <<"sbci", "IMM", \h4000>>,
  <<"sbiw", "DRD", \h9700>>,    <<"sbr", "IMM", \h6000>>,
  <<"sbrc", "LSB", \hfc00>>,    <<"sbrs", "LSB", \hfe00>>,
  <<"ser", "DRS", \hef0f>>,     <<"stdx", "LDD", \h920c>>,
  <<"stdy", "LDD", \h9208>>,    <<"sts", "DRS", \h9200>>,
  <<"sub", "DRD", \h1800>>,     <<"subi", "IMM", \h5000>>,
  <<"swap", "DRS", \h9402>> >>

Matches(i, op) == Masked(Rules[i][2], op) = Rules[i][3]

\* Mutant of Handler: the last match wins.
HandlerLast(op) ==
  LET last == {i \in DOMAIN Rules :
                 Matches(i, op) /\ \A j \in (i + 1) .. Len(Rules) : ~ Matches(j, op)}
  IN  IF last = {} THEN "unknown" ELSE Rules[CHOOSE i \in last : TRUE][1]

\* The handler execute calls, "unknown" at its last else.
Handler(op) ==
  LET first == {i \in DOMAIN Rules :
                  Matches(i, op) /\ \A j \in 1 .. (i - 1) : ~ Matches(j, op)}
  IN  IF first = {} THEN "unknown" ELSE Rules[CHOOSE i \in first : TRUE][1]

\* Mutant of TwoWords: loads are short.
TwoWordsNoLoad(op) ==
  op \in {\h940e, \h940c} \/ Masked("DRS", op) = \h9200

\* check_32: is the instruction at hand one of those with a second word?
TwoWords(op) ==
  \/ op \in {\h940e, \h940c}
  \/ Masked("DRS", op) \in {\h9200, \h9000}

\* The operand fields the handlers read: registers d and r, a byte k, the
\* pair and the constant of the word instructions, a bit of a register, a
\* bit of sreg, and the 7 bits of a branch.
D(op)        == (op \div 16) % 16
R(op)        == op % 16
K(op)        == (op % 16) + (16 * ((op \div 256) % 16))
WordReg(op)  == 8 + (2 * ((op \div 16) % 4))
WordK(op)    == (op % 16) + (16 * ((op \div 64) % 4))
RegBit(op)   == op % 8
SregBit(op)  == (op \div 16) % 8
BranchK(op)  == (op \div 8) % 128
IndexMode(op) == op % 4

\* Mutant of BranchTarget: a branch back falls short by one.
BranchTargetShort(ip, op) ==
  IF BranchK(op) < 64 THEN U16(ip + BranchK(op))
                      ELSE U16(ip - (127 - BranchK(op)))

\* Where a taken branch at address ip goes: 7 bits, read as a signed number.
BranchTarget(ip, op) ==
  IF BranchK(op) < 64 THEN U16(ip + BranchK(op))
                      ELSE U16(ip - (128 - BranchK(op)))

------------------------------------------------------------------------------
\* opcode.c: the instructions of ins[], by operand type.  The directives of
\* the table (.db, .dw, .equ) emit data, not instructions.
Mnemonics == [
  DIR_SING |-> [ArithShiftRt |-> \h9405, Compliment |-> \h9400,
    Decrement |-> \h940a, Increment |-> \h9403, LogicalShiftRt |-> \h9406,
    Negate |-> \h9401, Pop |-> \h9203, Push |-> \h920f,
    RotateRight |-> \h9407, SetAllReg |-> \hef0f, Swap |-> \h9402],
  DIR_DUAL |-> [AddWithC |-> \h1c00, Add |-> \h0c00, And |-> \h2000,
    Compare |-> \h1400, CompareCarry |-> \h0400, CompareSkipEqu |-> \h1000,
    ExclusiveOr |-> \h2400, Move |-> \h2c00, Multiply |-> \h9c00,
    MultiplyS |-> \h0200, Or |-> \h2800, SubtractWithC |-> \h0800,
    Subtract |-> \h1800],
  DIR_STD |-> [ClearReg |-> \h2400, LogicalShiftLt |-> \h0c00,
    RotateLeft |-> \h1c00, TestZero |-> \h2000],
  DIR_WORD |-> [MoveWord |-> \h0100],
  IMM_BYTE |-> [AndImm |-> \h7000, ClearBitsReg |-> \hc000,
    CompareImm |-> \h3000, LoadImm |-> \he000, OrImm |-> \h6000,
    SubtractImmC |-> \h4000, SetBitsReg |-> \h6000, SubtractImm |-> \h5000],
  IMM_WORD |-> [AddImmWord |-> \h9600, SubtractImmWord |-> \h9700],
  BRANCH |-> [BranchCarryClr |-> \hf400, BranchCarrySet |-> \hf000,
    BranchEqu |-> \hf001, BranchGrEqu |-> \hf404, brid |-> \hf407,
    brie |-> \hf007, BranchLower |-> \hf000, BranchLessThan |-> \hf004,
    BranchMinus |-> \hf002, BranchNotEqu |-> \hf401, BranchPlus |-> \hf402,
    BranchSameHigh |-> \hf400, BranchTClr |-> \hf406, BranchTSet |-> \hf006,
    BranchOverClr |-> \hf403, BranchOverSet |-> \hf003],
  BR_BIT |-> [BranchBitClr |-> \hf400, BranchBitSet |-> \hf000],
  BIT |-> [BitClear |-> \h9488, BitSetSreg |-> \h9408],
  LDSTR_BIT |-> [BitLoad |-> \hf800, BitStoreT |-> \hfa00,
    SkipBitRegClr |-> \hfc00, SkipBitRegSet |-> \hfe00],
  DIR_32 |-> [Call |-> \h940e, Jump |-> \h940c],
  LD_IND |-> [LoadIndX |-> \h900c, LoadIndY |-> \h9008],
  STR_IND |-> [StoreIndX |-> \h920c, StoreIndY |-> \h9208],
  LD_DIR |-> [LoadDirect |-> \h9000],
  STR_DIR |-> [StoreDirect |-> \h9200],
  IMPLIED |-> [Break |-> \h9598, ClearCarryF |-> \h9488, cli |-> \h94f8,
    ClearNegF |-> \h94a8, ClearSignF |-> \h94c8, ClearTranF |-> \h94e8,
    ClearOverflowF |-> \h94b8, ClearZeroF |-> \h9498, IndCall |-> \h9509,
    IndJump |-> \h9409, NOP |-> \h0000, Return |-> \h9508,
    SetCarryF |-> \h9408, sei |-> \h9478, SetNegF |-> \h9428,
    SetSignF |-> \h9448, SetTranF |-> \h9468, SetOverflowF |-> \h9438,
    SetZeroF |-> \h9418]]

Types == DOMAIN Mnemonics

\* The operands get_operand accepts, as a pair <<first, second>>; the bytes
\* and addresses it is given are the ones of the caller.
Operands(type, bytes, words, displacements) ==
  CASE type \in {"DIR_SING", "DIR_STD"} -> (0 .. 15) \X {0}
    [] type = "DIR_DUAL"  -> (0 .. 15) \X (0 .. 15)
    [] type = "DIR_WORD"  -> {n \in 0 .. 14 : n % 2 = 0}
                               \X {n \in 0 .. 14 : n % 2 = 0}
    [] type = "IMM_BYTE"  -> (0 .. 15) \X bytes
    [] type = "IMM_WORD"  -> {8, 10, 12, 14} \X (0 .. 63)
    [] type = "BRANCH"    -> {0} \X displacements
    [] type = "BR_BIT"    -> (0 .. 7) \X displacements
    [] type = "BIT"       -> (0 .. 7) \X {0}
    [] type = "LDSTR_BIT" -> (0 .. 15) \X (0 .. 7)
    [] type = "DIR_32"    -> {0} \X words
    [] type \in {"LD_IND", "STR_IND"} -> (0 .. 15) \X (0 .. 2)
    [] type \in {"LD_DIR", "STR_DIR"} -> (0 .. 15) \X words
    [] type = "IMPLIED"   -> {<<0, 0>>}

\* The word get_operand and pass 2 of compile or the operands into: every
\* field is zero in the table, so that | adds.
Encode(type, opcode, a, b) ==
  opcode +
  CASE type \in {"DIR_SING", "BIT", "LD_DIR", "STR_DIR"} -> 16 * a
    [] type \in {"DIR_DUAL", "DIR_WORD", "LDSTR_BIT", "LD_IND", "STR_IND"}
                           -> (16 * a) + b
    [] type = "DIR_STD"    -> (16 * a) + a
    [] type = "IMM_BYTE"   -> (16 * a) + (b % 16) + (256 * (b \div 16))
    [] type = "IMM_WORD"   -> (8 * (a - 8)) + (b % 16) + (64 * (b \div 16))
    [] type \in {"BRANCH", "BR_BIT"} -> a + (8 * (b % 128))
    [] type \in {"DIR_32", "IMPLIED"} -> 0

\* line.size: two words for the types that carry an address.
Size(type) == IF type \in {"DIR_32", "LD_DIR", "STR_DIR"} THEN 4 ELSE 2

------------------------------------------------------------------------------
\* What a line of source means, whatever either side makes of it.

\* The handler each mnemonic is for, by the comments of opcode.c.
MeantFor == [
  adc |-> {"AddWithC", "RotateLeft"}, add |-> {"Add", "LogicalShiftLt"},
  abrk |-> {"Break"}, adiw |-> {"AddImmWord"}, and |-> {"And", "TestZero"},
  andi |-> {"AndImm"}, asr |-> {"ArithShiftRt"},
  bclr |-> {"BitClear", "ClearCarryF", "cli", "ClearNegF", "ClearSignF",
            "ClearTranF", "ClearOverflowF", "ClearZeroF"},
  bld |-> {"BitLoad"},
  branchc |-> {"BranchBitClr", "BranchCarryClr", "BranchGrEqu", "brid",
               "BranchNotEqu", "BranchPlus", "BranchSameHigh", "BranchTClr",
               "BranchOverClr"},
  branchs |-> {"BranchBitSet", "BranchCarrySet", "BranchEqu", "brie",
               "BranchLower", "BranchLessThan", "BranchMinus", "BranchTSet",
               "BranchOverSet"},
  bset |-> {"BitSetSreg", "SetCarryF", "sei", "SetNegF", "SetSignF",
            "SetTranF", "SetOverflowF", "SetZeroF"},
  bst |-> {"BitStoreT"}, cbr |-> {"ClearBitsReg"}, call |-> {"Call"},
  com |-> {"Compliment"}, cp |-> {"Compare"}, cpc |-> {"CompareCarry"},
  cpi |-> {"CompareImm"}, cpse |-> {"CompareSkipEqu"}, dec |-> {"Decrement"},
  eor |-> {"ExclusiveOr", "ClearReg"}, icall |-> {"IndCall"},
  ijmp |-> {"IndJump"}, inc |-> {"Increment"}, jmp |-> {"Jump"},
  lddx |-> {"LoadIndX"}, lddy |-> {"LoadIndY"},
  ldi |-> {"LoadImm", "SetAllReg"}, lds |-> {"LoadDirect"},
  lsr |-> {"LogicalShiftRt"}, mov |-> {"Move"}, movw |-> {"MoveWord"},
  mul |-> {"Multiply"}, muls |-> {"MultiplyS"}, neg |-> {"Negate"},
  nop |-> {"NOP"}, or |-> {"Or"}, ori |-> {"OrImm", "SetBitsReg"},
  pop |-> {"Pop"}, push |-> {"Push"}, ret |-> {"Return"},
  ror |-> {"RotateRight"}, sbc |-> {"SubtractWithC"},
  sbci |-> {"SubtractImmC"}, sbiw |-> {"SubtractImmWord"},
  sbrc |-> {"SkipBitRegClr"}, sbrs |-> {"SkipBitRegSet"},
  stdx |-> {"StoreIndX"}, stdy |-> {"StoreIndY"}, sts |-> {"StoreDirect"},
  sub |-> {"Subtract"}, subi |-> {"SubtractImm"}, swap |-> {"Swap"}]

\* What the handlers of each operand type find in an opcode: the operands of
\* its line.  Branches and the second word are no matter of fields.
Found(type, op, operands) ==
  CASE type \in {"DIR_SING", "LD_DIR", "STR_DIR"} -> D(op) = operands[1]
    [] type \in {"DIR_DUAL", "DIR_WORD"} -> <<D(op), R(op)>> = operands
    [] type = "DIR_STD"  -> D(op) = operands[1] /\ R(op) = operands[1]
    [] type = "IMM_BYTE" -> <<D(op), K(op)>> = operands
    [] type = "IMM_WORD" -> <<WordReg(op), WordK(op)>> = operands
    [] type \in {"LD_IND", "STR_IND"} -> <<D(op), IndexMode(op)>> = operands
    [] type = "LDSTR_BIT" -> <<D(op), RegBit(op)>> = operands
    [] type = "BIT"       -> SregBit(op) = operands[1]
    [] type = "BR_BIT"    -> RegBit(op) = operands[1]
    [] type \in {"BRANCH", "DIR_32", "IMPLIED"} -> TRUE
==============================================================================
