---------------------------- MODULE MCProgramRuns ----------------------------
(***************************************************************************)
(* Programs that between them run every handler of execute, each of the    *)
(* ways execute can end, calls inside calls, a recursion, a copy across a  *)
(* page, and code that overwrites itself.                                  *)
(***************************************************************************)
EXTENDS ProgramRuns

MCLeftover == [c \in Cell |-> 7]

\* Every operation on registers and flags, one after the other.
Operations == <<
  <<"LoadImm", 0, 200>>, <<"LoadImm", 1, 100>>, <<"Add", 0, 1>>,
  <<"AddWithC", 1, 0>>, <<"Subtract", 0, 1>>, <<"SubtractImm", 0, 44>>,
  <<"SubtractWithC", 0, 1>>, <<"SubtractImmC", 0, 1>>, <<"And", 0, 1>>,
  <<"AndImm", 0, 240>>, <<"ClearBitsReg", 1, 4>>, <<"Or", 0, 1>>,
  <<"OrImm", 0, 3>>, <<"SetBitsReg", 1, 130>>, <<"ExclusiveOr", 1, 0>>,
  <<"ClearReg", 2, 0>>, <<"Compliment", 2, 0>>, <<"Negate", 2, 0>>,
  <<"Increment", 2, 0>>, <<"Decrement", 2, 0>>, <<"ArithShiftRt", 2, 0>>,
  <<"SetCarryF", 0, 0>>, <<"RotateRight", 2, 0>>, <<"LogicalShiftRt", 2, 0>>,
  <<"LogicalShiftLt", 2, 0>>, <<"RotateLeft", 2, 0>>, <<"Swap", 1, 0>>,
  <<"Move", 8, 1>>, <<"SetAllReg", 9, 0>>, <<"AddImmWord", 8, 63>>,
  <<"SubtractImmWord", 8, 63>>, <<"Multiply", 8, 9>>, <<"MultiplyS", 8, 9>>,
  <<"MoveWord", 10, 0>>, <<"Compare", 10, 0>>, <<"CompareCarry", 11, 1>>,
  <<"CompareImm", 11, 9>>, <<"BitClear", 1, 0>>, <<"BitSetSreg", 3, 0>>,
  <<"BitStoreT", 9, 7>>, <<"BitLoad", 3, 0>>, <<"ClearTranF", 0, 0>>,
  <<"BitLoad", 9, 0>>, <<"TestZero", 3, 0>>, <<"NOP", 0, 0>>, <<"Break", 0, 0>>>>

\* Skips over long and short lines, branches both ways, jumps, calls.
Flow == <<
  <<"LoadImm", 0, 5>>,            \*  0
  <<"CompareSkipEqu", 0, 0>>,     \*  2  skips
  <<"StoreDirect", 0, 49152>>,    \*  4
  <<"SkipBitRegSet", 0, 0>>,      \*  8  skips
  <<"Jump", 0, 0>>,               \* 10
  <<"SkipBitRegClr", 0, 1>>,      \* 14  skips
  <<"LoadDirect", 0, 0>>,         \* 16
  <<"SkipBitRegClr", 0, 0>>,      \* 20
  <<"SkipBitRegSet", 0, 1>>,      \* 22
  <<"CompareSkipEqu", 0, 1>>,     \* 24
  <<"BranchNotEqu", 0, 4>>,       \* 26  to 30
  <<"Break", 0, 0>>,              \* 28
  <<"Call", 0, 60>>,              \* 30
  <<"LoadImm", 14, 70>>,          \* 34
  <<"LoadImm", 15, 0>>,           \* 36
  <<"IndCall", 0, 0>>,            \* 38  to 70
  <<"BranchTSet", 0, 6>>,         \* 40  falls through
  <<"SetTranF", 0, 0>>,           \* 42
  <<"BranchTSet", 0, 4>>,         \* 44  to 48
  <<"Break", 0, 0>>,              \* 46
  <<"BranchTClr", 0, -2>>,        \* 48  falls through
  <<"LoadImm", 14, 56>>,          \* 50
  <<"IndJump", 0, 0>>,            \* 52  to 56
  <<"Break", 0, 0>>,              \* 54
  <<"Jump", 0, 80>>,              \* 56
  <<"Call", 0, 70>>,              \* 60  the first subroutine
  <<"SkipBitRegSet", 0, 0>>,      \* 64  skips
  <<"Break", 0, 0>>,              \* 66
  <<"Return", 0, 0>>,             \* 68
  <<"Push", 0, 0>>,               \* 70  the second
  <<"Pop", 2, 0>>,                \* 72
  <<"Return", 0, 0>>,             \* 74
  <<"NOP", 0, 0>>, <<"NOP", 0, 0>>,
  <<"Break", 0, 0>>>>             \* 80

\* Three bytes at 0xfe copied to 0x1fe, then every mode of the index
\* registers, on registers that are part of the pair too.
Copy == <<
  <<"LoadImm", 0, 65>>, <<"StoreDirect", 0, 254>>,
  <<"LoadImm", 0, 66>>, <<"StoreDirect", 0, 255>>,
  <<"LoadImm", 0, 67>>, <<"StoreDirect", 0, 256>>,
  <<"LoadImm", 12, 254>>, <<"LoadImm", 13, 0>>,
  <<"LoadImm", 14, 254>>, <<"LoadImm", 15, 1>>, <<"LoadImm", 3, 3>>,
  <<"LoadIndX", 0, 1>>, <<"StoreIndY", 0, 1>>,
  <<"Decrement", 3, 0>>, <<"BranchNotEqu", 0, -6>>,
  <<"LoadDirect", 4, 512>>,
  <<"StoreIndY", 14, 0>>, <<"StoreIndY", 14, 1>>, <<"StoreIndY", 14, 2>>,
  <<"StoreIndY", 14, 3>>, <<"LoadIndY", 5, 0>>, <<"LoadIndY", 5, 1>>,
  <<"LoadIndY", 5, 2>>, <<"LoadIndY", 5, 3>>, <<"LoadIndY", 14, 1>>,
  <<"LoadIndX", 6, 2>>, <<"LoadIndX", 6, 0>>, <<"LoadIndX", 6, 3>>,
  <<"LoadImm", 13, 3>>, <<"StoreIndX", 13, 0>>, <<"StoreIndX", 13, 1>>,
  <<"StoreIndX", 13, 2>>, <<"StoreIndX", 13, 3>>, <<"LoadIndX", 13, 1>>,
  <<"Break", 0, 0>>>>

\* A subroutine that calls itself until r0 is zero, after a pop too many.
Recursion == <<
  <<"Pop", 1, 0>>, <<"LoadImm", 0, 3>>, <<"Call", 0, 10>>, <<"Break", 0, 0>>,
  <<"Push", 0, 0>>, <<"Decrement", 0, 0>>, <<"BranchEqu", 0, 6>>,  \* 10
  <<"Call", 0, 10>>, <<"Pop", 0, 0>>, <<"Return", 0, 0>>>>

\* Code that makes its own last line an opcode no handler takes.
Overwrite == <<
  <<"LoadImm", 0, 255>>, <<"StoreDirect", 0, 12>>, <<"StoreDirect", 0, 13>>,
  <<"NOP", 0, 0>>, <<"NOP", 0, 0>>>>

\* A MoveWord that names r15 as a low register, which no source line can.
Refused == <<<<"MoveWord", 15, 15>>>>

MCPrograms == [operations |-> Operations, flow |-> Flow, copy |-> Copy,
               recursion |-> Recursion, overwrite |-> Overwrite,
               refused |-> Refused]
MCImages == {ImageOf(MCPrograms[p]) : p \in DOMAIN MCPrograms}

\* What the programs leave: the copied bytes and the byte read back, the
\* stack and the register of the recursion, and what execute returns.
Outcomes ==
  phase = "exit" =>
    /\ program = "copy" =>
         /\ <<Peek(510), Peek(511), Peek(512), reg[4]>> = <<65, 66, 67, 67>>
         /\ err = 1
    /\ program = "recursion" => reg[0] = 3 /\ sp = StackTop /\ reg[1] = 7
    /\ program = "flow" => ip = 82 /\ sp = StackTop /\ reg[2] = 5
    /\ program = "overwrite" => ip = 12 /\ err = 0
    /\ program = "refused" => ip = 0 /\ err = 1

\* The three whole programs leave their code alone, return only where a call
\* left the pointer and its cells, and aim their indirect jumps and calls at
\* lines: they are among the programs that never leave their lines, whatever
\* the memory holds besides (execute.c:217-226, 346-357, 651-657).
WholeAreDisciplined == program \in Whole => Disciplined
==============================================================================
