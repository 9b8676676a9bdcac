---------------------------- MODULE WordPrograms ----------------------------
(***************************************************************************)
(* Programs that compute on words, as a machine of eight bits has to: the  *)
(* low bytes first, then the high bytes with the carry.  The processor of  *)
(* Cpu runs each of them on words x in r13:r12 and y in r11:r10 and with   *)
(* any status register that the instructions before it may have left;      *)
(* run_io, which touches none of these, is one step that does nothing.     *)
(***************************************************************************)
EXTENDS Cpu, ProgramText

CONSTANTS
  Words,       \* the operands
  Statuses,    \* the status registers the programs start with
  Constant     \* the operand of the immediate instructions

\* Words of 16 bits; six bits hold the constant of adiw and sbiw, and pass 2
\* refuses a larger one.
ASSUME OperandsAssumption == Words \subseteq Addr /\ Constant \in 0 .. 63

LowThenHigh(low, high) ==
  <<<<low, 12, 10>>, <<high, 13, 11>>, <<"Break", 0, 0>>>>
Alone(mnemonic, a, b) == <<<<mnemonic, a, b>>, <<"Break", 0, 0>>>>

Programs == [
  add          |-> LowThenHigh("Add", "AddWithC"),
  subtract     |-> LowThenHigh("Subtract", "SubtractWithC"),
  compare      |-> LowThenHigh("Compare", "CompareCarry"),
  addImm       |-> Alone("AddImmWord", 12, Constant),
  subtractImm  |-> Alone("SubtractImmWord", 12, Constant),
  compareBytes |-> Alone("Compare", 12, 10),
  walk         |-> <<<<"LoadIndX", 0, 1>>, <<"LoadIndX", 0, 2>>,
                     <<"Break", 0, 0>>>>]

VARIABLES
  program,  \* which of them runs
  x, y,     \* its operands
  before    \* the status register it started with

benchVars == <<program, x, y, before>>
vars == <<mem, cpuVars, phase, err, benchVars>>

Init ==
  /\ program \in DOMAIN Programs
  /\ x \in Words /\ y \in Words /\ before \in Statuses
  /\ mem = Loaded(ImageOf(Programs[program]))
  /\ reg = [r \in Reg |-> CASE r = 12 -> Lo(x) [] r = 13 -> Hi(x)
                            [] r = 10 -> Lo(y) [] r = 11 -> Hi(y)
                            [] OTHER  -> 0]
  /\ sreg = before
  /\ ip = 0 /\ sp = StackTop /\ phase = "exec" /\ err = 0

IoDone ==
  /\ phase = "io" /\ phase' = "exec"
  /\ UNCHANGED <<mem, cpuVars, err>>

Next == (Execute \/ IoDone) /\ UNCHANGED benchVars

Spec == Init /\ [][Next]_vars

------------------------------------------------------------------------------
Ended(p) == phase = "exit" /\ program = p
Result == Index(X)

Int16(w) == IF w >= 32768 THEN w - 65536 ELSE w
Int8(b)  == IF b >= 128 THEN b - 256 ELSE b
Word16 == -32768 .. 32767

\* The flags a signed result r, before truncation, has to leave.
SignedFlags(r) ==
  /\ "V" \in sreg <=> r \notin Word16
  /\ "N" \in sreg <=> Result >= 32768
  /\ "S" \in sreg <=> r < 0

\* Add then AddWithC add words: the sum, its carry and its overflow are those
\* of the 16-bit addition, whatever the flags were (execute.c:8-41).
WideAdd ==
  Ended("add") =>
    /\ Result = U16(x + y)
    /\ "C" \in sreg <=> x + y > 65535
    /\ SignedFlags(Int16(x) + Int16(y))

\* Compare then CompareCarry order unsigned words: BranchLower after them is
\* taken exactly when x is below y (execute.c:259-288, opcode.c:52).
WideCompare ==
  Ended("compare") => ("C" \in sreg <=> x < y) /\ Result = x

\* AddImmWord adds to a register pair, with every flag of the addition; so
\* does SubtractImmWord, except that it may not report a zero and that its
\* borrow is right only if no carry was left over (execute.c:44-67, 709-730).
WordImmediate ==
  /\ Ended("addImm") =>
       /\ Result = U16(x + Constant)
       /\ "C" \in sreg <=> x + Constant > 65535
       /\ "Z" \in sreg <=> Result = 0
       /\ SignedFlags(Int16(x) + Constant)
  /\ Ended("subtractImm") =>
       /\ Result = U16(x - Constant)
       /\ SignedFlags(Int16(x) - Constant)
       /\ "Z" \in sreg => "Z" \in before /\ Result = 0
       /\ "C" \notin before => ("C" \in sreg <=> x < Constant)

\* With the carry clear at the start, Subtract then SubtractWithC subtract
\* words: the difference, its borrow and its overflow (execute.c:679-692,
\* 856-867).
WideSubtractFromClear ==
  Ended("subtract") /\ "C" \notin before =>
    /\ Result = U16(x - y)
    /\ "C" \in sreg <=> x < y
    /\ SignedFlags(Int16(x) - Int16(y))

\* "subtract without carry" (opcode.c:199): the difference of two words does
\* not depend on the carry the program had before Subtract.
WideSubtract == Ended("subtract") => Result = U16(x - y)

\* "branch if greater or equal" (opcode.c:46): after Compare, BranchGrEqu
\* tests S, so S says which of the two signed bytes is the smaller.
SignedCompare ==
  Ended("compareBytes") => ("S" \in sreg <=> Int8(Lo(x)) < Int8(Lo(y)))

\* Stepping X forward and then back leaves it where it was, so that -X after
\* X+ reads the same cell and X keeps naming it (instructions.h:12).
WalkReturns == Ended("walk") => Result = x
=============================================================================
