----------------------------- MODULE ProgramText -----------------------------
(***************************************************************************)
(* Programs as the assembler writes them, for the runs: a sequence of      *)
(* instructions <<mnemonic, a, b>>, placed one after the other from        *)
(* address 0, each word low byte first.                                    *)
(***************************************************************************)
EXTENDS Isa

Flat == INSTANCE SequencesExt

TypeOf(mnemonic) == CHOOSE t \in Types : mnemonic \in DOMAIN Mnemonics[t]

WordOf(ins) ==
  LET type == TypeOf(ins[1])
  IN  Encode(type, Mnemonics[type][ins[1]], ins[2], ins[3])

\* The bytes write_asm writes for one line of code.
BytesOf(ins) ==
  LET w == WordOf(ins)
  IN  IF Size(TypeOf(ins[1])) = 4
      THEN <<Lo(w), Hi(w), Lo(ins[3]), Hi(ins[3])>> ELSE <<Lo(w), Hi(w)>>

ImageOf(program) ==
  LET bytes == Flat!FlattenSeq([i \in DOMAIN program |-> BytesOf(program[i])])
  IN  [a \in 0 .. (Len(bytes) - 1) |-> bytes[a + 1]]

\* The addresses pass 1 of compile gives the lines.
Addresses(program) ==
  LET size(i) == Len(BytesOf(program[i]))
      address[i \in 1 .. Len(program)] ==
        IF i = 1 THEN 0 ELSE address[i - 1] + size(i - 1)
  IN  address

Boundaries(program) == {Addresses(program)[i] : i \in 1 .. Len(program)}
------------------------------------------------------------------------------
\* The programs that are whole: each line is one get_operand accepts (the
\* label of a branch is in reach), each label a line, and after every line the
\* emulator can go on from there is a line, after a skip there are two.

Assembles(ins) ==
  /\ \E t \in Types : ins[1] \in DOMAIN Mnemonics[t]
  /\ <<ins[2], ins[3]>> \in Operands(TypeOf(ins[1]), Byte, Addr, -64 .. 63)

Departs == {"Jump", "IndJump", "Return", "Break"}
Skips   == {"CompareSkipEqu", "SkipBitRegClr", "SkipBitRegSet"}

Connected(program, i) ==
  LET m == program[i][1]
      to == program[i][3]
  IN  /\ m \notin Departs => i + 1 \in 1 .. Len(program)
      /\ m \in Skips => i + 2 \in 1 .. Len(program)
      /\ m \in {"Jump", "Call"} => to \in Boundaries(program)
      /\ TypeOf(m) \in {"BRANCH", "BR_BIT"} =>
           U16(Addresses(program)[i] + to) \in Boundaries(program)

WellFormed(program) ==
  /\ DOMAIN ImageOf(program) \subseteq Addr
  /\ \A i \in 1 .. Len(program) : Assembles(program[i]) /\ Connected(program, i)
=============================================================================
