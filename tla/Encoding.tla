------------------------------ MODULE Encoding ------------------------------
(***************************************************************************)
(* The assembler and the emulator share no definition of an opcode: one    *)
(* ors operands into the table of opcode.c, the other takes them out       *)
(* behind its own chain of masks.  A line of source is picked, encoded,    *)
(* and looked at as execute and check_32 look at it.                       *)
(***************************************************************************)
EXTENDS Isa

CONSTANTS
  Constants,      \* values of the immediate operands
  Words,          \* addresses
  Displacements   \* distances from a branch to its label

\* A constant is masked to a byte and an address to a word, and a label whose
\* distance does not fit in seven bits is refused (parse.c:281-316).
ASSUME EncodingAssumption ==
  /\ Constants \subseteq Byte /\ Words \subseteq Addr
  /\ Displacements \subseteq -64 .. 63

\* common.h: the opcode of a line that holds none.
NOCODE == \hffff

VARIABLES type, mnemonic, operands, word, read

vars == <<type, mnemonic, operands, word, read>>

Init ==
  /\ type \in Types
  /\ mnemonic \in DOMAIN Mnemonics[type]
  /\ operands = <<>> /\ word = NOCODE /\ read = "no"

Assemble ==
  /\ read = "no" /\ operands = <<>>
  /\ operands' \in Operands(type, Constants, Words, Displacements)
  /\ word' = Encode(type, Mnemonics[type][mnemonic], operands'[1], operands'[2])
  /\ UNCHANGED <<type, mnemonic, read>>

Decode ==
  /\ read = "no" /\ operands # <<>>
  /\ read' = Handler(word)
  /\ UNCHANGED <<type, mnemonic, operands, word>>

Next == Assemble \/ Decode
Spec == Init /\ [][Next]_vars

------------------------------------------------------------------------------
\* Every line of source reaches the handler its mnemonic is for, first of all
\* the handlers whose mask it matches, and the handler reads the operands of
\* the line; and no line has the opcode write_asm takes for a line without
\* code (execute.c:910-1161, operand.c:83-717, write.c:107).
DecodesAsWritten ==
  /\ operands # <<>> => word # NOCODE
  /\ read # "no" =>
       /\ read \in DOMAIN MeantFor /\ mnemonic \in MeantFor[read]
       /\ Found(type, word, operands)

\* A skip passes exactly the instruction after it: check_32 takes an opcode
\* for a long one if and only if the assembler gave it four bytes
\* (run_misc.c:67-77, operand.c:471-494, 604-717).
SkipsWholeLines == operands # <<>> => (TwoWords(word) <=> Size(type) = 4)

\* A branch comes out at its label, forward and backward, to the last of the
\* 128 distances and around the end of the address space (execute.c:143-184,
\* parse.c:281-290).
BranchesReachLabels ==
  operands # <<>> /\ type \in {"BRANCH", "BR_BIT"} =>
    \A from \in Words : BranchTarget(from, word) = U16(from + operands[2])
=============================================================================
