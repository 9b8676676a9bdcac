--------------------------- MODULE EncodingProofs ---------------------------
(***************************************************************************)
(* The assembler and the emulator agree on every opcode, for every value   *)
(* of the constants and not only those of the run: every mnemonic with     *)
(* every operand get_operand accepts.                                      *)
(*                                                                         *)
(* AsAssembled is the inductive invariant: once there is a word, it is the *)
(* word of the line's own operands, and the handler is the one the chain   *)
(* gives for that word.  What the chain and the operand fields make of     *)
(* such a word is LineIsRead of InstructionProofs.                         *)
(***************************************************************************)
EXTENDS Encoding, InstructionProofs

\* The operands are some that the line's type accepts.
Accepted == operands \in Operands(type, Constants, Words, Displacements)

\* The word is the one pass 2 makes of the line.
Assembled == word = Encode(type, Mnemonics[type][mnemonic], operands[1], operands[2])

AsAssembled ==
  /\ type \in Types /\ mnemonic \in DOMAIN Mnemonics[type]
  /\ operands # <<>> => Accepted /\ Assembled
  /\ read # "no" => operands # <<>> /\ read = Handler(word)

\* What the run picks as operands is some of what get_operand accepts.
LEMMA PickedIsAccepted ==
  ASSUME type \in Types, Accepted
  PROVE  Accepts(type, operands)
<1>1. CASE type \in {"DIR_SING", "DIR_STD", "DIR_DUAL", "DIR_WORD", "IMM_WORD", "BIT",
                     "LDSTR_BIT", "LD_IND", "STR_IND", "IMPLIED"}
  BY <1>1 DEF Accepted, Accepts, Operands
<1>2. CASE type = "IMM_BYTE"
  BY <1>2, EncodingAssumption DEF Accepted, Accepts, Operands
<1>3. CASE type = "BRANCH"
  BY <1>3, EncodingAssumption DEF Accepted, Accepts, Operands
<1>4. CASE type = "BR_BIT"
  BY <1>4, EncodingAssumption DEF Accepted, Accepts, Operands
<1>5. CASE type = "DIR_32"
  BY <1>5, EncodingAssumption DEF Accepted, Accepts, Operands
<1>6. CASE type \in {"LD_DIR", "STR_DIR"}
  BY <1>6, EncodingAssumption DEF Accepted, Accepts, Operands
<1> QED BY TypesAre, <1>1, <1>2, <1>3, <1>4, <1>5, <1>6

\* Every line is read as it was written, whatever its type.
LEMMA LinesAreRead ==
  ASSUME AsAssembled, operands # <<>>
  PROVE  ReadRight(type, mnemonic, operands, word)
<1>1. /\ type \in Types /\ mnemonic \in DOMAIN Mnemonics[type]
      /\ Accepted /\ Assembled
  BY DEF AsAssembled
<1>2. Accepts(type, operands)
  BY <1>1, PickedIsAccepted
<1> QED BY <1>1, <1>2, LineIsRead DEF Assembled

\* Nothing is assembled twice, and what was assembled stays.
LEMMA AsAssembledHolds == Spec => []AsAssembled
<1>1. Init => AsAssembled
  BY DEF Init, AsAssembled
<1>2. ASSUME AsAssembled, [Next]_vars
      PROVE  AsAssembled'
  <2>1. CASE Assemble
    <3>1. /\ type' = type /\ mnemonic' = mnemonic /\ read' = "no"
          /\ Accepted' /\ Assembled'
      BY <2>1 DEF Assemble, Accepted, Assembled
    <3> QED BY <1>2, <3>1 DEF AsAssembled
  <2>2. CASE Decode
    <3>1. /\ type' = type /\ mnemonic' = mnemonic /\ operands' = operands /\ word' = word
          /\ operands # <<>> /\ read' = Handler(word)
      BY <2>2 DEF Decode
    <3> QED BY <1>2, <3>1 DEF AsAssembled, Accepted, Assembled
  <2>3. CASE UNCHANGED vars
    BY <1>2, <2>3 DEF vars, AsAssembled, Accepted, Assembled
  <2> QED BY <1>2, <2>1, <2>2, <2>3 DEF Next
<1> QED BY <1>1, <1>2, PTL DEF Spec

------------------------------------------------------------------------------
\* Every mnemonic, with any operands its type accepts, reaches a handler it is
\* for, and the handler takes those operands out of the opcode; write_asm
\* takes no line for one without code (execute.c:910-1161, operand.c:83-717,
\* write.c:107).
THEOREM OpcodesDecode == Spec => []DecodesAsWritten
<1>1. ASSUME AsAssembled
      PROVE  DecodesAsWritten
  <2>1. ASSUME operands # <<>>
        PROVE  word # NOCODE
    BY <1>1, <2>1, LinesAreRead DEF ReadRight, Serves, NOCODE
  <2>2. ASSUME read # "no"
        PROVE  /\ read \in DOMAIN MeantFor /\ mnemonic \in MeantFor[read]
               /\ Found(type, word, operands)
    <3>1. operands # <<>> /\ read = Handler(word)
      BY <1>1, <2>2 DEF AsAssembled
    <3>2. Meant(mnemonic, Handler(word)) /\ Found(type, word, operands)
      BY <1>1, <3>1, LinesAreRead DEF ReadRight, Serves
    <3> QED BY <3>1, <3>2 DEF Meant
  <2> QED BY <2>1, <2>2 DEF DecodesAsWritten
<1> QED BY <1>1, AsAssembledHolds, PTL

\* A skip passes the whole line after it: check_32 sees a second word in an
\* opcode if and only if get_operand gave the line four bytes
\* (run_misc.c:67-77, operand.c:464-604).
THEOREM SkipsPassLines == Spec => []SkipsWholeLines
<1>1. ASSUME AsAssembled
      PROVE  SkipsWholeLines
  BY <1>1, LinesAreRead DEF ReadRight, Serves, SkipsWholeLines
<1> QED BY <1>1, AsAssembledHolds, PTL

\* A taken branch arrives at its label, whatever the distance the assembler
\* accepts and wherever the branch is (execute.c:143-184, parse.c:281-290).
THEOREM BranchesArrive == Spec => []BranchesReachLabels
<1>1. ASSUME AsAssembled
      PROVE  BranchesReachLabels
  <2>1. SUFFICES ASSUME operands # <<>>, type \in {"BRANCH", "BR_BIT"}, NEW from \in Words
                 PROVE  BranchTarget(from, word) = U16(from + operands[2])
    BY DEF BranchesReachLabels
  <2>2. from \in Int
    BY EncodingAssumption, AddrBounds
  <2> QED BY <1>1, <2>1, <2>2, LinesAreRead DEF ReadRight
<1> QED BY <1>1, AsAssembledHolds, PTL
=============================================================================
