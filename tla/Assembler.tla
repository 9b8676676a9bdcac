------------------------------ MODULE Assembler ------------------------------
(***************************************************************************)
(* The two passes of compile (parse.c) over the lines of a source file:    *)
(* pass 1 reads each line, gives it its size and address and fills the     *)
(* table of .equ names and the array of data blocks; then the labels enter *)
(* the table; pass 2 ors the values of the operands into the opcodes.      *)
(*                                                                         *)
(* A line is a record: label ("" for none), form and what the form takes:  *)
(*   "blank"             an empty line, a comment, a .def                  *)
(*   "org"  to           .org to                                           *)
(*   "equ"  key, val     .equ key = val                                    *)
(*   "data" bytes        .db                                               *)
(*   "code" type, opcode, reg, bit, operand    an instruction of Isa       *)
(*   "bad"               a line parse refuses                              *)
(* reg stands for the register and mode fields get_operand ors in, bit and *)
(* operand are expressions or NoExpr.  The array of lines is sized by the  *)
(* newlines of the file: every line here ends in one.                      *)
(* The buffer of an operand's token is taken as large enough.              *)
(***************************************************************************)
EXTENDS Isa

CONSTANTS
  Sources,       \* the files the user may write, as sequences of lines
  NoExpr,        \* no expression
  NoValue,       \* what Value yields where get_expr returns -1
  Value(_, _),   \* get_expr: an expression and the equates to its word
  Key(_),        \* what put_equate keeps of a name, its first 10 characters
  DATA_ALLOC     \* the step in which the array of data blocks grows

\* A file has a line.  get_org keeps an address, get_operand bytes.
ASSUME SourcesAssumption ==
  \A s \in Sources :
    /\ Len(s) \in Nat \ {0} /\ DOMAIN s = 1 .. Len(s)
    /\ \A i \in DOMAIN s :
         /\ s[i].form = "org" => s[i].to \in Addr
         /\ s[i].form = "data" => s[i].bytes \in Seq(Byte)
ASSUME DataAllocAssumption == DATA_ALLOC \in Nat \ {0}

VARIABLES
  source,        \* the lines of the file being compiled
  pass,          \* where compile is
  at,            \* the line of its loop
  lines,         \* in[], the lines read
  equates,       \* equates[], in the order of put_equate
  blocks,        \* *dp, by index
  reallocCount,  \* realloc_count
  capacity       \* the pointers *dp has room for

tableVars == <<equates, blocks, reallocCount, capacity>>
asmVars   == <<source, pass, at, lines, tableVars>>

\* common.h: the opcode of a line without code.
NOCODE == \hffff

\* "refused": compile found a fault in the file.  "crashed": the process died
\* in realloc.  Passes "listing" and later belong to the code writer.
Passing == {"pass1", "labels", "pass2"}

Line == source[at]
LongTypes == {"DIR_32", "LD_DIR", "STR_DIR"}
PatchedTypes == LongTypes \cup {"IMM_BYTE", "IMM_WORD", "BRANCH", "BR_BIT"}

\* The largest value that the bit and the operand of a line can add to its
\* opcode.
Spare(type) == CASE type \in {"BRANCH", "BR_BIT"} -> 1023
                 [] type = "IMM_BYTE"  -> 3855
                 [] type = "IMM_WORD"  -> 207
                 [] type = "BIT"       -> 112
                 [] type = "LDSTR_BIT" -> 7
                 [] OTHER -> 0

\* What get_operand makes of a line of code: an opcode that leaves room for
\* what is still to come, and a label to patch for the types that take one.
ASSUME CodeAssumption ==
  \A s \in Sources : \A i \in DOMAIN s :
    s[i].form = "code" =>
      /\ s[i].type \in Types
      /\ s[i].opcode \in Nat /\ s[i].reg \in Nat
      /\ s[i].opcode + s[i].reg + Spare(s[i].type) < NOCODE
      /\ s[i].operand # NoExpr <=> s[i].type \in PatchedTypes

S16(x) == IF x % 65536 >= 32768 THEN (x % 65536) - 65536 ELSE x % 65536

AsmInit ==
  /\ source = <<>> /\ pass = "idle" /\ at = 1 /\ lines = <<>>
  /\ equates = <<>> /\ blocks = <<>>
  /\ reallocCount = 1 /\ capacity = DATA_ALLOC

\* The start of compile: globals reset, lines and blocks allocated.
Begin(s) ==
  /\ source' = s /\ pass' = "pass1" /\ at' = 1 /\ lines' = <<>>
  /\ equates' = <<>> /\ blocks' = <<>>
  /\ reallocCount' = 1 /\ capacity' = DATA_ALLOC

\* The loop goes on to the next line, or to the next pass.
Advance(next) ==
  /\ at' = IF at = Len(source) THEN 1 ELSE at + 1
  /\ pass' = IF at = Len(source) THEN next ELSE pass
\* The label fatal, after a message.  The free of the text pointers of lines
\* never read may then kill the process, which changes nothing here.
Fatal ==
  /\ pass' = "refused"
  /\ UNCHANGED <<source, at, lines>>

------------------------------------------------------------------------------
\* Mutant of Address: any .org is obeyed.
AddressAnyOrg(org) ==
  IF at = 1 \/ Line.form = "org" THEN org
  ELSE lines[at - 1].address + lines[at - 1].size

\* Pass 1 takes an address of zero, the first line's apart, for one that was
\* not set.
Address(org) ==
  IF at = 1 \/ org # 0 THEN org
  ELSE lines[at - 1].address + lines[at - 1].size

\* The end of the loop body: the line gets its address.
Enter(org, size, opcode, dataidx) ==
  IF Address(org) > \hffff THEN Fatal
  ELSE /\ lines' = Append(lines, [address |-> Address(org), size |-> size,
                                  opcode |-> opcode, opextra |-> 0,
                                  dataidx |-> dataidx])
       /\ Advance("labels")
       /\ UNCHANGED source

ReadBlank ==
  /\ pass = "pass1" /\ Line.form = "blank"
  /\ Enter(0, 0, NOCODE, 0)
  /\ UNCHANGED tableVars

ReadOrg ==
  /\ pass = "pass1" /\ Line.form = "org"
  /\ Enter(Line.to, 0, NOCODE, 0)
  /\ UNCHANGED tableVars

\* get_directive reads a number with get_val VAL_8: its low byte.
ReadEquate ==
  /\ pass = "pass1" /\ Line.form = "equ"
  /\ equates' = Append(equates, [key |-> Key(Line.key), val |-> Lo(Line.val)])
  /\ Enter(0, 0, NOCODE, 0)
  /\ UNCHANGED <<blocks, reallocCount, capacity>>

\* get_operand: the register and bit fields are ored in now, the rest by
\* pass 2.  A bit is a number below 8 that names no label: those are not in
\* the table yet.
BitField(v) ==
  CASE Line.type = "BIT" -> 16 * v
    [] Line.type \in {"LDSTR_BIT", "BR_BIT"} -> v
    [] OTHER -> 0
BitOf == IF Line.bit = NoExpr THEN 0 ELSE Value(Line.bit, equates)

ReadCode ==
  /\ pass = "pass1" /\ Line.form = "code"
  /\ IF BitOf \in 0 .. 7
     THEN Enter(0, Size(Line.type), Line.opcode + Line.reg + BitField(BitOf), 0)
     ELSE Fatal
  /\ UNCHANGED tableVars

\* Mutant of ReadData: the count goes up before the bytes are stored.
ReadDataLate ==
  /\ pass = "pass1" /\ Line.form = "data"
  /\ reallocCount' = reallocCount + 1
  /\ blocks' = [i \in DOMAIN blocks \cup {reallocCount} |->
                  IF i = reallocCount THEN Line.bytes ELSE blocks[i]]
  /\ capacity' = IF reallocCount' % DATA_ALLOC # 0 THEN capacity
                 ELSE DATA_ALLOC * ((reallocCount' \div DATA_ALLOC) + 1)
  /\ Enter(0, Len(Line.bytes), NOCODE, reallocCount)
  /\ UNCHANGED equates

\* The bytes go into the last block; when the count reaches a multiple of
\* DATA_ALLOC more_data grows the array.
ReadData ==
  /\ pass = "pass1" /\ Line.form = "data"
  /\ blocks' = [i \in DOMAIN blocks \cup {reallocCount - 1} |->
                  IF i = reallocCount - 1 THEN Line.bytes ELSE blocks[i]]
  /\ reallocCount' = reallocCount + 1
  /\ capacity' = IF reallocCount' % DATA_ALLOC # 0 THEN capacity
                 ELSE DATA_ALLOC * ((reallocCount' \div DATA_ALLOC) + 1)
  /\ Enter(0, Len(Line.bytes), NOCODE, reallocCount)
  /\ UNCHANGED equates

\* more_data also reallocs the pointers it has just added, which nothing has
\* set: that either allocates a block or kills the process.
GrowCrash ==
  /\ pass = "pass1" /\ Line.form = "data"
  /\ (reallocCount + 1) % DATA_ALLOC = 0
  /\ pass' = "crashed"
  /\ UNCHANGED <<source, at, lines, tableVars>>

ReadBad ==
  /\ pass = "pass1" /\ Line.form = "bad"
  /\ Fatal
  /\ UNCHANGED tableVars

------------------------------------------------------------------------------
\* The labels follow the .equ names in the table.
PutLabel ==
  /\ pass = "labels"
  /\ equates' = IF Line.label = "" THEN equates
                ELSE Append(equates, [key |-> Key(Line.label),
                                      val |-> lines[at].address])
  /\ Advance("pass2")
  /\ UNCHANGED <<source, lines, blocks, reallocCount, capacity>>

\* What pass 2 ors into the opcode and leaves in opextra for an operand of
\* value v; a branch goes from the address of its own line.
Displacement(v) == S16(v - lines[at].address)
InRange(v) ==
  CASE Line.type \in {"BRANCH", "BR_BIT"} -> Displacement(v) \in -64 .. 63
    [] Line.type = "IMM_WORD" -> Lo(v) \in 0 .. 63
    [] OTHER -> TRUE
PatchBits(v) ==
  CASE Line.type \in {"BRANCH", "BR_BIT"} -> 8 * (Displacement(v) % 128)
    [] Line.type = "IMM_BYTE" -> (256 * (Lo(v) \div 16)) + (v % 16)
    [] Line.type = "IMM_WORD" -> (64 * ((v \div 16) % 4)) + (v % 16)
    [] OTHER -> 0
PatchExtra(v) == IF Line.type \in LongTypes THEN v ELSE 0

NoPatch ==
  /\ pass = "pass2"
  /\ IF Line.form = "code" THEN Line.operand = NoExpr ELSE TRUE
  /\ Advance("listing")
  /\ UNCHANGED <<source, lines, tableVars>>

\* Mutant of Patch: an operand that does not fit is only reported.
PatchAnyway ==
  /\ pass = "pass2" /\ Line.form = "code"
  /\ Line.operand # NoExpr
  /\ LET v == Value(Line.operand, equates)
     IN  lines' = IF v = NoValue \/ ~ InRange(v) THEN lines
                  ELSE [lines EXCEPT ![at].opcode = @ + PatchBits(v),
                                     ![at].opextra = PatchExtra(v)]
  /\ Advance("listing")
  /\ UNCHANGED <<source, tableVars>>

Patch ==
  /\ pass = "pass2" /\ Line.form = "code"
  /\ Line.operand # NoExpr
  /\ LET v == Value(Line.operand, equates)
     IN  IF v = NoValue \/ ~ InRange(v) THEN Fatal
         ELSE /\ lines' = [lines EXCEPT ![at].opcode = @ + PatchBits(v),
                                        ![at].opextra = PatchExtra(v)]
              /\ Advance("listing")
              /\ UNCHANGED source
  /\ UNCHANGED tableVars

Passes == \/ ReadBlank \/ ReadOrg \/ ReadEquate \/ ReadCode \/ ReadData
          \/ GrowCrash \/ ReadBad \/ PutLabel \/ NoPatch \/ Patch

------------------------------------------------------------------------------
\* The bytes of a line, as the listing shows them and write_asm writes them.
LineBytes(i) ==
  LET l == lines[i]
      data  == IF l.dataidx = 0 THEN <<>>
               ELSE SubSeq(blocks[l.dataidx - 1], 1, l.size)
      code  == IF l.opcode = NOCODE THEN <<>> ELSE <<Lo(l.opcode), Hi(l.opcode)>>
      extra == IF source[i].form = "code" /\ source[i].type \in LongTypes
               THEN <<Lo(l.opextra), Hi(l.opextra)>> ELSE <<>>
  IN  data \o code \o extra
Rows == [i \in DOMAIN lines |->
           [address |-> lines[i].address, bytes |-> LineBytes(i)]]

\* No data is lost while the array of blocks grows and fills: every .db line
\* read so far finds the bytes of its own text behind its index, and the next
\* block to fill lies within the array (misc.c:12-38, operand.c:85-145).
DataKept ==
  /\ reallocCount <= capacity
  /\ \A i \in DOMAIN lines :
       source[i].form = "data" =>
         /\ lines[i].dataidx - 1 \in DOMAIN blocks
         /\ blocks[lines[i].dataidx - 1] = source[i].bytes

\* Lines do not run into each other unless an .org between them says so:
\* whatever stands between two lines, the earlier one ends before the later
\* one starts (parse.c:208-228).  An .org to 0 says nothing.
Orgs(i, j) == \E k \in (i + 1) .. j : source[k].form = "org" /\ source[k].to # 0
OverlapOnlyByOrg ==
  \A i, j \in DOMAIN lines :
    i < j /\ ~ Orgs(i, j) =>
      lines[i].address + lines[i].size <= lines[j].address
==============================================================================
