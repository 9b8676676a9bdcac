--------------------------- MODULE ToolchainProofs ---------------------------
(***************************************************************************)
(* Why the compiler keeps its data, its lines in order and its image, for  *)
(* every set of source files, every evaluator of expressions, every growth *)
(* step of the array of blocks and any number of calls.                    *)
(*                                                                         *)
(* Inv is inductive.  It adds to the properties what holds between them:   *)
(*   LinesInv   how many lines there are in each pass, so that the line at *)
(*              hand and the one before it exist                           *)
(*   BlocksInv  capacity as a formula of the count, since RoomIsEnough     *)
(*              alone says nothing of the next growth                      *)
(*   ImageInv   the bytes of the file are those of the rows before at, the *)
(*              last row that covers an address winning: the property      *)
(*              speaks only of the end of the loop                         *)
(*   RunInv     the rows of the image are the lines, and the listing is a  *)
(*              part of them, from the writing of the listing on           *)
(***************************************************************************)
EXTENDS Toolchain, SequenceTheorems, TLAPS

\* A sequence, of whatever.
IsSeq(q) == Len(q) \in Nat /\ q = [i \in 1 .. Len(q) |-> q[i]]

\* A sequence lies in Seq of any set that holds its elements, and an element
\* of a Seq is a sequence.
LEMMA SeqOfItself ==
  ASSUME NEW q, IsSeq(q), NEW S, \A i \in 1 .. Len(q) : q[i] \in S
  PROVE  q \in Seq(S)
BY SeqDef DEF IsSeq

LEMMA SeqIsSeq ==
  ASSUME NEW S, NEW q \in Seq(S)
  PROVE  IsSeq(q) /\ DOMAIN q = 1 .. Len(q)
BY LenProperties DEF IsSeq

\* What Append, \o, SubSeq, RemoveAt and tuples make of sequences.
LEMMA Appended ==
  ASSUME NEW q, IsSeq(q), NEW e
  PROVE  /\ IsSeq(Append(q, e)) /\ Len(Append(q, e)) = Len(q) + 1
         /\ \A i \in 1 .. Len(q) : Append(q, e)[i] = q[i]
         /\ Append(q, e)[Len(q) + 1] = e
<1> DEFINE S == {q[i] : i \in 1 .. Len(q)} \cup {e}
<1>1. q \in Seq(S) /\ e \in S
  BY SeqOfItself
<1> HIDE DEF S
<1>2. Append(q, e) \in Seq(S)
  BY <1>1, AppendProperties
<1>3. IsSeq(Append(q, e))
  BY <1>2, SeqIsSeq
<1> QED
  BY <1>1, <1>3, AppendProperties DEF IsSeq

LEMMA Joined ==
  ASSUME NEW q, IsSeq(q), NEW r, IsSeq(r)
  PROVE  IsSeq(q \o r) /\ Len(q \o r) = Len(q) + Len(r)
<1> DEFINE S == {q[i] : i \in 1 .. Len(q)} \cup {r[i] : i \in 1 .. Len(r)}
<1>1. q \in Seq(S) /\ r \in Seq(S)
  BY SeqOfItself
<1> HIDE DEF S
<1> QED
  BY <1>1, ConcatProperties, SeqIsSeq

LEMMA Cut ==
  ASSUME NEW q, NEW m \in Int, NEW n \in Int
  PROVE  IsSeq(SubSeq(q, m, n))
<1> DEFINE S == {q[i] : i \in m .. n}
<1>1. \A i \in m .. n : q[i] \in S
  OBVIOUS
<1> HIDE DEF S
<1>2. SubSeq(q, m, n) \in Seq(S)
  BY <1>1, SubSeqProperties
<1> QED
  BY <1>2, SeqIsSeq

LEMMA Removed ==
  ASSUME NEW q, IsSeq(q), NEW i \in Int
  PROVE  IsSeq(RemoveAt(q, i))
<1>1. Len(q) \in Int
  BY DEF IsSeq
<1>2. IsSeq(SubSeq(q, 1, i - 1)) /\ IsSeq(SubSeq(q, i + 1, Len(q)))
  BY <1>1, Cut
<1> QED
  BY <1>2, Joined DEF RemoveAt

LEMMA Tuples == IsSeq(<<>>) /\ \A a, b : IsSeq(<<a, b>>)
<1>1. IsSeq(<<>>)
  BY SeqIsSeq, EmptySeq
<1>2. ASSUME NEW a, NEW b PROVE IsSeq(<<a, b>>)
  <2>1. <<a, b>> \in Seq({a, b})
    OBVIOUS
  <2> QED BY <2>1, SeqIsSeq
<1> QED BY <1>1, <1>2

\* The bytes of a line are a sequence.
LEMMA LineBytesIsSeq ==
  ASSUME NEW i, lines[i].size \in Nat
  PROVE  IsSeq(LineBytes(i))
<1> DEFINE l == lines[i]
           data == IF l.dataidx = 0 THEN <<>>
                   ELSE SubSeq(blocks[l.dataidx - 1], 1, l.size)
           code == IF l.opcode = NOCODE THEN <<>> ELSE <<Lo(l.opcode), Hi(l.opcode)>>
           extra == IF source[i].form = "code" /\ source[i].type \in LongTypes
               THEN <<Lo(l.opextra), Hi(l.opextra)>> ELSE <<>>
<1>1. IsSeq(data)
  BY Tuples, Cut
<1>2. IsSeq(code)
  BY Tuples
<1>3. IsSeq(extra)
  BY Tuples
<1>4. LineBytes(i) = data \o code \o extra
  BY DEF LineBytes
<1> HIDE DEF data, code, extra
<1> QED
  BY <1>1, <1>2, <1>3, <1>4, Joined

------------------------------------------------------------------------------
Working == pass \in Passing \cup Writing

\* The lines that have been read.
Fields == {"address", "size", "opcode", "opextra", "dataidx"}
LinesInv ==
  /\ pass \in Passing \cup Writing \cup Resting
  /\ Working => source \in Sources /\ at \in 1 .. Len(source)
  /\ pass \in {"listing", "open"} => at = 1
  /\ IsSeq(lines)
  /\ lines # <<>> => source \in Sources /\ Len(lines) <= Len(source)
  /\ pass = "pass1" => Len(lines) = at - 1
  /\ Working /\ pass # "pass1" => Len(lines) = Len(source)
  /\ \A i \in 1 .. Len(lines) :
       /\ DOMAIN lines[i] = Fields
       /\ lines[i].address \in Nat /\ lines[i].size \in Nat

\* The blocks, and the room for them.
BlocksInv ==
  /\ reallocCount \in Nat \ {0}
  /\ \/ reallocCount = 1 /\ capacity = DATA_ALLOC
     \/ capacity = DATA_ALLOC * ((reallocCount \div DATA_ALLOC) + 1)
  /\ DOMAIN blocks = 0 .. (reallocCount - 2)

\* A file: its length is the end of its last byte.
FileShape(f) ==
  /\ DOMAIN f = {"head", "byte", "len", "rows", "complete"}
  /\ f.len \in Nat /\ DOMAIN f.byte \in SUBSET Nat
  /\ f.byte = [a \in DOMAIN f.byte |-> f.byte[a]]
  /\ \A a \in DOMAIN f.byte : a < f.len
  /\ f.len # 0 => f.len - 1 \in DOMAIN f.byte

Place(row) == row.address .. (row.address + Len(row.bytes) - 1)
RowsInv(rows) ==
  /\ DOMAIN rows \in SUBSET Nat /\ rows = [i \in DOMAIN rows |-> rows[i]]
  /\ \A i \in DOMAIN rows :
       /\ DOMAIN rows[i] = {"address", "bytes"}
       /\ rows[i].address \in Nat /\ IsSeq(rows[i].bytes)

\* The bytes of the rows of I have been written, one row after the other.
RowsAreWritten(file, I) ==
  /\ \A i \in I : Place(file.rows[i]) \subseteq DOMAIN file.byte
  /\ \A a \in DOMAIN file.byte :
       \E i \in I :
         /\ Covers(file.rows[i], a)
         /\ \A j \in I : Covers(file.rows[j], a) => j <= i
         /\ file.byte[a] = ByteOf(file.rows[i], a)

\* Every byte comes from a row of I.
BytesAreOf(file, I) ==
  \A a \in DOMAIN file.byte :
    \E i \in I : Covers(file.rows[i], a) /\ file.byte[a] = ByteOf(file.rows[i], a)

Past == IF pass = "image" THEN {i \in DOMAIN image.rows : i < at}
                          ELSE DOMAIN image.rows
ImageInv ==
  /\ FileShape(image) /\ image.complete \in BOOLEAN
  /\ RowsInv(image.rows)
  /\ BytesAreOf(image, Past)
  /\ image.complete \/ pass = "image" => RowsAreWritten(image, Past)
  /\ pass = "image" => ~ image.complete /\ DOMAIN image.rows = DOMAIN source

RunInv ==
  /\ pass \in {"open", "image"} => listing \in Parts(Rows)
  /\ pass = "success" /\ image.complete => listing \in Parts(image.rows)
  /\ run = "loaded" => ~ Working /\ memory = Held(image)

\* The lines of data find their bytes.
BytesKept ==
  \A i \in DOMAIN lines :
    source[i].form = "data" =>
      /\ lines[i].dataidx - 1 \in DOMAIN blocks
      /\ blocks[lines[i].dataidx - 1] = source[i].bytes

Inv == /\ LinesInv /\ OverlapOnlyByOrg /\ BlocksInv /\ BytesKept
       /\ ImageInv /\ RunInv
------------------------------------------------------------------------------
\* An address is a number (the name for the end of the interval keeps the
\* provers from listing its elements).
LEMMA AddrIsNat ==
  \A n \in Addr : n \in Nat
<1> DEFINE top == 65535
<1>1. Addr = 0 .. top
  BY DEF Addr
<1>2. top \in Int
  OBVIOUS
<1> HIDE DEF top
<1> QED
  BY <1>1, <1>2

\* The file at hand, and the line.
LEMMA AtALine ==
  ASSUME LinesInv, Working
  PROVE  /\ Len(source) \in Nat \ {0} /\ DOMAIN source = 1 .. Len(source)
         /\ at \in Nat \ {0} /\ at <= Len(source)
         /\ Line.form = "org" => Line.to \in Nat
         /\ Line.form = "data" => IsSeq(Line.bytes)
<1>1. source \in Sources /\ at \in 1 .. Len(source)
  BY DEF LinesInv
<1>2. /\ Len(source) \in Nat \ {0} /\ DOMAIN source = 1 .. Len(source)
      /\ source[at].form = "org" => source[at].to \in Addr
      /\ source[at].form = "data" => source[at].bytes \in Seq(Byte)
  BY <1>1, SourcesAssumption
<1> QED
  BY <1>1, <1>2, AddrIsNat, SeqIsSeq DEF Line

\* The end of a turn: the next line, or the next pass.
LEMMA AdvanceCases ==
  ASSUME LinesInv, Working, NEW next, Advance(next)
  PROVE  \/ at = Len(source) /\ at' = 1 /\ pass' = next
         \/ at < Len(source) /\ at' = at + 1 /\ pass' = pass
BY AtALine DEF Advance

\* What every step of the writer leaves alone, and where it leads.
LEMMA WriterSteps ==
  ASSUME \/ WriteListing \/ OpenImage \/ WriteLine
         \/ WriteShort \/ WriteFails \/ CannotOpen
  PROVE  /\ pass \in Writing /\ UNCHANGED <<source, lines, tableVars>>
         /\ pass' \in Writing \cup {"success", "unwritten"}
<1>1. CASE WriteListing
  BY <1>1 DEF WriteListing, Goes, Writing
<1>2. CASE OpenImage
  BY <1>2 DEF OpenImage, Goes, Writing
<1>3. CASE WriteLine
  <2>1. /\ pass = "image" /\ Advance("success")
        /\ UNCHANGED <<source, lines, tableVars, listing>>
    BY <1>3, Zenon DEF WriteLine
  <2> QED BY <2>1 DEF Advance, Writing
<1>4. CASE WriteShort
  <2>1. /\ pass = "image" /\ Advance("success")
        /\ UNCHANGED <<source, lines, tableVars, listing>>
    BY <1>4, Zenon DEF WriteShort
  <2> QED BY <2>1 DEF Advance, Writing
<1>5. CASE WriteFails
  BY <1>5 DEF WriteFails, Goes, Writing
<1>6. CASE CannotOpen
  BY <1>6 DEF CannotOpen, Goes
<1> QED BY <1>1, <1>2, <1>3, <1>4, <1>5, <1>6

\* A line read in pass 1 is refused, or follows those before it.
LineIs(l, org, size, idx) ==
  /\ DOMAIN l = Fields
  /\ l.address = Address(org) /\ l.size = size /\ l.dataidx = idx
Entered(org, size, idx) ==
  /\ IsSeq(lines') /\ Len(lines') = at
  /\ \A i \in 1 .. (at - 1) : lines'[i] = lines[i]
  /\ LineIs(lines'[at], org, size, idx)
  /\ \/ at = Len(source) /\ at' = 1 /\ pass' = "labels"
     \/ at < Len(source) /\ at' = at + 1 /\ pass' = "pass1"
Refused == pass' = "refused" /\ lines' = lines /\ at' = at

\* Pass 1 finds an address, the last line having one.
LEMMA AddressIsNat ==
  ASSUME LinesInv, pass = "pass1", NEW org \in Nat
  PROVE  Address(org) \in Nat
<1>1. CASE at = 1 \/ org # 0
  BY <1>1 DEF Address
<1>2. CASE at # 1 /\ org = 0
  <2>1. at - 1 \in 1 .. Len(lines)
    BY <1>2, AtALine DEF LinesInv, Working, Passing
  <2>2. lines[at - 1].address \in Nat /\ lines[at - 1].size \in Nat
    BY <2>1 DEF LinesInv
  <2> QED BY <1>2, <2>2 DEF Address
<1> QED BY <1>1, <1>2

\* What Enter does.
LEMMA EnterCases ==
  ASSUME LinesInv, pass = "pass1", NEW org, NEW size, NEW opcode, NEW idx,
         Enter(org, size, opcode, idx)
  PROVE  source' = source /\ (Refused \/ Entered(org, size, idx))
<1>1. CASE Address(org) > \hffff
  BY <1>1 DEF Enter, Fatal, Refused
<1>2. CASE ~ (Address(org) > \hffff)
  <2> DEFINE e == [address |-> Address(org), size |-> size,
                   opcode |-> opcode, opextra |-> 0, dataidx |-> idx]
  <2>1. lines' = Append(lines, e) /\ Advance("labels") /\ source' = source
    BY <1>2 DEF Enter
  <2>2. LineIs(e, org, size, idx)
    BY DEF LineIs, Fields
  <2> HIDE DEF e
  <2>3. /\ IsSeq(lines') /\ Len(lines') = Len(lines) + 1
        /\ \A i \in 1 .. Len(lines) : lines'[i] = lines[i]
        /\ lines'[Len(lines) + 1] = e
    BY <2>1, Appended DEF LinesInv
  <2>4. Len(lines) = at - 1 /\ at \in Nat
    BY AtALine DEF LinesInv, Working, Passing
  <2>5. \/ at = Len(source) /\ at' = 1 /\ pass' = "labels"
        \/ at < Len(source) /\ at' = at + 1 /\ pass' = "pass1"
    BY <2>1, AdvanceCases DEF Working, Passing
  <2> QED BY <2>1, <2>2, <2>3, <2>4, <2>5 DEF Entered
<1> QED BY <1>1, <1>2

\* Pass 2 patches a line where it stands.
Patched ==
  /\ IsSeq(lines') /\ Len(lines') = Len(lines)
  /\ \A i \in 1 .. Len(lines) :
       /\ DOMAIN lines'[i] = Fields
       /\ lines'[i].address = lines[i].address
       /\ lines'[i].size = lines[i].size
       /\ lines'[i].dataidx = lines[i].dataidx

\* What Patch does.
LEMMA PatchCases ==
  ASSUME LinesInv, Patch
  PROVE  /\ source' = source
         /\ \/ Refused
            \/ Patched /\ Advance("listing")
<1> DEFINE v == Value(Line.operand, equates)
<1>1. CASE v = NoValue \/ ~ InRange(v)
  BY <1>1 DEF Patch, Fatal, Refused
<1>2. CASE ~ (v = NoValue \/ ~ InRange(v))
  <2>1. PICK x, y : /\ lines' = [lines EXCEPT ![at].opcode = x, ![at].opextra = y]
                    /\ Advance("listing") /\ source' = source
    BY <1>2 DEF Patch
  <2> DEFINE r == [[lines[at] EXCEPT !.opcode = x] EXCEPT !.opextra = y]
             S == {lines[i] : i \in 1 .. Len(lines)} \cup {r}
  <2>2. at \in 1 .. Len(lines) /\ IsSeq(lines)
    BY AtALine DEF Patch, LinesInv, Working, Passing
  <2>3. lines' = [lines EXCEPT ![at] = r]
    BY <2>1, <2>2 DEF IsSeq
  <2>4. /\ DOMAIN lines[at] = Fields /\ DOMAIN r = Fields
        /\ r.address = lines[at].address /\ r.size = lines[at].size
        /\ r.dataidx = lines[at].dataidx
    BY <2>2 DEF LinesInv, Fields
  <2>5. lines \in Seq(S) /\ r \in S
    BY <2>2, SeqOfItself
  <2> HIDE DEF r, S
  <2>6. /\ lines' \in Seq(S) /\ Len(lines') = Len(lines)
        /\ \A i \in 1 .. Len(lines) : lines'[i] = IF i = at THEN r ELSE lines[i]
    BY <2>2, <2>3, <2>5, ExceptSeq
  <2>7. IsSeq(lines')
    BY <2>6, SeqIsSeq
  <2>8. Patched
    BY <2>4, <2>6, <2>7 DEF Patched, LinesInv
  <2> QED BY <2>1, <2>8
<1> QED BY <1>1, <1>2

------------------------------------------------------------------------------
\* What a step of pass 1 is.
ReadOne(org, size, idx) ==
  /\ pass = "pass1" /\ org \in Nat /\ size \in Nat
  /\ source' = source /\ (Refused \/ Entered(org, size, idx))

\* Every step of pass 1 but the faults reads one line.
LEMMA ReadCases ==
  ASSUME LinesInv
  PROVE  /\ ReadBlank => ReadOne(0, 0, 0) /\ UNCHANGED tableVars
         /\ ReadOrg => ReadOne(Line.to, 0, 0) /\ Line.form = "org" /\ UNCHANGED tableVars
         /\ ReadEquate => /\ ReadOne(0, 0, 0) /\ Line.form = "equ"
                          /\ UNCHANGED <<blocks, reallocCount, capacity>>
         /\ ReadCode => /\ ReadOne(0, Size(Line.type), 0) \/ (Refused /\ source' = source)
                        /\ Line.form = "code" /\ UNCHANGED tableVars
         /\ ReadData => /\ ReadOne(0, Len(Line.bytes), reallocCount)
                        /\ Line.form = "data"
<1> USE EnterCases DEF ReadOne
<1>1. ASSUME ReadBlank PROVE ReadOne(0, 0, 0) /\ UNCHANGED tableVars
  BY <1>1 DEF ReadBlank
<1>2. ASSUME ReadOrg
      PROVE  ReadOne(Line.to, 0, 0) /\ Line.form = "org" /\ UNCHANGED tableVars
  BY <1>2, AtALine DEF ReadOrg, Working, Passing
<1>3. ASSUME ReadEquate
      PROVE  /\ ReadOne(0, 0, 0) /\ Line.form = "equ"
             /\ UNCHANGED <<blocks, reallocCount, capacity>>
  BY <1>3 DEF ReadEquate
<1>4. ASSUME ReadCode
      PROVE  /\ ReadOne(0, Size(Line.type), 0) \/ (Refused /\ source' = source)
             /\ Line.form = "code" /\ UNCHANGED tableVars
  <2>1. CASE BitOf \in 0 .. 7
    BY <1>4, <2>1 DEF ReadCode, Size
  <2>2. CASE BitOf \notin 0 .. 7
    BY <1>4, <2>2 DEF ReadCode, Fatal, Refused
  <2> QED BY <2>1, <2>2
<1>5. ASSUME ReadData
      PROVE  ReadOne(0, Len(Line.bytes), reallocCount) /\ Line.form = "data"
  <2>1. Len(Line.bytes) \in Nat
    BY <1>5, AtALine DEF ReadData, Working, Passing, IsSeq
  <2> QED BY <1>5, <2>1 DEF ReadData
<1> QED BY <1>1, <1>2, <1>3, <1>4, <1>5

\* Reading a line keeps the lines in shape.
LEMMA ReadKeepsLines ==
  ASSUME LinesInv, NEW org, NEW size, NEW idx, ReadOne(org, size, idx)
  PROVE  LinesInv'
<1>1. source' = source /\ pass = "pass1" /\ source \in Sources
  BY DEF ReadOne, LinesInv, Working, Passing
<1>2. CASE Refused
  BY <1>1, <1>2 DEF Refused, LinesInv, Working, Passing, Writing, Resting
<1>3. CASE Entered(org, size, idx)
  <2>1. /\ Len(source) \in Nat \ {0} /\ at \in Nat \ {0} /\ at <= Len(source)
        /\ Len(lines) = at - 1
    BY <1>1, AtALine DEF LinesInv, Working, Passing
  <2>2. pass' \in {"pass1", "labels"} /\ at' \in 1 .. Len(source)
    BY <1>3, <2>1 DEF Entered
  <2>3. \A i \in 1 .. Len(lines') :
          /\ DOMAIN lines'[i] = Fields
          /\ lines'[i].address \in Nat /\ lines'[i].size \in Nat
    <3> TAKE i \in 1 .. Len(lines')
    <3>1. CASE i = at
      BY <1>1, <1>3, <3>1, AddressIsNat DEF Entered, LineIs, ReadOne
    <3>2. CASE i # at
      <4>1. i \in 1 .. (at - 1)
        BY <1>3, <2>1, <3>2 DEF Entered
      <4>2. lines'[i] = lines[i] /\ i \in 1 .. Len(lines)
        BY <1>3, <2>1, <4>1 DEF Entered
      <4> QED BY <4>2 DEF LinesInv
    <3> QED BY <3>1, <3>2
  <2>4. IsSeq(lines') /\ Len(lines') = at
    BY <1>3 DEF Entered
  <2>5. pass' = "pass1" => Len(lines') = at' - 1
    BY <1>3, <2>1, <2>4 DEF Entered
  <2>6. pass' # "pass1" => Len(lines') = Len(source)
    BY <1>3, <2>1, <2>4 DEF Entered
  <2> QED
    BY <1>1, <2>1, <2>2, <2>3, <2>4, <2>5, <2>6
       DEF LinesInv, Working, Passing, Writing, Resting
<1> QED BY <1>2, <1>3 DEF ReadOne

\* Every step does.
LEMMA LinesKept ==
  ASSUME LinesInv, [Next]_vars
  PROVE  LinesInv'
<1> USE DEF Working, Passing, Writing, Resting
<1>1. ASSUME NEW s \in Sources, Compile(s) PROVE LinesInv'
  BY <1>1, SourcesAssumption, Tuples, EmptySeq DEF Compile, Begin, LinesInv
<1>2. CASE ReadBlank \/ ReadOrg \/ ReadEquate \/ ReadData
  BY <1>2, ReadCases, ReadKeepsLines
<1>3. CASE ReadCode
  <2>1. CASE Refused /\ source' = source
    BY <1>3, <2>1 DEF Refused, ReadCode, LinesInv
  <2> QED BY <1>3, <2>1, ReadCases, ReadKeepsLines
<1>4. CASE GrowCrash \/ ReadBad
  BY <1>4 DEF GrowCrash, ReadBad, Fatal, LinesInv
<1>5. CASE PutLabel \/ NoPatch
  <2>1. PICK next \in {"pass2", "listing"} : Advance(next)
    BY <1>5 DEF PutLabel, NoPatch
  <2>2. \/ at' = 1 /\ pass' \in {"pass2", "listing"}
        \/ at' \in 1 .. Len(source) /\ pass' = pass /\ pass \in {"labels", "pass2"}
    <3>1. pass \in {"labels", "pass2"}
      BY <1>5 DEF PutLabel, NoPatch
    <3>2. \/ at = Len(source) /\ at' = 1 /\ pass' = next
          \/ at < Len(source) /\ at' = at + 1 /\ pass' = pass
      BY <2>1, <3>1, AdvanceCases
    <3> QED BY <3>1, <3>2, AtALine
  <2>3. source' = source /\ lines' = lines /\ pass \in {"labels", "pass2"}
    BY <1>5 DEF PutLabel, NoPatch
  <2>4. Len(source) \in Nat \ {0}
    BY <2>3, AtALine
  <2> QED BY <2>2, <2>3, <2>4 DEF LinesInv
<1>6. CASE Patch
  <2>1. source' = source /\ pass = "pass2"
    BY <1>6, PatchCases DEF Patch
  <2>2. CASE Refused
    BY <2>1, <2>2 DEF Refused, LinesInv
  <2>3. CASE Patched /\ Advance("listing")
    <3>1. Len(source) \in Nat \ {0}
      BY <2>1, AtALine
    <3>2. \/ at' = 1 /\ pass' = "listing"
          \/ at' \in 1 .. Len(source) /\ pass' = "pass2"
      BY <2>1, <2>3, AdvanceCases, AtALine
    <3> QED BY <2>1, <2>3, <3>1, <3>2 DEF LinesInv, Patched
  <2> QED BY <1>6, <2>2, <2>3, PatchCases
<1>7. CASE WriteListing \/ OpenImage \/ CannotOpen \/ WriteFails
  <2>1. CASE WriteListing \/ OpenImage
    BY <2>1 DEF WriteListing, OpenImage, Goes, LinesInv
  <2>2. CASE CannotOpen
    BY <2>2 DEF CannotOpen, Goes, LinesInv
  <2>3. CASE WriteFails
    <3>1. pass = "image" /\ Goes("success") /\ at' = at
      BY <2>3, Zenon DEF WriteFails
    <3> QED BY <3>1 DEF Goes, LinesInv
  <2> QED BY <1>7, <2>1, <2>2, <2>3
<1>8. CASE WriteLine \/ WriteShort
  <2>1. source' = source /\ lines' = lines /\ pass = "image" /\ Advance("success")
    BY <1>8 DEF WriteLine, WriteShort
  <2>2. Len(source) \in Nat \ {0}
    BY <2>1, AtALine
  <2>3. \/ at' = 1 /\ pass' = "success"
        \/ at' \in 1 .. Len(source) /\ pass' = "image"
    BY <2>1, AdvanceCases, AtALine
  <2>4. CASE at' = 1 /\ pass' = "success"
    BY <2>1, <2>4 DEF LinesInv
  <2>5. CASE at' \in 1 .. Len(source) /\ pass' = "image"
    BY <2>1, <2>5 DEF LinesInv
  <2> QED BY <2>3, <2>4, <2>5
<1>9. CASE Run
  BY <1>9 DEF Run, RunNothing, RunImage, RunSource, RunLarge, RunUnread, Ends,
              asmVars, LinesInv
<1>10. CASE UNCHANGED vars
  BY <1>10 DEF vars, asmVars, LinesInv
<1>11. CASE Kill
  BY <1>11 DEF Kill, LinesInv, Working, Passing, Writing, Resting
<1> QED
  BY <1>1, <1>2, <1>3, <1>4, <1>5, <1>6, <1>7, <1>8, <1>9, <1>10, <1>11
     DEF Next, Passes

------------------------------------------------------------------------------
\* Steps that leave the lines read as they are, or change them for another
\* file.
LEMMA OtherSteps ==
  ASSUME [Next]_vars
  PROVE  \/ lines' = <<>> /\ blocks' = <<>> /\ reallocCount' = 1 /\ capacity' = DATA_ALLOC
         \/ ReadBlank \/ ReadOrg \/ ReadEquate \/ ReadCode \/ ReadData \/ Patch
         \/ UNCHANGED <<source, lines, blocks, reallocCount, capacity>>
<1>1. ASSUME NEW s \in Sources, Compile(s)
      PROVE  lines' = <<>> /\ blocks' = <<>> /\ reallocCount' = 1 /\ capacity' = DATA_ALLOC
  BY <1>1 DEF Compile, Begin
<1>2. CASE GrowCrash \/ ReadBad \/ PutLabel \/ NoPatch
  BY <1>2 DEF GrowCrash, ReadBad, Fatal, PutLabel, NoPatch, tableVars
<1>3. CASE \/ WriteListing \/ OpenImage \/ WriteLine
           \/ Kill \/ CannotOpen \/ WriteShort \/ WriteFails
  BY <1>3 DEF WriteListing, OpenImage, WriteLine, Kill, CannotOpen, WriteShort,
              WriteFails, Goes, tableVars
<1>4. CASE Run
  BY <1>4 DEF Run, RunNothing, RunImage, RunSource, RunLarge, RunUnread, Ends,
              asmVars, tableVars
<1>5. CASE UNCHANGED vars
  BY <1>5 DEF vars, asmVars, tableVars
<1> QED
  BY <1>1, <1>2, <1>3, <1>4, <1>5 DEF Next, Passes

\* Before the first line there is none.
LEMMA NoLines == DOMAIN <<>> = {}
BY EmptySeq

\* A line goes after those before it, unless it is an .org.
LEMMA ReadKeepsOrder ==
  ASSUME LinesInv, OverlapOnlyByOrg, NEW org, NEW size, NEW idx,
         ReadOne(org, size, idx),
         org # 0 => Line.form = "org" /\ Line.to = org
  PROVE  OverlapOnlyByOrg'
<1>1. CASE Refused
  BY <1>1 DEF ReadOne, Refused, OverlapOnlyByOrg, Orgs
<1>2. CASE Entered(org, size, idx)
  <2>1. /\ at \in Nat \ {0} /\ Len(lines) = at - 1 /\ DOMAIN lines = 1 .. (at - 1)
        /\ DOMAIN lines' = 1 .. at /\ source' = source
    BY <1>2, AtALine DEF ReadOne, Entered, LinesInv, Working, Passing, IsSeq
  <2> SUFFICES ASSUME NEW i \in 1 .. at, NEW j \in 1 .. at, i < j, ~ Orgs(i, j)
               PROVE  lines'[i].address + lines'[i].size <= lines'[j].address
    BY <2>1 DEF OverlapOnlyByOrg, Orgs
  <2>2. lines'[i] = lines[i] /\ i \in DOMAIN lines
    BY <1>2, <2>1 DEF Entered
  <2>3. CASE j # at
    BY <1>2, <2>1, <2>2, <2>3 DEF Entered, OverlapOnlyByOrg
  <2>4. CASE j = at
    <3>1. org = 0
      BY <2>1, <2>4 DEF ReadOne, Orgs, Line
    <3>2. lines'[at].address = lines[at - 1].address + lines[at - 1].size
      BY <1>2, <2>1, <2>4, <3>1 DEF Entered, LineIs, Address
    <3>3. CASE i = at - 1
      BY <2>2, <2>4, <3>2, <3>3 DEF LinesInv
    <3>4. CASE i # at - 1
      <4>1. ~ Orgs(i, at - 1) /\ i < at - 1 /\ at - 1 \in DOMAIN lines
        BY <2>1, <2>4, <3>4 DEF Orgs
      <4>2. lines[i].address + lines[i].size <= lines[at - 1].address
        BY <2>2, <4>1 DEF OverlapOnlyByOrg
      <4>3. /\ lines[i].address \in Nat /\ lines[i].size \in Nat
            /\ lines[at - 1].address \in Nat /\ lines[at - 1].size \in Nat
        BY <2>1, <2>2, <4>1 DEF LinesInv
      <4> QED BY <2>2, <2>4, <3>2, <4>2, <4>3
    <3> QED BY <3>3, <3>4
  <2> QED BY <2>3, <2>4
<1> QED BY <1>1, <1>2 DEF ReadOne

\* Every step keeps the order of the lines.
LEMMA OrderKept ==
  ASSUME LinesInv, OverlapOnlyByOrg, [Next]_vars
  PROVE  OverlapOnlyByOrg'
<1>1. CASE lines' = <<>>
  BY <1>1, NoLines DEF OverlapOnlyByOrg
<1>2. CASE ReadBlank \/ ReadOrg \/ ReadEquate \/ ReadData
  BY <1>2, ReadCases, ReadKeepsOrder
<1>3. CASE ReadCode
  <2>1. CASE Refused /\ source' = source
    BY <2>1 DEF Refused, OverlapOnlyByOrg, Orgs
  <2> QED BY <1>3, <2>1, ReadCases, ReadKeepsOrder
<1>4. CASE Patch
  <2>1. CASE Refused
    BY <1>4, <2>1, PatchCases DEF Refused, OverlapOnlyByOrg, Orgs
  <2>2. CASE Patched
    <3>1. DOMAIN lines' = DOMAIN lines /\ source' = source
      BY <1>4, <2>2, PatchCases DEF Patched, IsSeq, LinesInv
    <3>2. ASSUME NEW i \in DOMAIN lines
          PROVE  lines'[i].address = lines[i].address /\ lines'[i].size = lines[i].size
      BY <2>2 DEF Patched, IsSeq, LinesInv
    <3> QED BY <3>1, <3>2 DEF OverlapOnlyByOrg, Orgs
  <2> QED BY <1>4, <2>1, <2>2, PatchCases
<1>5. CASE UNCHANGED <<source, lines>>
  BY <1>5 DEF OverlapOnlyByOrg, Orgs
<1> QED
  BY <1>1, <1>2, <1>3, <1>4, <1>5, OtherSteps

------------------------------------------------------------------------------
\* Growing by a step at each multiple keeps the array ahead of the count.
LEMMA Division ==
  ASSUME NEW n \in Nat, NEW d \in Nat, d > 0
  PROVE  /\ n \div d \in Nat /\ n % d \in Nat /\ n % d < d
         /\ n = (d * (n \div d)) + (n % d)
<1>1. n % d \in Nat
  OBVIOUS
<1>2. n % d < d
  OBVIOUS
<1>3. n \div d \in Nat
  OBVIOUS
<1>4. n = (d * (n \div d)) + (n % d)
  OBVIOUS
<1> QED BY <1>1, <1>2, <1>3, <1>4

\* Two numbers that follow each other have the same quotient, unless the
\* second is a multiple.
LEMMA SameQuotient ==
  ASSUME NEW d \in Nat, d > 0, NEW p \in Nat, NEW q \in Nat, NEW r \in Nat,
         NEW t \in Nat, r < d, t < d, t # 0, (d * p) + t = (d * q) + r + 1
  PROVE  p = q
OBVIOUS

\* The room for the blocks covers their count, and changes only at a multiple.
LEMMA Room ==
  ASSUME NEW n \in Nat \ {0}, NEW d \in Nat \ {0}
  PROVE  /\ n <= d * ((n \div d) + 1)
         /\ (n + 1) % d # 0 => (n + 1) \div d = n \div d
<1>1. n \in Nat /\ n + 1 \in Nat /\ d \in Nat /\ d > 0
  OBVIOUS
<1>2. /\ n \div d \in Nat /\ n % d \in Nat /\ n % d < d
      /\ n = (d * (n \div d)) + (n % d)
  BY <1>1, Division
<1>3. /\ (n + 1) \div d \in Nat /\ (n + 1) % d \in Nat /\ (n + 1) % d < d
      /\ n + 1 = (d * ((n + 1) \div d)) + ((n + 1) % d)
  BY <1>1, Division
<1>4. d * ((n \div d) + 1) = (d * (n \div d)) + d
  BY <1>2
<1>5. n <= d * ((n \div d) + 1)
  BY <1>1, <1>2, <1>4
<1>6. ASSUME (n + 1) % d # 0 PROVE (n + 1) \div d = n \div d
  <2> DEFINE p == (n + 1) \div d   q == n \div d   t == (n + 1) % d   r == n % d
  <2>1. p \in Nat /\ q \in Nat /\ t \in Nat /\ r \in Nat /\ r < d /\ t < d /\ t # 0
    BY <1>2, <1>3, <1>6
  <2>2. (d * p) + t = (d * q) + r + 1
    BY <1>2, <1>3
  <2> HIDE DEF p, q, t, r
  <2>3. p = q
    BY <1>1, <2>1, <2>2, SameQuotient
  <2> QED BY <2>3 DEF p, q
<1> QED BY <1>5, <1>6

\* The room after one block more.
Grown ==
  /\ reallocCount' = reallocCount + 1
  /\ capacity' = IF reallocCount' % DATA_ALLOC # 0 THEN capacity
                 ELSE DATA_ALLOC * ((reallocCount' \div DATA_ALLOC) + 1)

\* One more block leaves the room the formula gives.
LEMMA RoomKept ==
  ASSUME BlocksInv, Grown
  PROVE  capacity' = DATA_ALLOC * ((reallocCount' \div DATA_ALLOC) + 1)
<1>1. reallocCount \in Nat \ {0} /\ DATA_ALLOC \in Nat \ {0}
  BY DataAllocAssumption DEF BlocksInv
<1>2. CASE reallocCount' % DATA_ALLOC = 0
  BY <1>2 DEF Grown
<1>3. CASE reallocCount' % DATA_ALLOC # 0
  <2>1. /\ capacity' = capacity /\ reallocCount' = reallocCount + 1
        /\ reallocCount' \div DATA_ALLOC = reallocCount \div DATA_ALLOC
    BY <1>1, <1>3, Room DEF Grown
  <2>2. CASE capacity = DATA_ALLOC * ((reallocCount \div DATA_ALLOC) + 1)
    BY <2>1, <2>2
  <2>3. CASE reallocCount = 1 /\ capacity = DATA_ALLOC
    <3>1. DATA_ALLOC # 1
      BY <1>3, <2>1, <2>3
    <3>2. 1 \div DATA_ALLOC = 0
      <4>1. DATA_ALLOC \in Nat /\ DATA_ALLOC > 1
        BY <1>1, <3>1
      <4>2. \A d \in Nat : d > 1 => 1 \div d = 0
        OBVIOUS
      <4> QED BY <4>1, <4>2
    <3> QED BY <1>1, <2>1, <2>3, <3>2
  <2> QED BY <2>2, <2>3 DEF BlocksInv
<1> QED BY <1>2, <1>3

\* The next block lies within the array.
LEMMA RoomIsEnough ==
  ASSUME BlocksInv
  PROVE  reallocCount <= capacity
BY DataAllocAssumption, Room DEF BlocksInv

\* A line without data leaves the blocks alone.
LEMMA ReadKeepsBytes ==
  ASSUME LinesInv, BytesKept, NEW org, NEW size, NEW idx,
         ReadOne(org, size, idx), Line.form # "data", UNCHANGED blocks
  PROVE  BytesKept'
<1>1. CASE Refused
  BY <1>1 DEF ReadOne, Refused, BytesKept
<1>2. CASE Entered(org, size, idx)
  <2>1. /\ at \in Nat \ {0} /\ DOMAIN lines = 1 .. (at - 1)
        /\ DOMAIN lines' = 1 .. at /\ source' = source
    BY <1>2, AtALine DEF ReadOne, Entered, LinesInv, Working, Passing, IsSeq
  <2> QED BY <1>2, <2>1 DEF Entered, BytesKept, Line
<1> QED BY <1>1, <1>2 DEF ReadOne

\* A line with data fills the block that its index names, and no other.
LEMMA DataKeepsBytes ==
  ASSUME LinesInv, BlocksInv, BytesKept, ReadData
  PROVE  BytesKept' /\ BlocksInv'
<1>1. /\ ReadOne(0, Len(Line.bytes), reallocCount) /\ source' = source
      /\ reallocCount \in Nat \ {0}
      /\ DOMAIN blocks = 0 .. (reallocCount - 2)
      /\ reallocCount' = reallocCount + 1
  BY ReadCases DEF ReadOne, BlocksInv, ReadData
<1>2. blocks' = [i \in DOMAIN blocks \cup {reallocCount - 1} |->
                   IF i = reallocCount - 1 THEN Line.bytes ELSE blocks[i]]
  BY DEF ReadData
<1>3. /\ DOMAIN blocks' = 0 .. (reallocCount' - 2)
      /\ blocks'[reallocCount - 1] = Line.bytes
      /\ \A k \in DOMAIN blocks : k \in DOMAIN blocks' /\ blocks'[k] = blocks[k]
  BY <1>1, <1>2
<1>4. BlocksInv'
  BY <1>1, <1>3, RoomKept DEF BlocksInv, ReadData, Grown
<1>5. BytesKept'
  <2>1. CASE Refused
    BY <1>1, <1>3, <2>1 DEF Refused, BytesKept
  <2>2. CASE Entered(0, Len(Line.bytes), reallocCount)
    <3>1. /\ at \in Nat \ {0} /\ DOMAIN lines = 1 .. (at - 1)
          /\ DOMAIN lines' = 1 .. at
      BY <1>1, <2>2, AtALine DEF ReadOne, Entered, LinesInv, Working, Passing, IsSeq
    <3>2. lines'[at].dataidx = reallocCount
      BY <2>2 DEF Entered, LineIs
    <3>3. reallocCount - 1 \in DOMAIN blocks'
      BY <1>1, <1>3
    <3> SUFFICES ASSUME NEW i \in 1 .. at, source[i].form = "data"
                 PROVE  /\ lines'[i].dataidx - 1 \in DOMAIN blocks'
                        /\ blocks'[lines'[i].dataidx - 1] = source[i].bytes
      BY <1>1, <3>1 DEF BytesKept
    <3>4. CASE i = at
      BY <1>3, <3>2, <3>3, <3>4 DEF Line
    <3>5. CASE i # at
      BY <1>3, <2>2, <3>1, <3>5 DEF Entered, BytesKept
    <3> QED BY <3>4, <3>5
  <2> QED BY <1>1, <2>1, <2>2 DEF ReadOne
<1> QED BY <1>4, <1>5

\* Every step keeps the blocks and their room.
LEMMA BlocksKept ==
  ASSUME LinesInv, BlocksInv, BytesKept, [Next]_vars
  PROVE  BlocksInv' /\ BytesKept'
<1>1. CASE lines' = <<>> /\ blocks' = <<>> /\ reallocCount' = 1 /\ capacity' = DATA_ALLOC
  BY <1>1, NoLines DEF BlocksInv, BytesKept
<1>2. CASE ReadData
  BY <1>2, DataKeepsBytes
<1>3. CASE ReadBlank \/ ReadOrg \/ ReadEquate
  <2>1. Line.form # "data" /\ UNCHANGED <<blocks, reallocCount, capacity>>
    BY <1>3 DEF ReadBlank, ReadOrg, ReadEquate, tableVars
  <2> QED BY <1>3, <2>1, ReadCases, ReadKeepsBytes DEF BlocksInv
<1>4. CASE ReadCode
  <2>1. Line.form # "data" /\ UNCHANGED <<blocks, reallocCount, capacity>>
    BY <1>4 DEF ReadCode, tableVars
  <2>2. CASE Refused /\ source' = source
    BY <2>1, <2>2 DEF Refused, BytesKept, BlocksInv
  <2> QED BY <1>4, <2>1, <2>2, ReadCases, ReadKeepsBytes DEF BlocksInv
<1>5. CASE Patch
  <2>1. UNCHANGED <<blocks, reallocCount, capacity>> /\ source' = source
    BY <1>5, PatchCases DEF Patch, tableVars
  <2>2. CASE Refused
    BY <2>1, <2>2 DEF Refused, BytesKept, BlocksInv
  <2>3. CASE Patched
    BY <2>1, <2>3 DEF Patched, BytesKept, BlocksInv, IsSeq, LinesInv
  <2> QED BY <1>5, <2>2, <2>3, PatchCases
<1>6. CASE UNCHANGED <<source, lines, blocks, reallocCount, capacity>>
  BY <1>6 DEF BlocksInv, BytesKept
<1> QED
  BY <1>1, <1>2, <1>3, <1>4, <1>5, <1>6, OtherSteps

------------------------------------------------------------------------------
\* What n bytes of a row, at their place, make of a file.
PutIs(f, file, row, place, n) ==
  /\ DOMAIN f = {"head", "byte", "len", "rows", "complete"}
  /\ f.rows = file.rows /\ f.complete = file.complete
  /\ DOMAIN f.byte = DOMAIN file.byte \cup place
  /\ f.byte = [a \in DOMAIN f.byte |-> f.byte[a]]
  /\ \A a \in place : f.byte[a] = row.bytes[(a - row.address) + 1]
  /\ \A a \in DOMAIN file.byte \ place : f.byte[a] = file.byte[a]
  /\ f.len \in Nat /\ f.len >= file.len
  /\ n = 0 => f.len = file.len
  /\ n # 0 => f.len >= row.address + n /\ (f.len = file.len \/ f.len = row.address + n)

\* Put does that.
LEMMA PutFacts ==
  ASSUME NEW file, NEW row, NEW n \in Nat,
         DOMAIN file = {"head", "byte", "len", "rows", "complete"},
         file.len \in Nat, row.address \in Nat
  PROVE  PutIs(Put(file, row, n), file, row, row.address .. (row.address + n - 1), n)
<1> DEFINE place == row.address .. (row.address + n - 1)
           f == Put(file, row, n)
           byte == [a \in DOMAIN file.byte \cup place |->
                      IF a \in place THEN row.bytes[(a - row.address) + 1]
                                     ELSE file.byte[a]]
           len == IF n = 0 THEN file.len ELSE Max({file.len, row.address + n})
<1>1. f = [file EXCEPT !.byte = byte, !.len = len]
  BY DEF Put
<1>2. /\ DOMAIN f = {"head", "byte", "len", "rows", "complete"}
      /\ f.rows = file.rows /\ f.complete = file.complete
      /\ f.byte = byte /\ f.len = len
  <2> HIDE DEF f, byte, len
  <2> QED BY <1>1
<1>3. /\ DOMAIN byte = DOMAIN file.byte \cup place
      /\ byte = [a \in DOMAIN byte |-> byte[a]]
      /\ \A a \in place : byte[a] = row.bytes[(a - row.address) + 1]
      /\ \A a \in DOMAIN file.byte \ place : byte[a] = file.byte[a]
  <2> HIDE DEF place
  <2> QED OBVIOUS
<1>4. /\ len \in Nat /\ len >= file.len
      /\ n = 0 => len = file.len
      /\ n # 0 => len >= row.address + n /\ (len = file.len \/ len = row.address + n)
  BY DEF Max
<1> HIDE DEF f, byte, len, place
<1>5. PutIs(f, file, row, place, n)
  BY <1>2, <1>3, <1>4 DEF PutIs
<1> QED BY <1>5 DEF f, place

\* A file keeps its shape.
LEMMA PutKeepsShape ==
  ASSUME NEW file, FileShape(file), NEW row, NEW n \in Nat, row.address \in Nat
  PROVE  FileShape(Put(file, row, n))
<1> DEFINE f == Put(file, row, n)
           place == row.address .. (row.address + n - 1)
<1>1. /\ DOMAIN f = {"head", "byte", "len", "rows", "complete"}
      /\ DOMAIN f.byte = DOMAIN file.byte \cup place
      /\ f.byte = [a \in DOMAIN f.byte |-> f.byte[a]]
      /\ f.len \in Nat /\ f.len >= file.len
      /\ n = 0 => f.len = file.len
      /\ n # 0 => f.len >= row.address + n /\ (f.len = file.len \/ f.len = row.address + n)
  BY PutFacts DEF FileShape, PutIs
<1>2. file.len \in Nat /\ DOMAIN file.byte \in SUBSET Nat
      /\ (\A a \in DOMAIN file.byte : a < file.len)
      /\ (file.len # 0 => file.len - 1 \in DOMAIN file.byte)
  BY DEF FileShape
<1> HIDE DEF f
<1>3. DOMAIN f.byte \in SUBSET Nat
  BY <1>1, <1>2
<1>4. ASSUME NEW a \in DOMAIN f.byte PROVE a < f.len
  <2>1. CASE a \in place
    BY <1>1, <2>1
  <2>2. CASE a \in DOMAIN file.byte
    BY <1>1, <1>2, <2>2
  <2> QED BY <1>1, <2>1, <2>2
<1>5. f.len # 0 => f.len - 1 \in DOMAIN f.byte
  <2>1. n # 0 => row.address + n - 1 \in place
    OBVIOUS
  <2> QED BY <1>1, <1>2, <2>1
<1> QED BY <1>1, <1>3, <1>4, <1>5 DEF FileShape, f

\* Writing the row after those that are written.
LEMMA WroteRow ==
  ASSUME LinesInv, ImageInv, pass = "image", NEW row,
         row.address \in Nat, IsSeq(row.bytes), NEW f,
         f.byte = Put(image, row, Len(row.bytes)).byte,
         f.rows = [image.rows EXCEPT ![at] = row]
  PROVE  RowsAreWritten(f, {i \in DOMAIN image.rows : i <= at})
<1> DEFINE n == Len(row.bytes)
           place == row.address .. (row.address + n - 1)
           I == {i \in DOMAIN image.rows : i <= at}
           J == {i \in DOMAIN image.rows : i < at}
<1>1. n \in Nat
  BY DEF IsSeq
<1>2. /\ DOMAIN f.byte = DOMAIN image.byte \cup place
      /\ \A a \in place : f.byte[a] = row.bytes[(a - row.address) + 1]
      /\ \A a \in DOMAIN image.byte \ place : f.byte[a] = image.byte[a]
  <2>1. DOMAIN image = {"head", "byte", "len", "rows", "complete"} /\ image.len \in Nat
    BY DEF ImageInv, FileShape
  <2>2. PutIs(Put(image, row, n), image, row, place, n)
    BY <1>1, <2>1, PutFacts
  <2> QED BY <2>2 DEF PutIs
<1>3. /\ at \in DOMAIN image.rows /\ DOMAIN image.rows \in SUBSET Nat /\ at \in Nat
      /\ f.rows[at] = row
      /\ \A i \in DOMAIN image.rows : i # at => f.rows[i] = image.rows[i]
  BY AtALine DEF ImageInv, RowsInv, Working, Writing
<1>4. I = J \cup {at}
  BY <1>3
<1>5. RowsAreWritten(image, J)
  BY DEF ImageInv, Past
<1>6. \A a \in Nat : a \in place <=> Covers(row, a)
  BY <1>1 DEF Covers
<1>7. DOMAIN image.byte \in SUBSET Nat /\ place \in SUBSET Nat
  BY <1>1 DEF ImageInv, FileShape
<1>8. ASSUME NEW i \in I PROVE Place(f.rows[i]) \subseteq DOMAIN f.byte
  <2>1. CASE i = at
    BY <1>2, <1>3, <2>1 DEF Place
  <2>2. CASE i # at
    BY <1>2, <1>3, <1>4, <1>5, <2>2 DEF RowsAreWritten
  <2> QED BY <2>1, <2>2
<1>9. ASSUME NEW a \in DOMAIN f.byte
      PROVE  \E i \in I : /\ Covers(f.rows[i], a)
                          /\ \A j \in I : Covers(f.rows[j], a) => j <= i
                          /\ f.byte[a] = ByteOf(f.rows[i], a)
  <2>1. CASE a \in place
    <3>1. Covers(f.rows[at], a)
      BY <1>3, <1>6, <1>7, <2>1
    <3>2. f.byte[a] = ByteOf(f.rows[at], a)
      BY <1>2, <1>3, <2>1 DEF ByteOf
    <3>3. at \in I /\ \A j \in I : j <= at
      BY <1>3
    <3> QED BY <3>1, <3>2, <3>3
  <2>2. CASE a \notin place
    <3>1. a \in DOMAIN image.byte /\ f.byte[a] = image.byte[a]
      BY <1>2, <2>2
    <3>2. PICK i \in J : /\ Covers(image.rows[i], a)
                         /\ \A j \in J : Covers(image.rows[j], a) => j <= i
                         /\ image.byte[a] = ByteOf(image.rows[i], a)
      BY <1>5, <3>1 DEF RowsAreWritten
    <3>3. ~ Covers(f.rows[at], a)
      BY <1>3, <1>6, <1>7, <2>2, <3>1
    <3>4. \A j \in J : f.rows[j] = image.rows[j]
      BY <1>3
    <3> HIDE DEF I, J
    <3> QED BY <1>4, <3>1, <3>2, <3>3, <3>4
  <2> QED BY <2>1, <2>2
<1> QED BY <1>8, <1>9 DEF RowsAreWritten

\* Steps that write nothing keep what is known of the image.
LEMMA SameImage ==
  ASSUME ImageInv, image' = image, pass' # "image"
  PROVE  ImageInv'
<1>1. /\ FileShape(image') /\ image'.complete \in BOOLEAN /\ RowsInv(image'.rows)
  BY DEF ImageInv
<1>2. Past \subseteq DOMAIN image.rows /\ Past' = DOMAIN image.rows
  BY DEF Past
<1>3. BytesAreOf(image', Past')
  BY <1>2 DEF ImageInv, BytesAreOf
<1>4. image.complete => Past = DOMAIN image.rows
  BY DEF ImageInv, Past
<1>5. image'.complete => RowsAreWritten(image', Past')
  BY <1>2, <1>4 DEF ImageInv
<1> QED BY <1>1, <1>3, <1>5 DEF ImageInv

\* One more line is through.
LEMMA WroteKeepsImage ==
  ASSUME LinesInv, ImageInv, pass = "image", NEW row,
         DOMAIN row = {"address", "bytes"}, row.address \in Nat, IsSeq(row.bytes),
         DOMAIN image' = {"head", "byte", "len", "rows", "complete"},
         image'.byte = Put(image, row, Len(row.bytes)).byte,
         image'.len = Put(image, row, Len(row.bytes)).len,
         image'.rows = [image.rows EXCEPT ![at] = row],
         image'.complete \in BOOLEAN, image'.complete => at = Len(source),
         source' = source, Advance("success")
  PROVE  ImageInv'
<1> DEFINE I == {i \in DOMAIN image.rows : i <= at}
<1>1. RowsAreWritten(image', I)
  BY WroteRow
<1>2. /\ DOMAIN image.rows = 1 .. Len(source) /\ Len(source) \in Nat
      /\ at \in 1 .. Len(source) /\ DOMAIN image'.rows = DOMAIN image.rows
  BY AtALine DEF ImageInv, Working, Writing
<1>3. Past' = I
  <2>1. CASE at = Len(source) /\ at' = 1 /\ pass' = "success"
    BY <1>2, <2>1 DEF Past
  <2>2. CASE at < Len(source) /\ at' = at + 1 /\ pass' = pass
    BY <1>2, <2>2 DEF Past
  <2> QED BY <2>1, <2>2, AdvanceCases DEF Working, Writing
<1>4. FileShape(image')
  <2>1. FileShape(Put(image, row, Len(row.bytes)))
    BY PutKeepsShape DEF ImageInv, IsSeq
  <2> QED BY <2>1 DEF FileShape
<1>5. RowsInv(image'.rows)
  <2>1. \A i \in DOMAIN image.rows : image'.rows[i] = IF i = at THEN row ELSE image.rows[i]
    OBVIOUS
  <2>2. RowsInv(image.rows)
    BY DEF ImageInv
  <2>3. ASSUME NEW i \in DOMAIN image.rows
        PROVE  /\ DOMAIN image'.rows[i] = {"address", "bytes"}
               /\ image'.rows[i].address \in Nat /\ IsSeq(image'.rows[i].bytes)
    BY <2>1, <2>2, <2>3, Zenon DEF RowsInv
  <2> QED BY <1>2, <2>2, <2>3 DEF RowsInv
<1>6. BytesAreOf(image', I)
  <2> HIDE DEF I
  <2> QED BY <1>1 DEF RowsAreWritten, BytesAreOf
<1>7. pass' = "image" => ~ image'.complete
  <2>1. at = Len(source) => pass' = "success"
    BY Zenon DEF Advance
  <2>2. "success" # "image"
    BY Zenon
  <2> QED BY <2>1, <2>2, Zenon
<1>8. DOMAIN image'.rows = DOMAIN source'
  BY <1>2, AtALine DEF Working, Writing
<1> HIDE DEF I
<1> QED BY <1>1, <1>3, <1>4, <1>5, <1>6, <1>7, <1>8 DEF ImageInv

\* The lines make rows.
LEMMA RowsShape ==
  ASSUME LinesInv
  PROVE  RowsInv(Rows) /\ DOMAIN Rows = DOMAIN lines
<1>1. ASSUME NEW i \in DOMAIN lines
      PROVE  /\ DOMAIN Rows[i] = {"address", "bytes"}
             /\ Rows[i].address \in Nat /\ IsSeq(Rows[i].bytes)
  <2>1. lines[i].address \in Nat /\ lines[i].size \in Nat
    BY <1>1 DEF LinesInv, IsSeq
  <2>2. Rows[i] = [address |-> lines[i].address, bytes |-> LineBytes(i)]
    BY <1>1 DEF Rows
  <2> QED BY <2>1, <2>2, LineBytesIsSeq
<1>2. /\ DOMAIN Rows = DOMAIN lines /\ DOMAIN lines \in SUBSET Nat
      /\ Rows = [i \in DOMAIN Rows |-> Rows[i]]
  BY DEF Rows, LinesInv, IsSeq
<1> QED BY <1>1, <1>2 DEF RowsInv

\* A file that has just been opened.
LEMMA OpenKeepsImage ==
  ASSUME LinesInv, OpenImage
  PROVE  ImageInv'
<1>1. PICK n : /\ image' = [Empty EXCEPT !.head = n, !.rows = Rows]
               /\ pass' = IF n = HOFF THEN "image" ELSE "success"
               /\ source' = source /\ at' = at /\ pass = "open"
  BY DEF OpenImage, Goes
<1>2. /\ DOMAIN image' = {"head", "byte", "len", "rows", "complete"}
      /\ image'.byte = <<>> /\ image'.len = 0 /\ image'.rows = Rows
      /\ image'.complete = FALSE
  BY <1>1 DEF Empty
<1>3. FileShape(image') /\ DOMAIN image'.byte = {}
  BY <1>2, NoLines DEF FileShape
<1>4. DOMAIN Rows = 1 .. Len(source) /\ DOMAIN source = 1 .. Len(source) /\ at = 1
  BY <1>1, RowsShape, AtALine DEF LinesInv, Working, Passing, Writing, IsSeq
<1>5. pass' = "image" => Past' = {}
  BY <1>1, <1>2, <1>4 DEF Past
<1>6. BytesAreOf(image', Past')
  BY <1>3 DEF BytesAreOf
<1>7. pass' = "image" => RowsAreWritten(image', Past')
  BY <1>3, <1>5 DEF RowsAreWritten
<1> QED BY <1>1, <1>2, <1>3, <1>4, <1>6, <1>7, RowsShape DEF ImageInv

\* A write that fails leaves some bytes of its row behind.
LEMMA FailKeepsImage ==
  ASSUME LinesInv, ImageInv, WriteFails
  PROVE  ImageInv'
<1>1. PICK n \in 0 .. (Len(image.rows[at].bytes) - 1) :
        image' = Put(image, image.rows[at], n)
  BY DEF WriteFails
<1> DEFINE row == image.rows[at]
           place == row.address .. (row.address + n - 1)
<1>2. pass = "image" /\ pass' = "success"
  BY DEF WriteFails, Goes
<1>3. at \in DOMAIN image.rows /\ DOMAIN image.rows \in SUBSET Nat
  BY <1>2, AtALine DEF ImageInv, RowsInv, Working, Writing
<1>4. /\ row.address \in Nat /\ IsSeq(row.bytes)
      /\ n \in Nat /\ n < Len(row.bytes) /\ Len(row.bytes) \in Nat
  <2>1. row.address \in Nat /\ IsSeq(row.bytes)
    BY <1>3 DEF ImageInv, RowsInv
  <2>2. Len(row.bytes) \in Nat
    BY <2>1 DEF IsSeq
  <2> QED BY <1>1, <2>1, <2>2
<1>5. PutIs(image', image, row, place, n)
  BY <1>1, <1>4, PutFacts DEF ImageInv, FileShape
<1>6. FileShape(image')
  BY <1>1, <1>4, PutKeepsShape DEF ImageInv
<1>7. ASSUME NEW a \in DOMAIN image'.byte
      PROVE  \E i \in DOMAIN image.rows :
               /\ Covers(image.rows[i], a)
               /\ image'.byte[a] = ByteOf(image.rows[i], a)
  <2>1. CASE a \in place
    <3>1. Covers(row, a)
      <4>1. row.address + n - 1 \in Int
        BY <1>4
      <4>2. a \in Int /\ row.address <= a /\ a <= row.address + n - 1
        BY <1>4, <2>1, <4>1
      <4> HIDE DEF row
      <4> QED BY <1>4, <4>2 DEF Covers
    <3>2. image'.byte[a] = ByteOf(row, a)
      BY <1>5, <2>1 DEF PutIs, ByteOf
    <3> QED BY <1>3, <3>1, <3>2
  <2>2. CASE a \notin place
    <3>1. a \in DOMAIN image.byte /\ image'.byte[a] = image.byte[a]
      BY <1>5, <1>7, <2>2 DEF PutIs
    <3>2. Past \subseteq DOMAIN image.rows
      BY DEF Past
    <3> QED BY <3>1, <3>2 DEF ImageInv, BytesAreOf
  <2> QED BY <2>1, <2>2
<1>8. image'.rows = image.rows /\ image'.complete = FALSE
  BY <1>2, <1>5 DEF PutIs, ImageInv
<1>9. Past' = DOMAIN image.rows
  BY <1>2, <1>8 DEF Past
<1>10. BytesAreOf(image', Past')
  BY <1>7, <1>8, <1>9 DEF BytesAreOf
<1> QED BY <1>2, <1>6, <1>8, <1>10 DEF ImageInv

\* Every step keeps it.
LEMMA ImageKept ==
  ASSUME LinesInv, ImageInv, [Next]_vars
  PROVE  ImageInv'
<1>1. ASSUME NEW s \in Sources, Compile(s) PROVE ImageInv'
  BY <1>1, SameImage DEF Compile, Begin
<1>2. ASSUME Passes, UNCHANGED toolVars PROVE ImageInv'
  <2>1. image' = image
    BY <1>2 DEF toolVars
  <2>2. CASE ReadBlank \/ ReadOrg \/ ReadEquate \/ ReadCode \/ ReadData
    <3>1. pass' # "image"
      BY <2>2, ReadCases DEF ReadOne, Refused, Entered
    <3> QED BY <2>1, <3>1, SameImage
  <2>3. CASE GrowCrash \/ ReadBad
    BY <2>1, <2>3, SameImage DEF GrowCrash, ReadBad, Fatal
  <2>4. CASE PutLabel \/ NoPatch
    BY <2>1, <2>4, SameImage DEF PutLabel, NoPatch, Advance
  <2>5. CASE Patch
    <3>1. pass' # "image"
      BY <2>5, PatchCases DEF Refused, Advance, Patch
    <3> QED BY <2>1, <3>1, SameImage
  <2> QED BY <1>2, <2>2, <2>3, <2>4, <2>5 DEF Passes
<1>3. CASE WriteListing \/ Kill \/ CannotOpen
  BY <1>3, SameImage DEF WriteListing, Kill, CannotOpen, Goes, toolVars
<1>4. CASE OpenImage
  BY <1>4, OpenKeepsImage
<1>5. CASE WriteLine
  <2> DEFINE row == image.rows[at]
             complete == at = Len(source) /\ image.rows = Rows
  <2>1. /\ pass = "image" /\ source' = source /\ Advance("success")
        /\ image' = [Put(image, row, Len(row.bytes)) EXCEPT !.complete = complete]
    BY <1>5 DEF WriteLine
  <2>2. /\ DOMAIN row = {"address", "bytes"} /\ row.address \in Nat /\ IsSeq(row.bytes)
        /\ image.rows = [image.rows EXCEPT ![at] = row]
    <3>1. at \in DOMAIN image.rows
      BY <2>1, AtALine DEF ImageInv, Working, Writing
    <3> QED BY <3>1 DEF ImageInv, RowsInv
  <2>3. PutIs(Put(image, row, Len(row.bytes)), image, row,
              row.address .. (row.address + Len(row.bytes) - 1), Len(row.bytes))
    BY <2>2, PutFacts DEF ImageInv, FileShape, IsSeq
  <2> HIDE DEF row, complete
  <2>4. /\ DOMAIN image' = {"head", "byte", "len", "rows", "complete"}
        /\ image'.byte = Put(image, row, Len(row.bytes)).byte
        /\ image'.len = Put(image, row, Len(row.bytes)).len
        /\ image'.rows = image.rows /\ image'.complete = complete
    BY <2>1, <2>3 DEF PutIs
  <2>5. complete \in BOOLEAN /\ (complete => at = Len(source))
    BY DEF complete
  <2> QED BY <2>1, <2>2, <2>4, <2>5, WroteKeepsImage
<1>6. CASE WriteShort
  <2>1. PICK p : /\ p \in DOMAIN image.rows[at].bytes /\ p \in {2, 4}
                 /\ LET row == [image.rows[at] EXCEPT !.bytes = RemoveAt(@, p)]
                    IN  image' = [Put(image, row, Len(row.bytes)) EXCEPT !.rows[at] = row]
    BY <1>6 DEF WriteShort
  <2> DEFINE row == [image.rows[at] EXCEPT !.bytes = RemoveAt(@, p)]
  <2>2. /\ pass = "image" /\ source' = source /\ Advance("success")
        /\ image' = [Put(image, row, Len(row.bytes)) EXCEPT !.rows[at] = row]
    BY <1>6, <2>1 DEF WriteShort
  <2>3. at \in DOMAIN image.rows
    BY <2>2, AtALine DEF ImageInv, Working, Writing
  <2>4. /\ DOMAIN image.rows[at] = {"address", "bytes"}
        /\ image.rows[at].address \in Nat /\ IsSeq(image.rows[at].bytes)
    BY <2>3 DEF ImageInv, RowsInv
  <2>5. IsSeq(RemoveAt(image.rows[at].bytes, p))
    BY <2>1, <2>4, Removed
  <2>6. DOMAIN row = {"address", "bytes"} /\ row.address \in Nat /\ IsSeq(row.bytes)
    BY <2>4, <2>5
  <2>7. PutIs(Put(image, row, Len(row.bytes)), image, row,
              row.address .. (row.address + Len(row.bytes) - 1), Len(row.bytes))
    BY <2>6, PutFacts DEF ImageInv, FileShape, IsSeq
  <2> HIDE DEF row
  <2>8. /\ DOMAIN image' = {"head", "byte", "len", "rows", "complete"}
        /\ image'.byte = Put(image, row, Len(row.bytes)).byte
        /\ image'.len = Put(image, row, Len(row.bytes)).len
        /\ image'.rows = [image.rows EXCEPT ![at] = row]
        /\ image'.complete = image.complete
    BY <2>2, <2>7 DEF PutIs
  <2>9. image.complete = FALSE
    BY <2>2 DEF ImageInv
  <2> QED BY <2>2, <2>6, <2>8, <2>9, WroteKeepsImage
<1>7. CASE WriteFails
  BY <1>7, FailKeepsImage
<1>8. CASE Run
  BY <1>8, SameImage DEF Run, RunNothing, RunImage, RunSource, RunLarge, RunUnread,
                         Call, Ends, asmVars, Resting
<1>9. CASE UNCHANGED vars
  BY <1>9 DEF vars, asmVars, toolVars, ImageInv, Past
<1> QED
  BY <1>1, <1>2, <1>3, <1>4, <1>5, <1>6, <1>7, <1>8, <1>9 DEF Next

------------------------------------------------------------------------------
\* The listing is what the writer writes; what a run loads is the image.
LEMMA SameRows ==
  ASSUME UNCHANGED <<source, lines, blocks>>
  PROVE  Rows' = Rows
BY DEF Rows, LineBytes

\* While compile writes nothing runs.
LEMMA WriterKeepsRun ==
  ASSUME LinesInv, ImageInv, RunInv, [Next]_vars, pass \in Writing
  PROVE  RunInv'
<1>1. run # "loaded"
  BY DEF RunInv, Working
<1>2. CASE WriteListing
  <2>1. UNCHANGED <<source, lines, blocks>> /\ listing' \in Parts(Rows)
    BY <1>2 DEF WriteListing, Goes, tableVars
  <2> QED BY <1>1, <1>2, <2>1, SameRows DEF WriteListing, Goes, KeepRun, RunInv
<1>3. CASE OpenImage
  <2>1. UNCHANGED <<source, lines, blocks>> /\ listing' = listing /\ listing \in Parts(Rows)
    BY <1>3 DEF OpenImage, Goes, tableVars, RunInv
  <2>2. image'.complete = FALSE
    BY <1>3 DEF OpenImage, Empty
  <2> QED BY <1>1, <1>3, <2>1, <2>2, SameRows DEF OpenImage, KeepRun, RunInv
<1>4. CASE WriteLine
  <2>1. UNCHANGED <<source, lines, blocks>> /\ listing' = listing /\ listing \in Parts(Rows)
    BY <1>4 DEF WriteLine, tableVars, RunInv
  <2>2. image'.complete => image'.rows = Rows
    <3> DEFINE row == image.rows[at]
               f == Put(image, row, Len(row.bytes))
               complete == at = Len(source) /\ image.rows = Rows
    <3>1. image' = [f EXCEPT !.complete = complete]
      BY <1>4 DEF WriteLine
    <3>2. DOMAIN f = DOMAIN image /\ f.rows = image.rows
      BY DEF Put, ImageInv, FileShape
    <3>3. "rows" \in DOMAIN image /\ "complete" \in DOMAIN image
      BY DEF ImageInv, FileShape
    <3> HIDE DEF row, f, complete
    <3>4. image'.complete = complete /\ image'.rows = image.rows
      <4> HIDE <1>4
      <4> QED BY <3>1, <3>2, <3>3
    <3> QED BY <3>4 DEF complete
  <2> QED BY <1>1, <1>4, <2>1, <2>2, SameRows DEF WriteLine, KeepRun, RunInv
<1>5. CASE WriteShort
  <2>1. UNCHANGED <<source, lines, blocks>> /\ listing' = listing /\ listing \in Parts(Rows)
    BY <1>5 DEF WriteShort, tableVars, RunInv
  <2>2. pass' = "success" => image'.complete = FALSE
    <3>1. PICK row, n : image' = [Put(image, row, n) EXCEPT !.rows[at] = row]
      BY <1>5 DEF WriteShort
    <3> DEFINE f == Put(image, row, n)
    <3>2. DOMAIN f = DOMAIN image /\ f.complete = image.complete
      BY DEF Put, ImageInv, FileShape
    <3>3. /\ DOMAIN image = {"head", "byte", "len", "rows", "complete"}
          /\ image.complete = FALSE
      BY <1>5 DEF ImageInv, FileShape, WriteShort
    <3>4. image' = [f EXCEPT !.rows[at] = row]
      BY <3>1
    <3> HIDE DEF f
    <3> QED BY <3>2, <3>3, <3>4
  <2> QED BY <1>1, <1>5, <2>1, <2>2, SameRows DEF WriteShort, KeepRun, RunInv
<1>6. CASE WriteFails
  <2>1. pass' = "success" /\ pass = "image"
    BY <1>6 DEF WriteFails, Goes
  <2>2. image'.complete = FALSE
    <3>1. PICK row, n : image' = Put(image, row, n)
      BY <1>6 DEF WriteFails
    <3> QED BY <2>1, <3>1 DEF Put, ImageInv, FileShape
  <2> QED BY <1>1, <1>6, <2>1, <2>2 DEF WriteFails, KeepRun, RunInv
<1>7. CASE Kill \/ CannotOpen
  BY <1>1, <1>7 DEF Kill, CannotOpen, Goes, KeepRun, toolVars, RunInv
<1>8. CASE UNCHANGED vars
  BY <1>1, <1>8, SameRows DEF vars, asmVars, tableVars, toolVars, RunInv
<1>9. ~ Passes /\ ~ Call
  BY DEF Passes, ReadBlank, ReadOrg, ReadEquate, ReadCode, ReadData, GrowCrash, ReadBad,
         PutLabel, NoPatch, Patch, Call, Writing, Resting
<1> QED
  BY <1>2, <1>3, <1>4, <1>5, <1>6, <1>7, <1>8, <1>9
     DEF Next, Compile, Run, RunNothing, RunImage, RunSource, RunLarge, RunUnread

\* Every step keeps what is known of the run.
LEMMA RunKept ==
  ASSUME LinesInv, ImageInv, RunInv, [Next]_vars
  PROVE  RunInv'
<1>1. CASE pass \in Writing
  BY <1>1, WriterKeepsRun
<1>2. CASE pass \in Passing
  <2>1. run # "loaded"
    BY <1>2 DEF RunInv, Working
  <2>2. CASE UNCHANGED vars
    BY <1>2, <2>1, <2>2 DEF vars, asmVars, toolVars, RunInv, Passing
  <2>3. CASE Kill
    BY <2>1, <2>3 DEF Kill, KeepRun, RunInv
  <2>4. CASE Passes /\ UNCHANGED toolVars
    <3>1. pass' \notin {"open", "image", "success"}
      <4>1. CASE ReadBlank \/ ReadOrg \/ ReadEquate \/ ReadCode \/ ReadData
        BY <4>1, ReadCases DEF ReadOne, Refused, Entered
      <4>2. CASE GrowCrash \/ ReadBad
        BY <4>2 DEF GrowCrash, ReadBad, Fatal
      <4>3. CASE PutLabel \/ NoPatch
        BY <4>3 DEF PutLabel, NoPatch, Advance
      <4>4. CASE Patch
        BY <4>4, PatchCases DEF Refused, Advance, Patch
      <4> QED BY <2>4, <4>1, <4>2, <4>3, <4>4 DEF Passes
    <3> QED BY <2>1, <2>4, <3>1 DEF toolVars, RunInv
  <2>5. ~ Call /\ pass \notin Writing
    BY <1>2 DEF Call, Passing, Resting, Writing
  <2>6. ~ Run /\ ~ \E s \in Sources : Compile(s)
    BY <2>5 DEF Compile, Run, RunNothing, RunImage, RunSource, RunLarge, RunUnread
  <2>7. /\ ~ (WriteListing \/ OpenImage \/ WriteLine)
        /\ ~ (CannotOpen \/ WriteShort \/ WriteFails)
    BY <2>5 DEF WriteListing, OpenImage, WriteLine, WriteShort, WriteFails, CannotOpen, Writing
  <2> QED
    BY <2>2, <2>3, <2>4, <2>6, <2>7 DEF Next
<1>3. CASE pass \in Resting
  <2>1. ASSUME NEW s \in Sources, Compile(s) PROVE RunInv'
    BY <2>1 DEF Compile, Begin, RunInv
  <2>2. CASE Run
    <3>1. UNCHANGED <<asmVars, listing, image>>
          /\ (run' = "loaded" => memory' = Held(image))
      BY <2>2 DEF Run, RunNothing, RunImage, RunSource, RunLarge, RunUnread, Ends
    <3> QED BY <1>3, <3>1 DEF RunInv, asmVars, Held, Working, Passing, Writing, Resting
  <2>3. CASE UNCHANGED vars
    BY <1>3, <2>3 DEF vars, asmVars, toolVars, RunInv, Held, Working, Resting
  <2>4. /\ ~ Passes /\ ~ WriteListing /\ ~ OpenImage /\ ~ WriteLine /\ ~ Kill
        /\ ~ CannotOpen /\ ~ WriteShort /\ ~ WriteFails
    BY <1>3 DEF Passes, ReadBlank, ReadOrg, ReadEquate, ReadCode, ReadData, GrowCrash,
                ReadBad, PutLabel, NoPatch, Patch, WriteListing, OpenImage, WriteLine,
                Kill, CannotOpen, WriteShort, WriteFails, Resting, Passing, Writing
  <2> QED BY <2>1, <2>2, <2>3, <2>4 DEF Next
<1> QED BY <1>1, <1>2, <1>3 DEF LinesInv

------------------------------------------------------------------------------
\* The invariant holds.
LEMMA InvInit == Init => Inv
<1> SUFFICES ASSUME Init PROVE Inv
  OBVIOUS
<1> USE DEF Init, AsmInit, Empty, NoBlock
<1>1. LinesInv
  BY Tuples, EmptySeq DEF LinesInv, Working, Passing, Writing, Resting
<1>2. OverlapOnlyByOrg /\ BytesKept /\ BlocksInv
  BY NoLines DEF OverlapOnlyByOrg, BytesKept, BlocksInv
<1>3. /\ FileShape(image) /\ RowsInv(image.rows) /\ BytesAreOf(image, Past)
      /\ image.complete = FALSE
  BY NoLines DEF FileShape, RowsInv, BytesAreOf
<1>4. ImageInv
  BY <1>3 DEF ImageInv
<1>5. RunInv
  BY DEF RunInv
<1> QED BY <1>1, <1>2, <1>4, <1>5 DEF Inv

\* Every step keeps all of it.
LEMMA InvKept == Inv /\ [Next]_vars => Inv'
<1> SUFFICES ASSUME Inv, [Next]_vars PROVE Inv'
  OBVIOUS
<1> USE DEF Inv
<1>1. LinesInv'
  BY LinesKept
<1>2. OverlapOnlyByOrg'
  BY OrderKept
<1>3. BlocksInv' /\ BytesKept'
  BY BlocksKept
<1>4. ImageInv'
  BY ImageKept
<1>5. RunInv'
  BY RunKept
<1> QED BY <1>1, <1>2, <1>3, <1>4, <1>5

\* The invariant holds.
LEMMA InvHolds == Spec => []Inv
BY InvInit, InvKept, PTL DEF Spec

\* The maximum of a set of numbers that has one.
LEMMA MaxIs ==
  ASSUME NEW S \in SUBSET Nat, NEW m \in S, \A x \in S : x <= m
  PROVE  Max(S) = m
<1>1. m \in S /\ \A x \in S : m >= x
  OBVIOUS
<1>2. Max(S) \in S /\ \A x \in S : Max(S) >= x
  BY <1>1 DEF Max
<1>3. Max(S) >= m /\ m >= Max(S) /\ m \in Nat /\ Max(S) \in Nat
  BY <1>1, <1>2
<1> QED BY <1>3

\* What the bytes of a file are when all its rows have been written.
LEMMA AllRowsWritten ==
  ASSUME FileShape(image), RowsInv(image.rows),
         RowsAreWritten(image, DOMAIN image.rows)
  PROVE  image.byte = Expected(image.rows)
<1> DEFINE rows == image.rows
           place(i) == rows[i].address .. (rows[i].address + Len(rows[i].bytes) - 1)
           last(a) == Max({i \in DOMAIN rows : Covers(rows[i], a)})
           places == UNION {place(i) : i \in DOMAIN rows}
<1>1. \A i \in DOMAIN rows : rows[i].address \in Nat /\ Len(rows[i].bytes) \in Nat
  BY DEF RowsInv, IsSeq
<1>2. DOMAIN rows \in SUBSET Nat /\ DOMAIN image.byte \in SUBSET Nat
  BY DEF RowsInv, FileShape
<1>3. ASSUME NEW a \in DOMAIN image.byte
      PROVE  a \in places /\ image.byte[a] = ByteOf(rows[last(a)], a)
  <2>1. PICK i \in DOMAIN rows :
          /\ Covers(rows[i], a)
          /\ \A j \in DOMAIN rows : Covers(rows[j], a) => j <= i
          /\ image.byte[a] = ByteOf(rows[i], a)
    BY DEF RowsAreWritten
  <2>2. a \in place(i)
    BY <1>1, <1>2, <2>1 DEF Covers
  <2>3. last(a) = i
    <3> DEFINE S == {k \in DOMAIN rows : Covers(rows[k], a)}
    <3>1. i \in S /\ S \in SUBSET Nat /\ \A k \in S : k <= i
      BY <1>2, <2>1
    <3> HIDE DEF S
    <3>2. Max(S) = i
      BY <3>1, MaxIs
    <3> QED BY <3>2 DEF S
  <2> QED BY <2>1, <2>2, <2>3
<1>4. places \subseteq DOMAIN image.byte
  BY DEF RowsAreWritten, Place
<1>5. Expected(rows) = [a \in places |-> ByteOf(rows[last(a)], a)]
  BY DEF Expected
<1>6. image.byte = [a \in DOMAIN image.byte |-> image.byte[a]]
  BY DEF FileShape
<1> HIDE DEF places, last
<1> QED BY <1>3, <1>4, <1>5, <1>6

\* The length of a file is the end of its last byte.
LEMMA LengthIsEnd ==
  ASSUME NEW file, FileShape(file)
  PROVE  file.len = Max({0} \cup {a + 1 : a \in DOMAIN file.byte})
<1> DEFINE S == {0} \cup {a + 1 : a \in DOMAIN file.byte}
<1>1. /\ file.len \in Nat /\ DOMAIN file.byte \in SUBSET Nat
      /\ \A a \in DOMAIN file.byte : a < file.len
      /\ file.len # 0 => file.len - 1 \in DOMAIN file.byte
  BY DEF FileShape
<1>2. S \in SUBSET Nat /\ \A x \in S : x <= file.len
  BY <1>1
<1>3. file.len \in S
  <2>1. CASE file.len = 0
    BY <2>1
  <2>2. CASE file.len # 0
    <3>1. file.len = (file.len - 1) + 1 /\ file.len - 1 \in DOMAIN file.byte
      BY <1>1, <2>2
    <3> QED BY <3>1
  <2> QED BY <2>1, <2>2
<1> HIDE DEF S
<1>4. Max(S) = file.len
  BY <1>2, <1>3, MaxIs
<1> QED BY <1>4 DEF S

------------------------------------------------------------------------------
\* Lines run into each other only where an .org says so, whatever the file and
\* wherever the compilation is cut off (parse.c:208-228).
THEOREM LinesFollow == Spec => []OverlapOnlyByOrg
BY InvHolds, PTL DEF Inv

\* However many blocks of data a file has and whatever the step in which their
\* array grows, each is found behind the index of its line (misc.c:12-38).
THEOREM DataIsKept == Spec => []DataKept
<1>1. Inv => DataKept
  BY RoomIsEnough DEF Inv, BytesKept, DataKept
<1> QED BY InvHolds, <1>1, PTL

\* An image whose lines were all written whole is those lines, byte by byte,
\* and its listing shows no other, whatever writes of it were lost
\* (write.c:7-134).
THEOREM ImageIsListing == Spec => []ImageHoldsListing
<1>1. ASSUME Inv PROVE ImageHoldsListing
  <2> SUFFICES ASSUME pass = "success", image.complete
               PROVE  /\ image.byte = Expected(image.rows)
                      /\ image.len = Max({0} \cup {a + 1 : a \in DOMAIN image.byte})
                      /\ IsRestriction(listing, image.rows)
                      /\ DOMAIN listing = DOMAIN image.rows
                           => image.byte = Expected(listing)
    BY DEF ImageHoldsListing
  <2>1. /\ FileShape(image) /\ RowsInv(image.rows)
        /\ RowsAreWritten(image, DOMAIN image.rows)
    BY <1>1 DEF Inv, ImageInv, Past
  <2>2. /\ image.byte = Expected(image.rows)
        /\ image.len = Max({0} \cup {a + 1 : a \in DOMAIN image.byte})
    BY <2>1, AllRowsWritten, LengthIsEnd
  <2>3. PICK kept \in SUBSET DOMAIN image.rows : listing = Restrict(image.rows, kept)
    BY <1>1 DEF Inv, RunInv, Parts
  <2>4. IsRestriction(listing, image.rows)
    BY <2>3 DEF Restrict, IsRestriction
  <2>5. ASSUME DOMAIN listing = DOMAIN image.rows PROVE listing = image.rows
    <3>1. image.rows = [i \in DOMAIN image.rows |-> image.rows[i]]
      BY <2>1 DEF RowsInv
    <3> QED BY <2>3, <2>5, <3>1 DEF Restrict
  <2> QED BY <2>2, <2>4, <2>5
<1> QED BY InvHolds, <1>1, PTL

\* What load accepts comes from the lines of one compilation, and is all of
\* them when none of its writes failed (write.c:68, load.c:33-52).
THEOREM OneProgramRuns == Spec => []RunsOneProgram
<1>1. ASSUME Inv PROVE RunsOneProgram
  <2> SUFFICES ASSUME run = "loaded"
               PROVE  /\ \A a \in DOMAIN memory.byte :
                           \E i \in DOMAIN image.rows :
                             /\ Covers(image.rows[i], a)
                             /\ memory.byte[a] = ByteOf(image.rows[i], a)
                      /\ memory.cleared
                      /\ image.complete => memory.byte = Loaded(Expected(image.rows))
    BY DEF RunsOneProgram
  <2>1. memory.byte = Loaded(image.byte) /\ memory.cleared /\ pass # "image"
    BY <1>1 DEF Inv, RunInv, Held, Working, Writing
  <2>2. Past = DOMAIN image.rows /\ BytesAreOf(image, DOMAIN image.rows)
    BY <1>1, <2>1 DEF Inv, ImageInv, Past
  <2>3. ASSUME NEW a \in DOMAIN memory.byte
        PROVE  a \in DOMAIN image.byte /\ memory.byte[a] = image.byte[a]
    BY <2>1 DEF Loaded
  <2>4. image.complete => memory.byte = Loaded(Expected(image.rows))
    BY <1>1, <2>1, <2>2, AllRowsWritten DEF Inv, ImageInv
  <2> QED BY <2>1, <2>2, <2>3, <2>4 DEF BytesAreOf
<1> QED BY InvHolds, <1>1, PTL
====
