------------------------------- MODULE Listing -------------------------------
(***************************************************************************)
(* What the assembler promises: of a file that is well formed, the address *)
(* and the bytes of each line, all at once.  One that is not well formed   *)
(* is refused; a run of the assembler may be cut short at any moment.      *)
(* The lines are those of module Assembler.                                *)
(***************************************************************************)
EXTENDS Isa, FiniteSetsExt

CONSTANTS
  Sources, NoExpr, NoValue,
  Meaning(_, _),  \* an expression and the values of names to its word
  Key(_)          \* the name a label or an .equ is known by

VARIABLES source, verdict, rows

Operand(l) == IF l.form = "code" THEN l.operand ELSE NoExpr
Bit(l)     == IF l.form = "code" THEN l.bit ELSE NoExpr

\* The length of a line.
LengthOf(l) == CASE l.form = "data" -> Len(l.bytes)
                 [] l.form = "code" -> Size(l.type)
                 [] OTHER -> 0

\* The length of some lines, from one to another.
Extent(s, first, last) ==
  MapThenSumSet(LAMBDA j : LengthOf(s[j]), first .. last)

\* A line lies after all those since the last .org to an address other than
\* zero, or since the beginning.
IsOrg(l) == l.form = "org" /\ l.to # 0
AddressOf(s, i) ==
  LET start == Max({j \in 1 .. i : j = 1 \/ IsOrg(s[j])})
      base  == IF IsOrg(s[start]) THEN s[start].to ELSE 0
  IN  base + Extent(s, start, i - 1)

\* The values of names: .equ before label, the first before the others.
Equs(s, i)   == {j \in 1 .. (i - 1) : s[j].form = "equ"}
Labelled(s)  == {j \in DOMAIN s : s[j].label # ""}
EquNames(s, i) == {Key(s[j].key) : j \in Equs(s, i)}
EquValue(s, i) ==
  [n \in EquNames(s, i) |->
     Lo(s[Min({j \in Equs(s, i) : Key(s[j].key) = n})].val)]
Values(s) ==
  LET all    == Len(s) + 1
      labels == {Key(s[j].label) : j \in Labelled(s)}
  IN  [n \in EquNames(s, all) \cup labels |->
         IF n \in EquNames(s, all) THEN EquValue(s, all)[n]
         ELSE AddressOf(s, Min({j \in Labelled(s) : Key(s[j].label) = n}))]

\* Its operand, as the instruction takes it: a distance, a byte or a word.
Distance(v, from) ==
  LET d == (v - from) % 65536 IN IF d >= 32768 THEN d - 65536 ELSE d
Taken(s, i) ==
  LET v == Meaning(s[i].operand, Values(s))
  IN  CASE s[i].type \in {"BRANCH", "BR_BIT"} -> Distance(v, AddressOf(s, i))
        [] s[i].type \in {"IMM_BYTE", "IMM_WORD"} -> v % 256
        [] OTHER -> v

\* The instruction, with the bit and the operand in their places.
CodeWord(s, i) ==
  LET l == s[i]
      bit == IF l.bit = NoExpr THEN 0 ELSE Meaning(l.bit, EquValue(s, i))
      operand == IF l.operand = NoExpr THEN 0 ELSE Taken(s, i)
  IN  l.reg +
      CASE l.type = "LDSTR_BIT" -> Encode(l.type, l.opcode, 0, bit)
        [] l.type \in {"BIT", "BR_BIT"} -> Encode(l.type, l.opcode, bit, operand)
        [] l.type = "IMM_WORD"  -> Encode(l.type, l.opcode, 8, operand)
        [] OTHER -> Encode(l.type, l.opcode, 0, operand)

BytesOf(s, i) ==
  LET word == CodeWord(s, i)
      address == Meaning(s[i].operand, Values(s))
  IN  CASE s[i].form = "data" -> s[i].bytes
        [] s[i].form = "code" ->
             <<Lo(word), Hi(word)>> \o
               IF Size(s[i].type) = 4 THEN <<Lo(address), Hi(address)>> ELSE <<>>
        [] OTHER -> <<>>

\* Every line is understood and lies in the address space, every bit is one
\* of eight, every operand has a value its instruction can take.
Admissible(s, i) ==
  CASE s[i].type \in {"BRANCH", "BR_BIT"} -> Taken(s, i) \in -64 .. 63
    [] s[i].type = "IMM_WORD" -> Taken(s, i) <= 63
    [] OTHER -> TRUE
WellFormed(s) ==
  \A i \in DOMAIN s :
    /\ s[i].form # "bad"
    /\ AddressOf(s, i) <= \hffff
    /\ Bit(s[i]) # NoExpr => Meaning(s[i].bit, EquValue(s, i)) \in 0 .. 7
    /\ Operand(s[i]) # NoExpr =>
         Meaning(s[i].operand, Values(s)) # NoValue /\ Admissible(s, i)

Init == source = <<>> /\ verdict = "none" /\ rows = <<>>

Begin(s) == source' = s /\ verdict' = "none" /\ rows' = <<>>

Accept ==
  /\ verdict = "none" /\ source # <<>> /\ WellFormed(source)
  /\ verdict' = "accepted"
  /\ rows' = [i \in DOMAIN source |->
                [address |-> AddressOf(source, i), bytes |-> BytesOf(source, i)]]
  /\ UNCHANGED source

Refuse ==
  /\ verdict = "none" /\ source # <<>> /\ ~ WellFormed(source)
  /\ verdict' = "refused"
  /\ UNCHANGED <<source, rows>>

Stop == verdict' = "stopped" /\ rows' = <<>> /\ UNCHANGED source

Next == (\E s \in Sources : Begin(s)) \/ Accept \/ Refuse \/ Stop
Spec == Init /\ [][Next]_<<source, verdict, rows>>
==============================================================================
