---------------------------- MODULE MCToolchain ----------------------------
(***************************************************************************)
(* The files of the runs: every short arrangement of lines of all lengths  *)
(* with and without .org, every operand of a few operators, and one file   *)
(* for each limit: branch distances, bytes of a word instruction, the end  *)
(* of the address space, names that collide, data blocks past the growth   *)
(* of their array.                                                         *)
(***************************************************************************)
EXTENDS Toolchain, Expression, ProgramText

MCNoExpr == <<"none">>
MCValue(e, env) == Get_expr(Written(e), env)

\* Ten characters of a name are kept.
MCKey(name) ==
  CASE name = "long_label_1" -> "long_label" [] OTHER -> name

------------------------------------------------------------------------------
Num(n)  == <<"num", n>>
Name(x) == <<"name", x>>

Blank(label) == [form |-> "blank", label |-> label]
Org(to)      == [form |-> "org", label |-> "", to |-> to]
Equ(key, n)  == [form |-> "equ", label |-> "", key |-> key, val |-> n]
Bad          == [form |-> "bad", label |-> ""]
Data(label, bytes) == [form |-> "data", label |-> label, bytes |-> bytes]
CodeBit(label, mnemonic, reg, bit, operand) ==
  [form |-> "code", label |-> label, type |-> TypeOf(mnemonic),
   opcode |-> Mnemonics[TypeOf(mnemonic)][mnemonic], reg |-> reg,
   bit |-> bit, operand |-> operand]
Code(label, mnemonic, reg, operand) ==
  CodeBit(label, mnemonic, reg, MCNoExpr, operand)
Plain(label) == Code(label, "Increment", 48, MCNoExpr)

\* Arrangements of two and three lines; an .org as the third places nothing.
Placing == {Plain("a"), Code("", "Jump", 0, Name("a")), Data("b", <<1, 2, 3>>),
            Code("", "BranchEqu", 0, Name("b"))}
Bricks == Placing \cup {Org(0), Org(3), Org(65533)}
Arrangements == (Bricks \X Bricks) \cup (Bricks \X Bricks \X Placing)

\* Operands, on a line that keeps a byte of the value and one that keeps all.
Ops   == {"+", "-", "*", "/", "<<", ">>", "^", "|", "&"}
Small == {<<o, l, Num(3)>> : o \in Ops, l \in {Num(260), Name("k")}}
           \cup {<<"neg", Name("k")>>, <<"not", Num(3)>>,
                 <<"call", "low", Name("k")>>, <<"call", "high", Num(260)>>}
Deep == {<<o, l, Num(2)>> : o \in {"-", "*", "<<", "&"}, l \in Small}
          \cup {<<"-", Num(500), r>> : r \in Small}
          \cup {<<o, Num(500), <<q, Name("k"), Num(3)>>>> :
                 o \in {"/", ">>"}, q \in {"-", "/", "|", "&"}}
          \cup {<<u, e>> : u \in {"neg", "not"}, e \in Small}
          \cup {<<"call", "high", e>> : e \in Small}
op(o) == <<"op", o>>
Faulty == {<<"raw", t>> : t \in
  {<<>>, <<Num(1), op("+")>>, <<<<"open">>, Num(1)>>, <<Num(1), op("~"), Num(2)>>,
   <<Num(1), Num(2)>>, <<<<"open">>, <<"close">>>>, <<<<"bad">>>>,
   <<Num(1), <<"close">>>>, <<Name("low")>>}}
Operands2 == {<<Equ("k", 17), Code("", "Call", 0, e)>> :
                e \in Small \cup Deep \cup Faulty}

\* A branch over n bytes of data, back and forth.
Back(n)  == <<Data("a", [i \in 1 .. n |-> i]), Code("", "BranchNotEqu", 0, Name("a"))>>
Forth(n) == <<Code("", "BranchNotEqu", 0, Name("a")),
              Data("", [i \in 1 .. n |-> i]), Plain("a")>>

Limits ==
  {Back(64), Back(65), Forth(61), Forth(62),
   \* the bit is evaluated before the labels are known
   <<Equ("k", 7), CodeBit("a", "BranchBitSet", 0, Name("k"), Name("a"))>>,
   <<Plain("a"), CodeBit("", "SkipBitRegSet", 16, Name("a"), MCNoExpr)>>,
   <<CodeBit("", "BitSetSreg", 0, Num(8), MCNoExpr)>>,
   <<CodeBit("", "BitSetSreg", 0, Num(7), MCNoExpr)>>,
   \* 63 is the largest constant of a word, and a high byte is dropped
   <<Code("", "AddImmWord", 16, Num(63)), Code("", "AddImmWord", 16, Num(64))>>,
   <<Code("", "AddImmWord", 16, Num(319)), Code("", "LoadImm", 32, Num(300))>>,
   \* the last addresses, and one line too many
   <<Org(65532), Code("a", "Jump", 0, Name("a"))>>,
   <<Org(65531), Code("a", "Jump", 0, Name("a"))>>,
   <<Org(65534), Plain(""), Plain("")>>,
   <<Org(65534), Code("", "Jump", 0, Num(0)), Plain("")>>,
   \* the screen ROM
   <<Org(49151), Data("a", <<1, 2>>), Org(55295), Data("", <<3, 4>>)>>,
   \* names defined twice, too large, too long, nowhere
   <<Equ("a", 300), Plain("a"), Code("", "Call", 0, Name("a"))>>,
   <<Plain("a"), Plain("a"), Code("", "Call", 0, Name("a"))>>,
   <<Plain("long_label_1"), Code("", "Call", 0, Name("long_label_1"))>>,
   <<Plain("long_label_1"), Code("", "Call", 0, Name("long_label"))>>,
   <<Code("", "StoreDirect", 64, <<"+", Name("a"), Num(1)>>), Bad>>,
   \* data blocks, some empty
   <<Data("", <<9>>), Data("", <<>>), Data("", <<8, 7>>), Data("a", <<6>>),
     Blank("b"), Data("", <<5>>), Code("", "LoadDirect", 0, Name("b"))>>}

MCSources == Arrangements \cup Operands2 \cup Limits
MCEdits ==
  {<<Plain(""), Code("", "Jump", 0, Num(0))>>,
   <<Org(3), Data("a", <<1, 2, 3>>)>>, <<Plain("a"), Bad>>}
MCAll == MCSources \cup MCEdits

\* More compilations follow where one file may leave bytes for the next.
Edited == Limits \cup MCEdits \cup {<<>>}
MCEditsOf(file) == IF file \in Edited THEN MCEdits ELSE {}
==============================================================================
