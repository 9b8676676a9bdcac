--------------------------- MODULE PushPopProofs ---------------------------
(***************************************************************************)
(* That the cells and the pointer of PushPop stay in range, and that they  *)
(* implement Lifo, for every size of the address space and every set of    *)
(* values.                                                                 *)
(***************************************************************************)
EXTENDS PushPop, SequenceTheorems, TLAPS

\* The two ends of the pointer: it is decremented, or wraps to the top; it is
\* incremented, or is held there (run_misc.c:79-96).
LEMMA PointerSteps ==
  ASSUME NEW p \in 0 .. Top
  PROVE  /\ AfterPush(p, Top) = IF p = 0 THEN Top ELSE p - 1
         /\ AfterPop(p, Top) = IF p = Top THEN Top ELSE p + 1
<1>1. CASE p = 0
  <2>1. (p - 1) % (Top + 1) = Top
    BY <1>1, TopAssumption
  <2>2. (p + 1) % (Top + 1) = p + 1
    BY <1>1, TopAssumption
  <2> QED
    BY <1>1, <2>1, <2>2, TopAssumption DEF AfterPush, AfterPop
<1>2. CASE p # 0 /\ p # Top
  <2>1. (p - 1) % (Top + 1) = p - 1
    BY <1>2, TopAssumption
  <2>2. (p + 1) % (Top + 1) = p + 1
    BY <1>2, TopAssumption
  <2> QED
    BY <1>2, <2>1, <2>2, TopAssumption DEF AfterPush, AfterPop
<1>3. CASE p = Top
  <2>1. (p - 1) % (Top + 1) = p - 1
    BY <1>3, TopAssumption
  <2>2. (p + 1) % (Top + 1) = 0
    BY <1>3, TopAssumption
  <2> QED
    BY <1>3, <2>1, <2>2, TopAssumption DEF AfterPush, AfterPop
<1> QED
  BY <1>1, <1>2, <1>3

\* Neither a push nor a pop takes the pointer out of the address space, and
\* every cell and every popped byte stays a value.
THEOREM PushPopTypeOK == Spec => []TypeOK
<1>1. Init => TypeOK
  BY TopAssumption DEF Init, TypeOK
<1>2. TypeOK /\ [Next]_vars => TypeOK'
  <2> SUFFICES ASSUME TypeOK, [Next]_vars PROVE TypeOK'
    OBVIOUS
  <2>1. AfterPush(sp, Top) \in 0 .. Top /\ AfterPop(sp, Top) \in 0 .. Top
    BY PointerSteps, TopAssumption, SMTT(30) DEF TypeOK
  <2>2. ASSUME NEW v \in Values, PushVal(v) PROVE TypeOK'
    BY <2>1, <2>2 DEF PushVal, TypeOK
  <2>3. CASE PopVal
    BY <2>1, <2>3 DEF PopVal, TypeOK
  <2>4. CASE UNCHANGED vars
    BY <2>4 DEF vars, TypeOK
  <2> QED
    BY <2>2, <2>3, <2>4 DEF Next
<1> QED
  BY <1>1, <1>2, PTL DEF Spec

\* The contents are a sequence of at most Top values, and the last of them is
\* the one in the cell above the pointer.
LEMMA ContentsAreValues ==
  ASSUME TypeOK
  PROVE  /\ Contents \in Seq(Values)
         /\ Len(Contents) = Top - sp
         /\ sp # Top => Contents[Top - sp] = cells[sp + 1]
<1>1. \A i \in 1 .. (Top - sp) : Top + 1 - i \in 0 .. Top
  BY TopAssumption DEF TypeOK
<1>2. \A i \in 1 .. (Top - sp) : cells[Top + 1 - i] \in Values
  BY <1>1 DEF TypeOK
<1>3. Top - sp \in Nat
  BY TopAssumption DEF TypeOK
<1>4. ASSUME sp # Top PROVE Contents[Top - sp] = cells[sp + 1]
  <2>1. Top - sp \in 1 .. (Top - sp) /\ Top + 1 - (Top - sp) = sp + 1
    BY <1>4, TopAssumption DEF TypeOK
  <2> QED
    BY <2>1 DEF Contents
<1> QED
  BY <1>2, <1>3, <1>4 DEF Contents

\* A push that leaves room extends the contents by the value it wrote.
LEMMA PushExtends ==
  ASSUME TypeOK, NEW v \in Values, PushVal(v), sp # 0
  PROVE  Contents' = Append(Contents, v)
<1>1. sp \in 1 .. Top /\ sp' = sp - 1
  BY PointerSteps DEF TypeOK, PushVal
<1>2. Contents' = [i \in 1 .. (Top - sp + 1) |-> cells'[Top + 1 - i]]
  BY <1>1, TopAssumption DEF Contents
<1>3. Contents \in Seq(Values) /\ Len(Contents) = Top - sp
  BY ContentsAreValues
<1>4. ASSUME NEW i \in 1 .. (Top - sp + 1)
      PROVE  cells'[Top + 1 - i] = IF i <= Top - sp THEN Contents[i] ELSE v
  <2>1. CASE i <= Top - sp
    <3>1. i \in 1 .. (Top - sp) /\ Top + 1 - i \in 0 .. Top /\ Top + 1 - i # sp
      BY <1>1, <2>1, TopAssumption
    <3>2. cells'[Top + 1 - i] = cells[Top + 1 - i]
      BY <3>1 DEF PushVal, TypeOK
    <3> QED
      BY <2>1, <3>1, <3>2 DEF Contents
  <2>2. CASE ~ (i <= Top - sp)
    <3>1. Top + 1 - i = sp /\ sp \in 0 .. Top
      BY <1>1, <2>2, TopAssumption
    <3> QED
      BY <2>2, <3>1 DEF PushVal, TypeOK
  <2> QED
    BY <2>1, <2>2
<1>5. /\ Append(Contents, v) \in Seq(Values)
      /\ Len(Append(Contents, v)) = Top - sp + 1
      /\ \A i \in 1 .. (Top - sp) : Append(Contents, v)[i] = Contents[i]
      /\ Append(Contents, v)[Top - sp + 1] = v
  BY <1>3, AppendProperties
<1>6. /\ Contents' \in Seq(Values)
      /\ Len(Contents') = Top - sp + 1
      /\ \A i \in 1 .. (Top - sp + 1) :
           Contents'[i] = IF i <= Top - sp THEN Contents[i] ELSE v
  <2>1. Top - sp + 1 \in Nat
    BY <1>1, TopAssumption
  <2>2. \A i \in 1 .. (Top - sp + 1) : cells'[Top + 1 - i] \in Values
    <3>1. \A i \in 1 .. (Top - sp) : Contents[i] \in Values
      BY <1>3
    <3> QED
      BY <1>1, <1>4, <3>1, TopAssumption
  <2> QED
    BY <1>2, <1>4, <2>1, <2>2
<1>7. \A i \in 1 .. (Top - sp + 1) : Contents'[i] = Append(Contents, v)[i]
  <2> SUFFICES ASSUME NEW i \in 1 .. (Top - sp + 1)
               PROVE  Contents'[i] = Append(Contents, v)[i]
    OBVIOUS
  <2>1. CASE i <= Top - sp
    BY <1>1, <1>5, <1>6, <2>1, TopAssumption
  <2>2. CASE ~ (i <= Top - sp)
    <3>1. i = Top - sp + 1
      BY <1>1, <2>2, TopAssumption
    <3> QED
      BY <1>5, <1>6, <2>2, <3>1
  <2> QED
    BY <2>1, <2>2
<1> QED
  BY <1>5, <1>6, <1>7, SeqEqual

\* A pop of a stack that is not empty shortens the contents by one.
LEMMA PopShortens ==
  ASSUME TypeOK, PopVal, sp # Top
  PROVE  Contents' = SubSeq(Contents, 1, Len(Contents) - 1)
<1>1. sp \in 0 .. (Top - 1) /\ sp' = sp + 1 /\ cells' = cells
  BY PointerSteps, TopAssumption DEF TypeOK, PopVal
<1>2. Contents' = [i \in 1 .. (Top - sp - 1) |-> cells[Top + 1 - i]]
  BY <1>1, TopAssumption DEF Contents
<1>3. Len(Contents) - 1 = Top - sp - 1 /\ Contents \in Seq(Values)
  BY ContentsAreValues
<1>4. \A i \in 1 .. (Top - sp - 1) : Contents[i] = cells[Top + 1 - i]
  BY <1>1, TopAssumption DEF Contents
<1> QED
  BY <1>1, <1>2, <1>3, <1>4, TopAssumption

\* push_val and pop_val implement the stack: every push is a push or the
\* overflow that empties it, every pop is a pop or the underflow that leaves
\* it empty (run_misc.c:79-96).
THEOREM PushPopImplementsLifo == Spec => ImplementsLifo
<1>1. Init => L!Init
  <2> SUFFICES ASSUME Init PROVE L!Init
    OBVIOUS
  <2>1. Top - sp = 0
    BY TopAssumption DEF Init
  <2>2. Contents = <<>>
    BY <2>1 DEF Contents
  <2> QED
    BY <2>2 DEF Init, L!Init
<1>2. TypeOK /\ [Next]_vars => [L!Next]_L!vars
  <2> SUFFICES ASSUME TypeOK, [Next]_vars PROVE [L!Next]_L!vars
    OBVIOUS
  <2>1. Contents \in Seq(Values) /\ Len(Contents) = Top - sp
    BY ContentsAreValues
  <2>2. ASSUME NEW v \in Values, PushVal(v), sp # 0 PROVE L!Next
    <3>1. Contents' = Append(Contents, v)
      BY <2>2, PushExtends
    <3>2. Len(Contents) < Top
      BY <2>1, <2>2, TopAssumption DEF TypeOK
    <3>3. L!Push(v)
      BY <2>2, <3>1, <3>2 DEF L!Push, PushVal
    <3> QED
      BY <3>3 DEF L!Next
  <2>3. ASSUME NEW v \in Values, PushVal(v), sp = 0 PROVE L!Next
    <3>1. sp' = Top
      BY <2>3, PointerSteps DEF TypeOK, PushVal
    <3>2. Top - sp' = 0
      BY <3>1, TopAssumption
    <3>3. Contents' = <<>>
      BY <3>2 DEF Contents
    <3>4. Len(Contents) = Top
      BY <2>1, <2>3, TopAssumption
    <3>5. L!Overflow
      BY <2>3, <3>3, <3>4 DEF L!Overflow, PushVal
    <3> QED
      BY <3>5 DEF L!Next
  <2>4. ASSUME PopVal, sp # Top PROVE L!Next
    <3>1. Contents' = SubSeq(Contents, 1, Len(Contents) - 1)
      BY <2>4, PopShortens
    <3>2. out' = Contents[Len(Contents)]
      BY <2>1, <2>4, ContentsAreValues, PointerSteps DEF PopVal, TypeOK
    <3>3. Contents # <<>>
      BY <2>1, <2>4, TopAssumption DEF TypeOK
    <3>4. L!Pop
      BY <3>1, <3>2, <3>3 DEF L!Pop
    <3> QED
      BY <3>4 DEF L!Next
  <2>5. ASSUME PopVal, sp = Top PROVE L!Next
    <3>1. sp' = Top /\ cells' = cells /\ out' = cells[Top]
      BY <2>5, PointerSteps DEF TypeOK, PopVal
    <3>2. Contents' = Contents
      BY <2>5, <3>1 DEF Contents
    <3>3. out' \in Values
      BY <3>1, TopAssumption DEF TypeOK
    <3>4. Contents = <<>>
      BY <2>1, <2>5, TopAssumption
    <3>5. L!Underflow
      BY <3>2, <3>3, <3>4 DEF L!Underflow
    <3> QED
      BY <3>5 DEF L!Next
  <2>6. ASSUME UNCHANGED vars PROVE UNCHANGED L!vars
    BY <2>6 DEF vars, L!vars, Contents
  <2> QED
    BY <2>2, <2>3, <2>4, <2>5, <2>6 DEF Next
<1> QED
  BY <1>1, <1>2, PushPopTypeOK, PTL DEF Spec, ImplementsLifo, L!Spec
=============================================================================
