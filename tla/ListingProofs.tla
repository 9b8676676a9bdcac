--------------------------- MODULE ListingProofs ---------------------------
(***************************************************************************)
(* Why the two passes of compile, with their table of names and their      *)
(* patches, make of every source file what Listing says of the whole file  *)
(* at once, and why a file that is refused replaces no other.  For every   *)
(* set of source files, every growth step and any number of calls.         *)
(* One thing is a hypothesis of the theorems, EvaluatesAsMeant: get_expr   *)
(* finds what an expression means in the table of the moment.  The         *)
(* evaluator is a recursive-descent parser, and recursion over data is out *)
(* of reach here; TLC checks the hypothesis with Expression as the         *)
(* evaluator.                                                              *)
(* Meant is inductive, given Inv of ToolchainProofs.  It relates the       *)
(* passes to the listing line by line:                                     *)
(*   LinesMeant  the lines before at are Placed (pass 1) and Begun, their  *)
(*               opcode without its operand; once pass 2 is past them they *)
(*               are Finished                                              *)
(*   TableMeant  the table, by its first entries, is the .equ names before *)
(*               at in pass 1, those and the labels before at in the loop  *)
(*               over the labels, and all values of the listing in pass 2  *)
(* The address of a line is a sum over the lines since the last .org,      *)
(* which Listing takes with a fold over a set.  Cells counts the same sum: *)
(* it has as many pairs of a line and a number below its length as there   *)
(* are bytes.  So ExtentGrows is about the size of a set with one line     *)
(* more, and the order of summation does not matter.                       *)
(***************************************************************************)
EXTENDS ToolchainProofs, FiniteSetTheorems, WellFoundedInduction

------------------------------------------------------------------------------
\* Least elements and induction.

\* A set of numbers has a least one.
LEMMA Least ==
  ASSUME NEW S \in SUBSET Nat, S # {}
  PROVE  \E m \in S : \A i \in S : m <= i
<1> DEFINE Order == OpToRel(<, Nat)
<1>1. PICK m \in S : \A i \in S : ~ (<<i, m>> \in Order)
  <2>1. IsWellFoundedOn(Order, Nat)
    BY NatLessThanWellFounded
  <2> HIDE DEF Order
  <2> QED BY <2>1, WFMin
<1>2. \A i, j \in Nat : i < j => <<i, j>> \in Order
  BY DEF OpToRel
<1> HIDE DEF Order
<1>3. ASSUME NEW i \in S PROVE m <= i
  <2>1. m \in Nat /\ i \in Nat
    OBVIOUS
  <2>2. ~ (i < m)
    BY <1>1, <1>2, <2>1
  <2> QED BY <2>1, <2>2
<1> QED BY <1>3

\* Hence a set that holds zero, and the successor of each number it holds,
\* holds all numbers.
LEMMA SetInduction ==
  ASSUME NEW S, 0 \in S, \A n \in Nat : n \in S => n + 1 \in S
  PROVE  Nat \subseteq S
<1> SUFFICES ASSUME Nat \ S # {} PROVE FALSE
  OBVIOUS
<1>1. PICK m \in Nat \ S : \A i \in Nat \ S : m <= i
  BY Least
<1>2. m # 0 /\ m - 1 \in Nat
  BY <1>1
<1>3. m - 1 \in S
  BY <1>1, <1>2
<1> QED BY <1>1, <1>2, <1>3

\* What Min and Max of the listing find.
LEMMA MinIs ==
  ASSUME NEW S \in SUBSET Nat, NEW m \in S, \A i \in S : m <= i
  PROVE  L!Min(S) = m
<1>1. L!Min(S) \in S /\ \A i \in S : L!Min(S) <= i
  BY DEF L!Min
<1>2. L!Min(S) <= m /\ m <= L!Min(S) /\ m \in Nat /\ L!Min(S) \in Nat
  BY <1>1
<1> QED BY <1>2

\* A set of numbers that is not empty has one, and Min finds it.
LEMMA MinFound ==
  ASSUME NEW S \in SUBSET Nat, S # {}
  PROVE  L!Min(S) \in S /\ \A i \in S : L!Min(S) <= i
<1>1. PICK m \in S : \A i \in S : m <= i
  BY Least
<1> QED BY <1>1, MinIs

\* A greatest element, found by Max.
LEMMA GreatestIs ==
  ASSUME NEW S \in SUBSET Nat, NEW m \in S, \A i \in S : i <= m
  PROVE  L!Max(S) = m
<1>1. \A i \in S : m >= i
  OBVIOUS
<1>2. L!Max(S) \in S /\ \A i \in S : L!Max(S) >= i
  BY <1>1 DEF L!Max
<1>3. L!Max(S) <= m /\ m <= L!Max(S) /\ m \in Nat /\ L!Max(S) \in Nat
  BY <1>2
<1> QED BY <1>3

------------------------------------------------------------------------------
\* Sums of lengths, as the number of bytes that the lines have together.
Cells(s, T) == {p \in T \X Nat : p[2] < L!LengthOf(s[p[1]])}
Measured(s, T) == \A j \in T : L!LengthOf(s[j]) \in Nat

\* No line has no byte, a line adds as many bytes as it is long, and finitely
\* many lines have finitely many.
LEMMA CellsOfNone ==
  ASSUME NEW s
  PROVE  IsFiniteSet(Cells(s, {})) /\ Cardinality(Cells(s, {})) = 0
<1>1. Cells(s, {}) = {}
  BY DEF Cells
<1> QED BY <1>1, FS_EmptySet

LEMMA CellsAdded ==
  ASSUME NEW s, NEW T, NEW x \in T, Measured(s, T), IsFiniteSet(Cells(s, T \ {x}))
  PROVE  /\ IsFiniteSet(Cells(s, T))
         /\ Cardinality(Cells(s, T)) =
              L!LengthOf(s[x]) + Cardinality(Cells(s, T \ {x}))
<1> DEFINE n == L!LengthOf(s[x])
           own == {x} \X (0 .. (n - 1))
           rest == Cells(s, T \ {x})
<1>1. n \in Nat
  BY DEF Measured
<1>2. IsFiniteSet(0 .. (n - 1)) /\ Cardinality(0 .. (n - 1)) = n
  BY <1>1, FS_Interval, SMTT(30)
<1>3. IsFiniteSet({x}) /\ Cardinality({x}) = 1
  BY FS_Singleton
<1>4. IsFiniteSet(own) /\ Cardinality(own) = n
  <2> DEFINE first == {x}
             second == 0 .. (n - 1)
  <2>1. IsFiniteSet(first) /\ Cardinality(first) = 1
    BY <1>3
  <2>2. IsFiniteSet(second) /\ Cardinality(second) = n
    BY <1>2
  <2> HIDE DEF n, first, second
  <2>3. IsFiniteSet(first \X second) /\ Cardinality(first \X second) = 1 * n
    BY <2>1, <2>2, FS_Product
  <2> QED BY <1>1, <2>3 DEF first, second
<1>5. Cells(s, T) = own \cup rest
  BY <1>1 DEF Cells
<1>6. own \cap rest = {}
  BY DEF Cells
<1>7. Cardinality({}) = 0 /\ Cardinality(rest) \in Nat
  BY FS_EmptySet, FS_CardinalityType
<1> HIDE DEF own, rest
<1>8. /\ IsFiniteSet(own \cup rest)
      /\ Cardinality(own \cup rest) = Cardinality(own) + Cardinality(rest) - Cardinality(own \cap rest)
  BY <1>4, FS_Union DEF rest
<1>9. Cardinality(own \cup rest) = n + Cardinality(rest)
  <2>1. Cardinality(own \cap rest) = 0
    BY <1>6, <1>7
  <2> HIDE DEF n
  <2> QED BY <1>1, <1>4, <1>7, <1>8, <2>1
<1> QED BY <1>5, <1>8, <1>9 DEF rest

LEMMA CellsFinite ==
  ASSUME NEW s, NEW T, IsFiniteSet(T), Measured(s, T)
  PROVE  \A t \in SUBSET T : IsFiniteSet(Cells(s, t))
<1> DEFINE S == {n \in Nat : \A t \in SUBSET T :
                   Cardinality(t) = n => IsFiniteSet(Cells(s, t))}
<1>1. \A t \in SUBSET T : IsFiniteSet(t) /\ Cardinality(t) \in Nat /\ Measured(s, t)
  BY FS_Subset, FS_CardinalityType DEF Measured
<1>2. 0 \in S
  <2>1. ASSUME NEW t \in SUBSET T, Cardinality(t) = 0 PROVE IsFiniteSet(Cells(s, t))
    BY <1>1, <2>1, FS_EmptySet, CellsOfNone
  <2> QED BY <2>1
<1>3. ASSUME NEW n \in Nat, n \in S PROVE n + 1 \in S
  <2>1. ASSUME NEW t \in SUBSET T, Cardinality(t) = n + 1 PROVE IsFiniteSet(Cells(s, t))
    <3>1. IsFiniteSet(t) /\ t # {}
      BY <1>1, <2>1, FS_EmptySet
    <3>2. PICK x : x \in t
      BY <3>1
    <3>3. IsFiniteSet(t \ {x}) /\ Cardinality(t \ {x}) = n
      <4>1. Cardinality(t \ {x}) = Cardinality(t) - 1 /\ IsFiniteSet(t \ {x})
        BY <3>1, <3>2, FS_RemoveElement
      <4> QED BY <2>1, <4>1
    <3>4. IsFiniteSet(Cells(s, t \ {x}))
      BY <1>3, <3>3
    <3> QED BY <1>1, <3>2, <3>4, CellsAdded
  <2> QED BY <2>1
<1> HIDE DEF S
<1>4. Nat \subseteq S
  BY <1>2, <1>3, SetInduction
<1> QED BY <1>1, <1>4 DEF S

\* What a fold of the lengths is, and that there is only one.
Fold(f, s, T) ==
  f = [t \in SUBSET T |->
         IF t = {} THEN 0
         ELSE LET x == CHOOSE x \in t : TRUE IN L!LengthOf(s[x]) + f[t \ {x}]]

\* A fold sums up to the number of bytes.
LEMMA FoldIs ==
  ASSUME NEW s, NEW T, IsFiniteSet(T), Measured(s, T), NEW f, Fold(f, s, T)
  PROVE  f[T] = Cardinality(Cells(s, T))
<1> DEFINE S == {n \in Nat : \A t \in SUBSET T :
                   Cardinality(t) = n => f[t] = Cardinality(Cells(s, t))}
<1>1. \A t \in SUBSET T : IsFiniteSet(t) /\ Cardinality(t) \in Nat /\ Measured(s, t)
  BY FS_Subset, FS_CardinalityType DEF Measured
<1>2. 0 \in S
  <2>1. ASSUME NEW t \in SUBSET T, Cardinality(t) = 0
        PROVE  f[t] = Cardinality(Cells(s, t))
    <3>1. t = {}
      BY <1>1, <2>1, FS_EmptySet
    <3>2. f[t] = 0
      BY <3>1 DEF Fold
    <3> QED BY <3>1, <3>2, CellsOfNone
  <2> QED BY <2>1
<1>3. ASSUME NEW n \in Nat, n \in S PROVE n + 1 \in S
  <2>1. ASSUME NEW t \in SUBSET T, Cardinality(t) = n + 1
        PROVE  f[t] = Cardinality(Cells(s, t))
    <3>1. IsFiniteSet(t) /\ t # {}
      BY <1>1, <2>1, FS_EmptySet
    <3> DEFINE x == CHOOSE x \in t : TRUE
    <3>2. x \in t
      BY <3>1
    <3>3. f[t] = L!LengthOf(s[x]) + f[t \ {x}]
      BY <3>1 DEF Fold
    <3> HIDE DEF x
    <3>4. t \ {x} \in SUBSET T /\ Cardinality(t \ {x}) = n
      <4>1. Cardinality(t \ {x}) = Cardinality(t) - 1
        BY <3>1, <3>2, FS_RemoveElement
      <4> QED BY <2>1, <4>1
    <3>5. f[t \ {x}] = Cardinality(Cells(s, t \ {x}))
      BY <1>3, <3>4
    <3>6. IsFiniteSet(Cells(s, t \ {x}))
      BY <3>4, CellsFinite
    <3> QED BY <1>1, <3>2, <3>3, <3>5, <3>6, CellsAdded
  <2> QED BY <2>1
<1> HIDE DEF S
<1>4. Nat \subseteq S
  BY <1>2, <1>3, SetInduction
<1> QED BY <1>1, <1>4 DEF S

\* And there is one.
LEMMA FoldExists ==
  ASSUME NEW s, NEW T, IsFiniteSet(T), Measured(s, T)
  PROVE  \E f : Fold(f, s, T)
<1> DEFINE g == [t \in SUBSET T |-> Cardinality(Cells(s, t))]
<1>1. ASSUME NEW t \in SUBSET T, t # {}
      PROVE  g[t] = LET x == CHOOSE x \in t : TRUE
                    IN  L!LengthOf(s[x]) + g[t \ {x}]
  <2> DEFINE x == CHOOSE x \in t : TRUE
  <2>1. x \in t
    BY <1>1
  <2> HIDE DEF x
  <2>2. Measured(s, t) /\ t \ {x} \in SUBSET T
    BY DEF Measured
  <2>3. IsFiniteSet(Cells(s, t \ {x}))
    BY <2>2, CellsFinite
  <2>4. Cardinality(Cells(s, t)) = L!LengthOf(s[x]) + Cardinality(Cells(s, t \ {x}))
    BY <2>1, <2>2, <2>3, CellsAdded
  <2> QED BY <2>2, <2>4 DEF x
<1>2. g[{}] = 0
  BY CellsOfNone
<1>3. g = [t \in SUBSET T |-> g[t]]
  OBVIOUS
<1> HIDE DEF g
<1>4. Fold(g, s, T)
  <2> SUFFICES [t \in SUBSET T |-> g[t]] =
                 [t \in SUBSET T |->
                    IF t = {} THEN 0
                    ELSE LET x == CHOOSE x \in t : TRUE
                         IN  L!LengthOf(s[x]) + g[t \ {x}]]
    BY <1>3 DEF Fold
  <2> QED BY <1>1, <1>2
<1> QED BY <1>4

\* The length of the lines from one to another is the number of their bytes.
LEMMA ExtentIs ==
  ASSUME NEW s, NEW a \in Int, NEW b \in Int, Measured(s, a .. b)
  PROVE  /\ L!Extent(s, a, b) = Cardinality(Cells(s, a .. b))
         /\ IsFiniteSet(Cells(s, a .. b)) /\ L!Extent(s, a, b) \in Nat
<1> DEFINE T == a .. b
<1>1. IsFiniteSet(T) /\ Measured(s, T)
  BY FS_Interval
<1>2. PICK g : Fold(g, s, T)
  BY <1>1, FoldExists
<1> HIDE DEF T
<1>3. \E f : Fold(f, s, T) /\ L!MapThenSumSet(LAMBDA j : L!LengthOf(s[j]), T) = f[T]
  BY <1>2 DEF Fold, L!MapThenSumSet, L!MapThenFoldSet
<1>4. IsFiniteSet(Cells(s, T)) /\ Cardinality(Cells(s, T)) \in Nat
  BY <1>1, CellsFinite, FS_CardinalityType
<1>5. L!Extent(s, a, b) = Cardinality(Cells(s, T))
  BY <1>1, <1>3, FoldIs DEF L!Extent, T
<1> QED BY <1>4, <1>5 DEF T

\* So one more line adds its length.
LEMMA ExtentNone ==
  ASSUME NEW s, NEW a \in Int
  PROVE  L!Extent(s, a, a - 1) = 0
<1>1. a .. (a - 1) = {}
  OBVIOUS
<1> QED BY <1>1, ExtentIs, CellsOfNone DEF Measured

\* One line more.
LEMMA ExtentGrows ==
  ASSUME NEW s, NEW a \in Int, NEW b \in Int, a <= b, Measured(s, a .. b)
  PROVE  /\ L!Extent(s, a, b) = L!Extent(s, a, b - 1) + L!LengthOf(s[b])
         /\ L!Extent(s, a, b - 1) \in Nat
<1>1. b \in a .. b /\ (a .. b) \ {b} = a .. (b - 1)
  OBVIOUS
<1>2. Measured(s, a .. (b - 1)) /\ L!LengthOf(s[b]) \in Nat
  BY <1>1 DEF Measured
<1>3. /\ L!Extent(s, a, b - 1) = Cardinality(Cells(s, a .. (b - 1)))
      /\ IsFiniteSet(Cells(s, a .. (b - 1))) /\ L!Extent(s, a, b - 1) \in Nat
  BY <1>2, ExtentIs
<1>4. Cardinality(Cells(s, a .. b)) = L!LengthOf(s[b]) + Cardinality(Cells(s, a .. (b - 1)))
  <2> DEFINE T == a .. b
  <2>1. b \in T /\ T \ {b} = a .. (b - 1) /\ Measured(s, T)
    BY <1>1
  <2> HIDE DEF T
  <2>2. IsFiniteSet(Cells(s, T \ {b}))
    BY <1>3, <2>1
  <2>3. Cardinality(Cells(s, T)) = L!LengthOf(s[b]) + Cardinality(Cells(s, T \ {b}))
    BY <2>1, <2>2, CellsAdded
  <2> QED BY <2>1, <2>3 DEF T
<1>5. L!Extent(s, a, b) = Cardinality(Cells(s, a .. b))
  BY ExtentIs
<1> QED BY <1>2, <1>3, <1>4, <1>5

------------------------------------------------------------------------------
\* What is known of the lines and the table while compile runs.

\* The names before line i of the second loop: every .equ, and the labels of
\* the lines before i.
LabelledBefore(s, i) == {j \in 1 .. (i - 1) : s[j].label # ""}
LabelTable(s, i) ==
  LET equs == L!EquNames(s, Len(s) + 1)
  IN  [n \in equs \cup {Key(s[j].label) : j \in LabelledBefore(s, i)} |->
         IF n \in equs THEN L!EquValue(s, Len(s) + 1)[n]
         ELSE L!AddressOf(s, L!Min({j \in LabelledBefore(s, i) : Key(s[j].label) = n}))]

BitAsked(s, i) == IF s[i].bit = NoExpr THEN 0
                  ELSE Meaning(s[i].bit, L!EquValue(s, i))
BitAdds(s, i) ==
  CASE s[i].type = "BIT" -> 16 * BitAsked(s, i)
    [] s[i].type \in {"LDSTR_BIT", "BR_BIT"} -> BitAsked(s, i)
    [] OTHER -> 0
BitFits(s, i) == L!Bit(s[i]) # NoExpr => Meaning(s[i].bit, L!EquValue(s, i)) \in 0 .. 7
OperandFits(s, i) ==
  L!Operand(s[i]) # NoExpr =>
    Meaning(s[i].operand, L!Values(s)) # NoValue /\ L!Admissible(s, i)

\* What pass 1 makes of a line l, what it leaves of its opcode, and what pass 2
\* makes of it.
Placed(s, i, l) ==
  /\ s[i].form # "bad"
  /\ l.address = L!AddressOf(s, i) /\ l.address <= \hffff
  /\ l.size = L!LengthOf(s[i])
  /\ l.dataidx # 0 <=> s[i].form = "data"
  /\ s[i].form # "code" => l.opcode = NOCODE
  /\ BitFits(s, i)
Begun(s, i, l) ==
  s[i].form = "code" => l.opcode = s[i].opcode + s[i].reg + BitAdds(s, i)
Finished(s, i, l) ==
  /\ OperandFits(s, i)
  /\ s[i].form = "code" =>
       /\ l.opcode = L!CodeWord(s, i) /\ l.opcode < NOCODE
       /\ s[i].type \in LongTypes => l.opextra = Meaning(s[i].operand, L!Values(s))

Seen == IF pass = "pass1" THEN at - 1 ELSE Len(source)
Done == CASE pass = "pass2" -> at - 1
          [] pass \in Writing -> Len(source)
          [] OTHER -> 0
LinesMeant ==
  Working => \A i \in 1 .. Seen :
    /\ Placed(source, i, lines[i])
    /\ IF i <= Done THEN Finished(source, i, lines[i])
                    ELSE Begun(source, i, lines[i])
TableMeant ==
  /\ IsSeq(equates)
  /\ pass = "pass1"  => First(equates) = L!EquValue(source, at)
  /\ pass = "labels" => First(equates) = LabelTable(source, at)
  /\ pass = "pass2"  => First(equates) = L!Values(source)

------------------------------------------------------------------------------
\* The addresses of the listing, from each line to the next.

\* A set of numbers below a bound has a greatest one.
LEMMA GreatestFound ==
  ASSUME NEW n \in Nat, NEW S \in SUBSET (1 .. n), S # {}
  PROVE  L!Max(S) \in S /\ \A i \in S : i <= L!Max(S)
<1> DEFINE T == {n - i : i \in S}
<1>1. T \in SUBSET Nat /\ T # {}
  <2>1. \A i \in S : n - i \in Nat
    OBVIOUS
  <2>2. \E i : i \in S
    OBVIOUS
  <2> QED BY <2>1, <2>2
<1>2. PICK d \in T : \A e \in T : d <= e
  BY <1>1, Least
<1>3. PICK m \in S : d = n - m
  BY <1>2
<1>4. \A i \in S : n - m <= n - i
  BY <1>2, <1>3
<1>5. m \in Nat /\ S \in SUBSET Nat /\ \A i \in S : i <= m
  BY <1>4
<1>6. L!Max(S) = m
  BY <1>5, GreatestIs
<1> QED BY <1>5, <1>6

\* What SourcesAssumption says of lengths and of .org.
LEMMA Lengths ==
  ASSUME NEW s \in Sources
  PROVE  /\ Len(s) \in Nat \ {0} /\ DOMAIN s = 1 .. Len(s)
         /\ \A i \in 1 .. Len(s) :
              L!LengthOf(s[i]) \in Nat /\ (L!IsOrg(s[i]) => s[i].to \in Nat)
         /\ \A a, b \in Int : 1 <= a /\ b <= Len(s) => Measured(s, a .. b)
<1>1. Len(s) \in Nat \ {0} /\ DOMAIN s = 1 .. Len(s)
  BY SourcesAssumption
<1>2. ASSUME NEW i \in 1 .. Len(s)
      PROVE  L!LengthOf(s[i]) \in Nat /\ (L!IsOrg(s[i]) => s[i].to \in Nat)
  <2>1. CASE s[i].form = "data"
    <3>1. s[i].bytes \in Seq(Byte)
      BY <1>1, <2>1, SourcesAssumption
    <3>2. Len(s[i].bytes) \in Nat
      BY <3>1, LenProperties
    <3> QED BY <2>1, <3>2 DEF L!LengthOf, L!IsOrg
  <2>2. CASE s[i].form # "data"
    <3>1. L!LengthOf(s[i]) \in Nat
      BY <2>2 DEF L!LengthOf, L!Size
    <3>2. L!IsOrg(s[i]) => s[i].to \in Addr
      BY <1>1, SourcesAssumption DEF L!IsOrg
    <3> QED BY <3>1, <3>2, AddrIsNat
  <2> QED BY <2>1, <2>2
<1> QED BY <1>1, <1>2 DEF Measured

\* The line that a line's address is counted from.
Starts(s, i) == {j \in 1 .. i : j = 1 \/ L!IsOrg(s[j])}

\* There is such a line.
LEMMA StartFound ==
  ASSUME NEW s \in Sources, NEW i \in 1 .. Len(s)
  PROVE  L!Max(Starts(s, i)) \in 1 .. i
<1>1. i \in Nat /\ 1 \in Starts(s, i) /\ Starts(s, i) \in SUBSET (1 .. i)
  BY Lengths DEF Starts
<1> QED BY <1>1, GreatestFound

\* The address is that line's, and what lies between.
LEMMA AddressIs ==
  ASSUME NEW s \in Sources, NEW i \in 1 .. Len(s), NEW k, k = L!Max(Starts(s, i))
  PROVE  /\ L!AddressOf(s, i) =
              (IF L!IsOrg(s[k]) THEN s[k].to ELSE 0) + L!Extent(s, k, i - 1)
         /\ L!AddressOf(s, i) \in Nat
<1>1. L!AddressOf(s, i) =
        (IF L!IsOrg(s[k]) THEN s[k].to ELSE 0) + L!Extent(s, k, i - 1)
  BY DEF L!AddressOf, Starts
<1>2. k \in 1 .. i /\ i \in Nat /\ i <= Len(s) /\ Len(s) \in Nat
  BY StartFound, Lengths
<1>3. Measured(s, k .. (i - 1))
  BY <1>2, Lengths
<1>4. L!Extent(s, k, i - 1) \in Nat
  BY <1>2, <1>3, ExtentIs
<1>5. L!IsOrg(s[k]) => s[k].to \in Nat
  BY <1>2, Lengths
<1> QED BY <1>1, <1>4, <1>5

\* The address of the first line, and of each further one from the one before.
LEMMA AddressFirst ==
  ASSUME NEW s \in Sources
  PROVE  L!AddressOf(s, 1) = IF L!IsOrg(s[1]) THEN s[1].to ELSE 0
<1>1. 1 \in 1 .. Len(s)
  BY Lengths
<1>2. Starts(s, 1) \in SUBSET Nat /\ 1 \in Starts(s, 1) /\ \A j \in Starts(s, 1) : j <= 1
  BY DEF Starts
<1>3. L!Max(Starts(s, 1)) = 1
  BY <1>2, GreatestIs
<1>4. L!Extent(s, 1, 1 - 1) = 0
  BY ExtentNone
<1>5. L!IsOrg(s[1]) => s[1].to \in Nat
  BY <1>1, Lengths
<1> QED BY <1>1, <1>3, <1>4, <1>5, AddressIs

LEMMA AddressNext ==
  ASSUME NEW s \in Sources, NEW i \in 1 .. Len(s), i # 1
  PROVE  L!AddressOf(s, i) = IF L!IsOrg(s[i]) THEN s[i].to
                             ELSE L!AddressOf(s, i - 1) + L!LengthOf(s[i - 1])
<1>1. Len(s) \in Nat /\ i \in Nat /\ i <= Len(s) /\ i - 1 \in 1 .. Len(s)
  BY Lengths
<1>2. CASE L!IsOrg(s[i])
  <2>1. Starts(s, i) \in SUBSET Nat /\ i \in Starts(s, i) /\ \A j \in Starts(s, i) : j <= i
    BY <1>1, <1>2 DEF Starts
  <2>2. L!Max(Starts(s, i)) = i
    BY <2>1, GreatestIs
  <2>3. L!Extent(s, i, i - 1) = 0
    BY <1>1, ExtentNone
  <2>4. s[i].to \in Nat
    BY <1>2, Lengths
  <2> QED BY <1>2, <2>2, <2>3, <2>4, AddressIs
<1>3. CASE ~ L!IsOrg(s[i])
  <2> DEFINE k == L!Max(Starts(s, i))
             base == IF L!IsOrg(s[k]) THEN s[k].to ELSE 0
  <2>1. Starts(s, i) = Starts(s, i - 1)
    BY <1>1, <1>3 DEF Starts
  <2>2. k \in 1 .. (i - 1)
    BY <1>1, <2>1, StartFound
  <2>3. Measured(s, k .. (i - 1))
    BY <1>1, <2>2, Lengths
  <2>4. L!IsOrg(s[k]) => s[k].to \in Nat
    BY <1>1, <2>2, Lengths
  <2>5. base \in Nat
    BY <2>4
  <2>6. L!AddressOf(s, i) = base + L!Extent(s, k, i - 1)
    BY AddressIs
  <2>7. L!AddressOf(s, i - 1) = base + L!Extent(s, k, (i - 1) - 1)
    BY <1>1, <2>1, AddressIs
  <2> HIDE DEF k, base
  <2>8. /\ L!Extent(s, k, i - 1) = L!Extent(s, k, (i - 1) - 1) + L!LengthOf(s[i - 1])
        /\ L!Extent(s, k, (i - 1) - 1) \in Nat
    BY <1>1, <2>2, <2>3, ExtentGrows
  <2>9. L!LengthOf(s[i - 1]) \in Nat
    BY <1>1, Lengths
  <2> QED BY <1>3, <2>5, <2>6, <2>7, <2>8, <2>9
<1> QED BY <1>2, <1>3

------------------------------------------------------------------------------
\* The table of names, from each entry to the next.

\* A later entry counts only for a name that is new.
Extended(f, name, val) ==
  [n \in DOMAIN f \cup {name} |-> IF n \in DOMAIN f THEN f[n] ELSE val]

\* The first entry of a name gives its value.
LEMMA FirstFound ==
  ASSUME NEW t, IsSeq(t), NEW i \in DOMAIN t,
         \A j \in DOMAIN t : t[j].key = t[i].key => i <= j
  PROVE  First(t)[t[i].key] = t[i].val
<1> DEFINE n == t[i].key
           least(k) == /\ t[k].key = n
                       /\ \A j \in DOMAIN t : t[j].key = n => k <= j
<1>1. DOMAIN t \in SUBSET Nat
  BY DEF IsSeq
<1>2. least(i)
  OBVIOUS
<1>3. \A k \in DOMAIN t : least(k) => k = i
  <2> TAKE k \in DOMAIN t
  <2>1. k \in Nat /\ i \in Nat
    BY <1>1
  <2> QED BY <2>1
<1>4. First(t)[n] = t[CHOOSE k \in DOMAIN t : least(k)].val
  BY DEF First
<1> HIDE DEF least
<1>5. (CHOOSE k \in DOMAIN t : least(k)) = i
  BY <1>2, <1>3
<1> QED BY <1>4, <1>5

\* Every name has a value, and nothing else has.
LEMMA FirstDomain ==
  ASSUME NEW t
  PROVE  /\ \A n : n \in DOMAIN First(t) <=> \E i \in DOMAIN t : t[i].key = n
         /\ First(t) = [n \in DOMAIN First(t) |-> First(t)[n]]
BY DEF First

\* Hence one entry more extends the table (common.h:107-110).
LEMMA FirstAppended ==
  ASSUME NEW t, IsSeq(t), NEW e
  PROVE  First(Append(t, e)) = Extended(First(t), e.key, e.val)
<1> DEFINE u == Append(t, e)
<1>1. /\ IsSeq(u) /\ Len(u) = Len(t) + 1 /\ u[Len(t) + 1] = e
      /\ \A i \in 1 .. Len(t) : u[i] = t[i]
  BY Appended
<1>2. Len(t) \in Nat /\ DOMAIN t = 1 .. Len(t) /\ DOMAIN u = 1 .. (Len(t) + 1)
  BY <1>1 DEF IsSeq
<1> HIDE DEF u
<1>3. DOMAIN First(u) = DOMAIN First(t) \cup {e.key}
  <2>1. \A n : n \in DOMAIN First(t) <=> \E i \in 1 .. Len(t) : u[i].key = n
    BY <1>1, <1>2, FirstDomain
  <2>2. \A n : n \in DOMAIN First(u) <=> \E i \in 1 .. (Len(t) + 1) : u[i].key = n
    BY <1>2, FirstDomain
  <2>3. 1 .. (Len(t) + 1) = (1 .. Len(t)) \cup {Len(t) + 1}
    BY <1>2
  <2> DEFINE A == DOMAIN First(u)   B == DOMAIN First(t)
             I == 1 .. Len(t)       m == Len(t) + 1
  <2>4. /\ \A n : n \in B <=> \E i \in I : u[i].key = n
        /\ \A n : n \in A <=> \E i \in I \cup {m} : u[i].key = n
        /\ u[m] = e
    BY <1>1, <2>1, <2>2, <2>3
  <2> HIDE DEF A, B, I, m
  <2>5. A = B \cup {e.key}
    BY <2>4
  <2> QED BY <2>5 DEF A, B
<1>4. ASSUME NEW n \in DOMAIN First(t) PROVE First(u)[n] = First(t)[n]
  <2> DEFINE S == {i \in 1 .. Len(t) : t[i].key = n}
  <2>1. S \in SUBSET Nat /\ S # {}
    <3>1. \E i \in DOMAIN t : t[i].key = n
      BY FirstDomain
    <3> QED BY <1>2, <3>1
  <2>2. PICK i \in S : \A j \in S : i <= j
    BY <2>1, Least
  <2>3. i \in DOMAIN t /\ t[i].key = n /\ \A j \in DOMAIN t : t[j].key = n => i <= j
    BY <1>2, <2>2
  <2>4. First(t)[n] = t[i].val
    BY <2>3, FirstFound
  <2>5. i \in DOMAIN u /\ u[i] = t[i]
    BY <1>1, <1>2, <2>3
  <2>6. ASSUME NEW j \in DOMAIN u, u[j].key = n PROVE i <= j
    <3>1. CASE j \in DOMAIN t
      BY <1>1, <1>2, <2>3, <2>6, <3>1
    <3>2. CASE j \notin DOMAIN t
      <4>1. j = Len(t) + 1 /\ i <= Len(t) /\ i \in Nat
        BY <1>2, <2>3, <3>2
      <4> QED BY <1>2, <4>1
    <3> QED BY <3>1, <3>2
  <2>7. First(u)[u[i].key] = u[i].val
    BY <1>1, <2>3, <2>5, <2>6, FirstFound
  <2> QED BY <2>3, <2>4, <2>5, <2>7
<1>5. ASSUME e.key \notin DOMAIN First(t) PROVE First(u)[e.key] = e.val
  <2>1. Len(t) + 1 \in DOMAIN u
    BY <1>2
  <2>2. ASSUME NEW j \in DOMAIN u, u[j].key = e.key PROVE Len(t) + 1 <= j
    <3>1. j \notin DOMAIN t
      <4>1. ~ \E k \in DOMAIN t : t[k].key = e.key
        BY <1>5, FirstDomain
      <4> QED BY <1>1, <1>2, <2>2, <4>1
    <3> QED BY <1>2, <3>1
  <2> QED BY <1>1, <2>1, <2>2, FirstFound
<1>6. First(u) = [n \in DOMAIN First(u) |-> First(u)[n]]
  BY FirstDomain
<1> QED BY <1>3, <1>4, <1>5, <1>6 DEF Extended, u

\* One more candidate that is later than all changes nothing.
LEMMA MinStays ==
  ASSUME NEW i \in Nat, NEW S \in SUBSET (1 .. (i - 1)), S # {}
  PROVE  L!Min(S \cup {i}) = L!Min(S) /\ L!Min(S) \in S
<1>1. S \in SUBSET Nat /\ \A j \in S : j < i
  OBVIOUS
<1>2. L!Min(S) \in S /\ \A j \in S : L!Min(S) <= j
  BY <1>1, MinFound
<1>3. L!Min(S) <= i
  <2>1. L!Min(S) < i /\ L!Min(S) \in Nat
    BY <1>1, <1>2
  <2> QED BY <2>1
<1>4. S \cup {i} \in SUBSET Nat /\ L!Min(S) \in S \cup {i}
  BY <1>1, <1>2
<1>5. \A j \in S \cup {i} : L!Min(S) <= j
  BY <1>2, <1>3
<1> QED BY <1>2, <1>4, <1>5, MinIs

\* The least of one.
LEMMA MinOfOne ==
  ASSUME NEW i \in Nat
  PROVE  L!Min({i}) = i
<1>1. {i} \in SUBSET Nat /\ i \in {i} /\ \A j \in {i} : i <= j
  OBVIOUS
<1> QED BY <1>1, MinIs

\* The lines up to and including i.
LEMMA OneMore ==
  ASSUME NEW i \in Nat \ {0}
  PROVE  1 .. ((i + 1) - 1) = (1 .. (i - 1)) \cup {i}
<1>1. (i + 1) - 1 = i /\ i - 1 \in Nat
  OBVIOUS
<1>2. \A k \in Int : 1 <= k /\ k <= i <=> (1 <= k /\ k <= i - 1) \/ k = i
  OBVIOUS
<1> QED BY <1>1, <1>2

\* No name stands before the first line.
LEMMA EquNone ==
  ASSUME NEW s
  PROVE  L!EquValue(s, 1) = First(<<>>)
<1>1. L!Equs(s, 1) = {}
  BY DEF L!Equs
<1>2. L!EquNames(s, 1) = {}
  BY <1>1 DEF L!EquNames
<1>3. {<<>>[i].key : i \in DOMAIN <<>>} = {}
  BY NoLines
<1> QED BY <1>2, <1>3 DEF L!EquValue, First

\* A line that is no .equ adds none, an .equ adds its own.
LEMMA EquStays ==
  ASSUME NEW s, NEW i \in Nat \ {0}, s[i].form # "equ"
  PROVE  L!EquValue(s, i + 1) = L!EquValue(s, i)
<1>1. L!Equs(s, i + 1) = L!Equs(s, i)
  BY OneMore DEF L!Equs
<1> QED BY <1>1 DEF L!EquValue, L!EquNames

\* An .equ extends them.
LEMMA EquAdded ==
  ASSUME NEW s, NEW i \in Nat \ {0}, s[i].form = "equ"
  PROVE  L!EquValue(s, i + 1) =
           Extended(L!EquValue(s, i), Key(s[i].key), L!Lo(s[i].val))
<1> DEFINE own(k, n) == {j \in L!Equs(s, k) : Key(s[j].key) = n}
           name == Key(s[i].key)
<1>1. L!Equs(s, i + 1) = L!Equs(s, i) \cup {i} /\ L!Equs(s, i) \subseteq 1 .. (i - 1)
  BY OneMore DEF L!Equs
<1>2. L!EquNames(s, i + 1) = L!EquNames(s, i) \cup {name}
  BY <1>1 DEF L!EquNames
<1>3. /\ DOMAIN L!EquValue(s, i) = L!EquNames(s, i)
      /\ \A n \in L!EquNames(s, i) :
           L!EquValue(s, i)[n] = L!Lo(s[L!Min(own(i, n))].val)
      /\ L!EquValue(s, i + 1) =
           [n \in L!EquNames(s, i + 1) |-> L!Lo(s[L!Min(own(i + 1, n))].val)]
  BY DEF L!EquValue
<1>4. ASSUME NEW n \in L!EquNames(s, i)
      PROVE  L!Min(own(i + 1, n)) = L!Min(own(i, n))
  <2>1. own(i, n) \in SUBSET (1 .. (i - 1)) /\ own(i, n) # {}
    BY <1>1 DEF L!EquNames
  <2>2. own(i + 1, n) = own(i, n) \/ own(i + 1, n) = own(i, n) \cup {i}
    BY <1>1
  <2> HIDE DEF own
  <2> QED BY <2>1, <2>2, MinStays
<1>5. ASSUME name \notin L!EquNames(s, i)
      PROVE  L!Min(own(i + 1, name)) = i
  <2>1. own(i + 1, name) = {i}
    BY <1>1, <1>5 DEF L!EquNames
  <2> HIDE DEF own
  <2> QED BY <2>1, MinOfOne
<1> HIDE DEF own, name
<1>6. L!EquValue(s, i + 1) =
        [n \in L!EquNames(s, i) \cup {name} |->
           IF n \in L!EquNames(s, i) THEN L!EquValue(s, i)[n] ELSE L!Lo(s[i].val)]
  BY <1>2, <1>3, <1>4, <1>5
<1> QED BY <1>3, <1>6 DEF Extended, name

\* The table of the second loop: at its start, after its end, and from each
\* line to the next.
LEMMA LabelNone ==
  ASSUME NEW s
  PROVE  LabelTable(s, 1) = L!EquValue(s, Len(s) + 1)
<1>1. LabelledBefore(s, 1) = {}
  BY DEF LabelledBefore
<1>2. {Key(s[j].label) : j \in {}} = {}
  OBVIOUS
<1>3. L!EquValue(s, Len(s) + 1) =
        [n \in L!EquNames(s, Len(s) + 1) |-> L!EquValue(s, Len(s) + 1)[n]]
  BY DEF L!EquValue
<1> QED BY <1>1, <1>2, <1>3 DEF LabelTable

\* After the last line they are the values of the listing.
LEMMA LabelAll ==
  ASSUME NEW s \in Sources
  PROVE  LabelTable(s, Len(s) + 1) = L!Values(s)
<1>1. Len(s) \in Nat /\ DOMAIN s = 1 .. Len(s)
  BY Lengths
<1>2. LabelledBefore(s, Len(s) + 1) = L!Labelled(s)
  BY <1>1 DEF LabelledBefore, L!Labelled
<1> QED BY <1>2 DEF LabelTable, L!Values

\* A line without a label changes nothing.
LEMMA LabelStays ==
  ASSUME NEW s, NEW i \in Nat \ {0}, s[i].label = ""
  PROVE  LabelTable(s, i + 1) = LabelTable(s, i)
<1>1. LabelledBefore(s, i + 1) = LabelledBefore(s, i)
  BY OneMore DEF LabelledBefore
<1> QED BY <1>1 DEF LabelTable

\* A label extends them, with the address of its line.
LEMMA LabelAdded ==
  ASSUME NEW s, NEW i \in Nat \ {0}, s[i].label # ""
  PROVE  LabelTable(s, i + 1) =
           Extended(LabelTable(s, i), Key(s[i].label), L!AddressOf(s, i))
<1> DEFINE own(k, n) == {j \in LabelledBefore(s, k) : Key(s[j].label) = n}
           names(k) == {Key(s[j].label) : j \in LabelledBefore(s, k)}
           equs == L!EquNames(s, Len(s) + 1)
           equ(n) == L!EquValue(s, Len(s) + 1)[n]
           address(k, n) == L!AddressOf(s, L!Min(own(k, n)))
           name == Key(s[i].label)
<1>1. /\ LabelledBefore(s, i + 1) = LabelledBefore(s, i) \cup {i}
      /\ LabelledBefore(s, i) \subseteq 1 .. (i - 1)
  BY OneMore DEF LabelledBefore
<1>2. names(i + 1) = names(i) \cup {name}
  BY <1>1
<1>3. \A k : LabelTable(s, k) =
               [n \in equs \cup names(k) |-> IF n \in equs THEN equ(n) ELSE address(k, n)]
  BY DEF LabelTable
<1>4. ASSUME NEW n \in names(i)
      PROVE  address(i + 1, n) = address(i, n)
  <2>1. own(i, n) \in SUBSET (1 .. (i - 1)) /\ own(i, n) # {}
    BY <1>1
  <2>2. own(i + 1, n) = own(i, n) \/ own(i + 1, n) = own(i, n) \cup {i}
    BY <1>1
  <2> HIDE DEF own
  <2>3. L!Min(own(i + 1, n)) = L!Min(own(i, n))
    BY <2>1, <2>2, MinStays
  <2> QED BY <2>3
<1>5. ASSUME name \notin names(i)
      PROVE  address(i + 1, name) = L!AddressOf(s, i)
  <2>1. own(i + 1, name) = {i}
    BY <1>1, <1>5
  <2> HIDE DEF own
  <2>2. L!Min(own(i + 1, name)) = i
    BY <2>1, MinOfOne
  <2> QED BY <2>2
<1> HIDE DEF own, names, equs, equ, address, name
<1>6. LabelTable(s, i + 1) =
        [n \in (equs \cup names(i)) \cup {name} |->
           IF n \in equs \cup names(i)
           THEN (IF n \in equs THEN equ(n) ELSE address(i, n))
           ELSE L!AddressOf(s, i)]
  <2>1. \A n \in (equs \cup names(i)) \cup {name} :
          (IF n \in equs THEN equ(n) ELSE address(i + 1, n)) =
          IF n \in equs \cup names(i)
          THEN (IF n \in equs THEN equ(n) ELSE address(i, n))
          ELSE L!AddressOf(s, i)
    BY <1>4, <1>5
  <2>2. equs \cup names(i + 1) = (equs \cup names(i)) \cup {name}
    BY <1>2
  <2>3. LabelTable(s, i + 1) =
          [n \in equs \cup names(i + 1) |->
             IF n \in equs THEN equ(n) ELSE address(i + 1, n)]
    BY <1>3
  <2> QED BY <2>1, <2>2, <2>3
<1> DEFINE f == LabelTable(s, i)
<1>7. /\ DOMAIN f = equs \cup names(i)
      /\ \A n \in equs \cup names(i) :
           f[n] = IF n \in equs THEN equ(n) ELSE address(i, n)
  BY <1>3
<1> HIDE DEF f
<1>8. LabelTable(s, i + 1) = Extended(f, name, L!AddressOf(s, i))
  BY <1>6, <1>7 DEF Extended
<1> QED BY <1>8 DEF f, name

------------------------------------------------------------------------------
\* The instruction words.
LEMMA TypesAre ==
  Types = {"DIR_SING", "DIR_DUAL", "DIR_STD", "DIR_WORD", "IMM_BYTE", "IMM_WORD",
           "BRANCH", "BR_BIT", "BIT", "LDSTR_BIT", "DIR_32", "LD_IND", "STR_IND",
           "LD_DIR", "STR_DIR", "IMPLIED"}
BY DEF Types, Mnemonics

\* A line of code, as the assumptions have it.
LEMMA CodeLine ==
  ASSUME NEW s \in Sources, NEW i \in 1 .. Len(s), s[i].form = "code"
  PROVE  /\ s[i].type \in Types
         /\ s[i].opcode \in Nat /\ s[i].reg \in Nat
         /\ s[i].opcode + s[i].reg + Spare(s[i].type) < NOCODE
         /\ s[i].operand # NoExpr <=> s[i].type \in PatchedTypes
BY Lengths, CodeAssumption

\* A bit that fits is 0 to 7.
LEMMA BitInRange ==
  ASSUME NEW s, NEW i, s[i].form = "code", BitFits(s, i)
  PROVE  BitAsked(s, i) \in 0 .. 7
BY DEF BitFits, BitAsked, L!Bit

\* What the operand adds to the word.
OperandAdds(s, i) ==
  LET b == L!Taken(s, i)
  IN  CASE s[i].type \in {"BRANCH", "BR_BIT"} -> 8 * (b % 128)
        [] s[i].type = "IMM_BYTE" -> (b % 16) + (256 * (b \div 16))
        [] s[i].type = "IMM_WORD" -> (b % 16) + (64 * (b \div 16))
        [] OTHER -> 0

\* The word of a line is the sum of its parts.
LEMMA CodeWordIs ==
  ASSUME NEW s \in Sources, NEW i \in 1 .. Len(s), s[i].form = "code",
         BitFits(s, i), s[i].operand # NoExpr => L!Taken(s, i) \in Int
  PROVE  L!CodeWord(s, i) =
           s[i].opcode + s[i].reg + BitAdds(s, i) + OperandAdds(s, i)
<1> DEFINE type == s[i].type
           opcode == s[i].opcode
           reg == s[i].reg
           bit == BitAsked(s, i)
           taken == L!Taken(s, i)
           operand == IF s[i].operand = NoExpr THEN 0 ELSE taken
<1>1. L!CodeWord(s, i) =
        reg + CASE type = "LDSTR_BIT" -> L!Encode(type, opcode, 0, bit)
                [] type \in {"BIT", "BR_BIT"} -> L!Encode(type, opcode, bit, operand)
                [] type = "IMM_WORD" -> L!Encode(type, opcode, 8, operand)
                [] OTHER -> L!Encode(type, opcode, 0, operand)
  BY DEF L!CodeWord, BitAsked
<1>2. /\ opcode \in Nat /\ reg \in Nat /\ bit \in 0 .. 7 /\ type \in Types
      /\ operand = IF type \in PatchedTypes THEN taken ELSE 0
  BY CodeLine, BitInRange
<1>3. /\ BitAdds(s, i) = CASE type = "BIT" -> 16 * bit
                           [] type \in {"LDSTR_BIT", "BR_BIT"} -> bit
                           [] OTHER -> 0
      /\ OperandAdds(s, i) =
           CASE type \in {"BRANCH", "BR_BIT"} -> 8 * (taken % 128)
             [] type = "IMM_BYTE" -> (taken % 16) + (256 * (taken \div 16))
             [] type = "IMM_WORD" -> (taken % 16) + (64 * (taken \div 16))
             [] OTHER -> 0
  BY DEF BitAdds, OperandAdds
<1> DEFINE sum == BitAdds(s, i)
           rest == OperandAdds(s, i)
           word == L!CodeWord(s, i)
<1> SUFFICES word = opcode + reg + sum + rest
  OBVIOUS
<1>4. type \in PatchedTypes => taken \in Int
  BY <1>2, CodeLine
<1> HIDE DEF type, opcode, reg, bit, taken, operand, sum, rest, word
<1>5. CASE type = "LDSTR_BIT"
  BY <1>1, <1>2, <1>3, <1>4, <1>5 DEF sum, rest, word, L!Encode, PatchedTypes, LongTypes
<1>6. CASE type = "BIT"
  BY <1>1, <1>2, <1>3, <1>4, <1>6 DEF sum, rest, word, L!Encode, PatchedTypes, LongTypes
<1>7. CASE type = "BR_BIT"
  <2> DEFINE low == taken % 128
  <2>1. low \in Int
    BY <1>4, <1>7 DEF PatchedTypes
  <2>2. sum = bit /\ rest = 8 * low /\ operand = taken
    BY <1>2, <1>3, <1>7 DEF sum, rest, PatchedTypes
  <2>3. word = reg + L!Encode(type, opcode, bit, taken)
    BY <1>1, <1>7, <2>2 DEF word
  <2>4. L!Encode(type, opcode, bit, taken) = opcode + (bit + (8 * low))
    BY <1>7 DEF L!Encode
  <2> HIDE DEF low
  <2> QED BY <1>2, <2>1, <2>2, <2>3, <2>4
<1>8. CASE type = "BRANCH"
  <2> DEFINE low == taken % 128
  <2>1. low \in Int
    BY <1>4, <1>8 DEF PatchedTypes
  <2>2. sum = 0 /\ rest = 8 * low /\ operand = taken
    BY <1>2, <1>3, <1>8 DEF sum, rest, PatchedTypes
  <2>3. word = reg + L!Encode(type, opcode, 0, taken)
    BY <1>1, <1>8, <2>2 DEF word
  <2>4. L!Encode(type, opcode, 0, taken) = opcode + (0 + (8 * low))
    BY <1>8 DEF L!Encode
  <2> HIDE DEF low
  <2> QED BY <1>2, <2>1, <2>2, <2>3, <2>4
<1>9. CASE type = "IMM_WORD"
  <2> DEFINE low == taken % 16
             high == taken \div 16
  <2>1. taken \in Int
    BY <1>4, <1>9 DEF PatchedTypes
  <2>2. low \in Int /\ high \in Int
    BY <2>1
  <2>3. sum = 0 /\ rest = low + (64 * high) /\ operand = taken
    BY <1>2, <1>3, <1>9 DEF sum, rest, PatchedTypes
  <2>4. word = reg + L!Encode(type, opcode, 8, taken)
    BY <1>1, <1>9, <2>3 DEF word
  <2>5. L!Encode(type, opcode, 8, taken) = opcode + ((8 * (8 - 8)) + low + (64 * high))
    BY <1>9 DEF L!Encode
  <2> HIDE DEF low, high
  <2> QED BY <1>2, <2>2, <2>3, <2>4, <2>5
<1>10. CASE type = "IMM_BYTE"
  <2> DEFINE low == taken % 16
             high == taken \div 16
  <2>1. taken \in Int
    BY <1>4, <1>10 DEF PatchedTypes
  <2>2. low \in Int /\ high \in Int
    BY <2>1
  <2>3. sum = 0 /\ rest = low + (256 * high) /\ operand = taken
    BY <1>2, <1>3, <1>10 DEF sum, rest, PatchedTypes
  <2>4. word = reg + L!Encode(type, opcode, 0, taken)
    BY <1>1, <1>10, <2>3 DEF word
  <2>5. L!Encode(type, opcode, 0, taken) = opcode + ((16 * 0) + low + (256 * high))
    BY <1>10 DEF L!Encode
  <2> HIDE DEF low, high
  <2> QED BY <1>2, <2>2, <2>3, <2>4, <2>5
<1>11. CASE type \notin {"LDSTR_BIT", "BIT", "BR_BIT", "BRANCH", "IMM_WORD", "IMM_BYTE"}
  <2>1. sum = 0 /\ rest = 0
    BY <1>3, <1>11 DEF sum, rest
  <2>2. word = reg + L!Encode(type, opcode, 0, operand)
    BY <1>1, <1>11 DEF word
  <2>3. type \in LongTypes \/ operand = 0
    BY <1>2, <1>11 DEF PatchedTypes
  <2>4. type \in {"DIR_SING", "DIR_DUAL", "DIR_STD", "DIR_WORD", "DIR_32", "LD_IND",
                "STR_IND", "LD_DIR", "STR_DIR", "IMPLIED"}
    BY <1>2, <1>11, TypesAre
  <2>5. L!Encode(type, opcode, 0, operand) = opcode
    BY <1>2, <2>3, <2>4 DEF L!Encode, LongTypes
  <2> QED BY <1>2, <2>1, <2>2, <2>5
<1> QED
  BY <1>5, <1>6, <1>7, <1>8, <1>9, <1>10, <1>11

\* The fields of a byte and of a word constant.
LEMMA Remainders ==
  /\ \A x \in Int : x % 128 \in Nat /\ x % 128 <= 127
  /\ \A x \in Int : x % 256 \in Nat /\ x % 256 <= 255
  /\ \A x \in Nat : x % 16 \in Nat /\ x % 16 <= 15
  /\ \A x \in Nat : x <= 255 => x \div 16 \in Nat /\ x \div 16 <= 15
  /\ \A x \in Nat : x <= 63 => x \div 16 <= 3
<1>1. \A x \in Int : x % 128 \in Nat
  OBVIOUS
<1>2. \A x \in Int : x % 128 <= 127
  OBVIOUS
<1>3. \A x \in Int : x % 256 \in Nat
  OBVIOUS
<1>4. \A x \in Int : x % 256 <= 255
  OBVIOUS
<1>5. \A x \in Nat : x % 16 \in Nat
  OBVIOUS
<1>6. \A x \in Nat : x % 16 <= 15
  OBVIOUS
<1>7. \A x \in Nat : x \div 16 \in Nat
  OBVIOUS
<1>8. \A x \in Nat : x <= 255 => x \div 16 <= 15
  OBVIOUS
<1>9. \A x \in Nat : x <= 63 => x \div 16 <= 3
  OBVIOUS
<1> QED BY <1>1, <1>2, <1>3, <1>4, <1>5, <1>6, <1>7, <1>8, <1>9

\* The two nibbles of a byte, and the field of a word constant.
LEMMA Fields16 ==
  ASSUME NEW v \in Nat
  PROVE  /\ (v % 256) % 16 = v % 16 /\ v % 16 \in 0 .. 15
         /\ (v % 256) \div 16 \in 0 .. 15
         /\ v % 256 <= 63 => (v % 256) \div 16 = (v \div 16) % 4 /\ (v \div 16) % 4 \in 0 .. 3
<1>1. (v % 256) % 16 = v % 16
  OBVIOUS
<1>2. v % 16 \in 0 .. 15
  OBVIOUS
<1>3. (v % 256) \div 16 \in 0 .. 15
  OBVIOUS
<1>4. (v \div 16) % 4 \in 0 .. 3
  OBVIOUS
<1>5. v % 256 <= 63 => (v % 256) \div 16 = (v \div 16) % 4
  OBVIOUS
<1> QED BY <1>1, <1>2, <1>3, <1>4, <1>5

\* A distance is an int16_t.
LEMMA DistanceIs ==
  ASSUME NEW v \in Nat, NEW a \in Nat
  PROVE  L!Distance(v, a) \in Int /\ L!Distance(v, a) = S16(v - a)
<1> DEFINE d == (v - a) % 65536
<1>1. d \in Int
  OBVIOUS
<1>2. L!Distance(v, a) = IF d >= 32768 THEN d - 65536 ELSE d
  BY DEF L!Distance
<1>3. S16(v - a) = IF d >= 32768 THEN d - 65536 ELSE d
  BY DEF S16
<1> HIDE DEF d
<1> QED BY <1>1, <1>2, <1>3

\* The operand of a line, taken from its meaning.
LEMMA TakenIs ==
  ASSUME NEW s \in Sources, NEW i \in 1 .. Len(s), s[i].form = "code",
         NEW v \in Nat, v = Meaning(s[i].operand, L!Values(s))
  PROVE  /\ L!Taken(s, i) \in Int
         /\ s[i].type \in {"BRANCH", "BR_BIT"} =>
              L!Taken(s, i) = S16(v - L!AddressOf(s, i))
         /\ s[i].type \in {"IMM_BYTE", "IMM_WORD"} => L!Taken(s, i) = v % 256
<1>1. L!AddressOf(s, i) \in Nat
  BY AddressIs
<1>2. L!Distance(v, L!AddressOf(s, i)) \in Int
      /\ L!Distance(v, L!AddressOf(s, i)) = S16(v - L!AddressOf(s, i))
  BY <1>1, DistanceIs
<1>3. L!Taken(s, i) =
        CASE s[i].type \in {"BRANCH", "BR_BIT"} -> L!Distance(v, L!AddressOf(s, i))
          [] s[i].type \in {"IMM_BYTE", "IMM_WORD"} -> v % 256
          [] OTHER -> v
  BY DEF L!Taken
<1>4. v % 256 \in Int
  OBVIOUS
<1> QED BY <1>2, <1>3, <1>4

\* The word leaves the mark of a line without code free.
LEMMA WordFits ==
  ASSUME NEW s \in Sources, NEW i \in 1 .. Len(s), s[i].form = "code",
         BitFits(s, i), OperandFits(s, i),
         s[i].operand # NoExpr => Meaning(s[i].operand, L!Values(s)) \in Nat
  PROVE  /\ L!CodeWord(s, i) = s[i].opcode + s[i].reg + BitAdds(s, i) + OperandAdds(s, i)
         /\ OperandAdds(s, i) \in Nat /\ L!CodeWord(s, i) < NOCODE
<1> DEFINE type == s[i].type
           taken == L!Taken(s, i)
           bit == BitAsked(s, i)
<1>1. /\ type \in Types /\ s[i].opcode \in Nat /\ s[i].reg \in Nat
      /\ s[i].opcode + s[i].reg + Spare(type) < NOCODE
      /\ s[i].operand # NoExpr <=> type \in PatchedTypes
  BY CodeLine
<1>2. bit \in 0 .. 7
  BY BitInRange
<1>3. type \in PatchedTypes => taken \in Int /\ L!Admissible(s, i)
  BY <1>1, TakenIs DEF OperandFits, L!Operand
<1>4. L!CodeWord(s, i) = s[i].opcode + s[i].reg + BitAdds(s, i) + OperandAdds(s, i)
  BY <1>1, <1>3, CodeWordIs
<1>5. type \in {"IMM_BYTE", "IMM_WORD"} => taken \in Nat /\ taken <= 255
  <2> SUFFICES ASSUME type \in {"IMM_BYTE", "IMM_WORD"}
               PROVE  taken \in Nat /\ taken <= 255
    OBVIOUS
  <2> DEFINE v == Meaning(s[i].operand, L!Values(s))
  <2>1. v \in Nat /\ taken = v % 256
    BY <1>1, TakenIs DEF PatchedTypes
  <2> HIDE DEF v, taken
  <2> QED BY <2>1, Remainders
<1>6. type = "IMM_WORD" => taken <= 63
  BY <1>3 DEF L!Admissible, PatchedTypes
<1>7. OperandAdds(s, i) \in Nat /\ BitAdds(s, i) \in Nat
      /\ BitAdds(s, i) + OperandAdds(s, i) <= Spare(type)
  <2> DEFINE sum == BitAdds(s, i)
             rest == OperandAdds(s, i)
             spare == Spare(type)
  <2>1. sum = CASE type = "BIT" -> 16 * bit
                [] type \in {"LDSTR_BIT", "BR_BIT"} -> bit
                [] OTHER -> 0
    BY DEF BitAdds
  <2>2. rest = CASE type \in {"BRANCH", "BR_BIT"} -> 8 * (taken % 128)
                 [] type = "IMM_BYTE" -> (taken % 16) + (256 * (taken \div 16))
                 [] type = "IMM_WORD" -> (taken % 16) + (64 * (taken \div 16))
                 [] OTHER -> 0
    BY DEF OperandAdds
  <2>3. spare = CASE type \in {"BRANCH", "BR_BIT"} -> 1023
                  [] type = "IMM_BYTE"  -> 3855
                  [] type = "IMM_WORD"  -> 207
                  [] type = "BIT"       -> 112
                  [] type = "LDSTR_BIT" -> 7
                  [] OTHER -> 0
    BY DEF Spare
  <2> SUFFICES rest \in Nat /\ sum \in Nat /\ sum + rest <= spare
    OBVIOUS
  <2> HIDE DEF type, taken, bit, sum, rest, spare
  <2>4. CASE type \in {"BRANCH", "BR_BIT"}
    <3> DEFINE low == taken % 128
    <3>1. low \in Nat /\ low <= 127
      BY <1>3, <2>4, Remainders DEF PatchedTypes
    <3>2. rest = 8 * low /\ sum \in Nat /\ sum <= 7 /\ spare = 1023
      BY <1>2, <2>1, <2>2, <2>3, <2>4
    <3> HIDE DEF low
    <3> QED BY <3>1, <3>2
  <2>5. CASE type = "IMM_BYTE"
    <3> DEFINE low == taken % 16   high == taken \div 16
    <3>1. low \in Nat /\ low <= 15 /\ high \in Nat /\ high <= 15
      BY <1>5, <2>5, Remainders
    <3>2. rest = low + (256 * high) /\ sum = 0 /\ spare = 3855
      BY <2>1, <2>2, <2>3, <2>5
    <3> HIDE DEF low, high
    <3> QED BY <3>1, <3>2
  <2>6. CASE type = "IMM_WORD"
    <3> DEFINE low == taken % 16   high == taken \div 16
    <3>1. low \in Nat /\ low <= 15 /\ high \in Nat /\ high <= 3
      BY <1>5, <1>6, <2>6, Remainders
    <3>2. rest = low + (64 * high) /\ sum = 0 /\ spare = 207
      BY <2>1, <2>2, <2>3, <2>6
    <3> HIDE DEF low, high
    <3> QED BY <3>1, <3>2
  <2>7. CASE type \notin {"BRANCH", "BR_BIT", "IMM_BYTE", "IMM_WORD"}
    <3>1. rest = 0
      BY <2>2, <2>7
    <3> QED BY <1>2, <2>1, <2>3, <2>7, <3>1
  <2> QED BY <2>4, <2>5, <2>6, <2>7
<1> DEFINE sum == BitAdds(s, i)
           rest == OperandAdds(s, i)
           spare == Spare(type)
           opcode == s[i].opcode
           reg == s[i].reg
           word == L!CodeWord(s, i)
<1>8. /\ opcode \in Nat /\ reg \in Nat /\ sum \in Nat /\ rest \in Nat
      /\ sum + rest <= spare /\ opcode + reg + spare < NOCODE
      /\ word = opcode + reg + sum + rest
  BY <1>1, <1>4, <1>7
<1>9. spare \in Nat /\ NOCODE \in Nat
  BY DEF Spare, NOCODE
<1> HIDE DEF sum, rest, spare, opcode, reg, word
<1>10. word < NOCODE
  BY <1>8, <1>9
<1> QED BY <1>4, <1>7, <1>10 DEF word

\* Pass 2 takes an operand that fits, and adds what it should.
LEMMA PatchIs ==
  ASSUME source \in Sources, at \in 1 .. Len(source), Line.form = "code",
         Line.operand # NoExpr, lines[at].address = L!AddressOf(source, at),
         NEW v \in Nat, v = Meaning(Line.operand, L!Values(source))
  PROVE  /\ InRange(v) <=> L!Admissible(source, at)
         /\ InRange(v) => PatchBits(v) = OperandAdds(source, at)
<1> DEFINE type == source[at].type
           taken == L!Taken(source, at)
<1>1. /\ type \in {"BRANCH", "BR_BIT"} => taken = Displacement(v)
      /\ type \in {"IMM_BYTE", "IMM_WORD"} => taken = v % 256
  BY TakenIs DEF Line, Displacement
<1>2. InRange(v) <=>
        CASE type \in {"BRANCH", "BR_BIT"} -> Displacement(v) \in -64 .. 63
          [] type = "IMM_WORD" -> v % 256 \in 0 .. 63
          [] OTHER -> TRUE
  BY DEF InRange, Line, Lo
<1>3. L!Admissible(source, at) <=>
        CASE type \in {"BRANCH", "BR_BIT"} -> taken \in -64 .. 63
          [] type = "IMM_WORD" -> taken <= 63
          [] OTHER -> TRUE
  BY DEF L!Admissible
<1>4. PatchBits(v) =
        CASE type \in {"BRANCH", "BR_BIT"} -> 8 * (Displacement(v) % 128)
          [] type = "IMM_BYTE" -> (256 * ((v % 256) \div 16)) + (v % 16)
          [] type = "IMM_WORD" -> (64 * ((v \div 16) % 4)) + (v % 16)
          [] OTHER -> 0
  BY DEF PatchBits, Line, Lo
<1>5. OperandAdds(source, at) =
        CASE type \in {"BRANCH", "BR_BIT"} -> 8 * (taken % 128)
          [] type = "IMM_BYTE" -> (taken % 16) + (256 * (taken \div 16))
          [] type = "IMM_WORD" -> (taken % 16) + (64 * (taken \div 16))
          [] OTHER -> 0
  BY DEF OperandAdds
<1>6. v % 256 \in Nat /\ v % 256 <= 255
  BY Remainders
<1> DEFINE adds == OperandAdds(source, at)
           bits == PatchBits(v)
           fits == InRange(v)
           good == L!Admissible(source, at)
           distance == Displacement(v)
<1> SUFFICES (fits <=> good) /\ (fits => bits = adds)
  OBVIOUS
<1> HIDE DEF type, taken, adds, bits, fits, good, distance
<1>7. CASE type \in {"BRANCH", "BR_BIT"}
  BY <1>1, <1>2, <1>3, <1>4, <1>5, <1>7 DEF adds, bits, fits, good, distance
<1>8. CASE type = "IMM_BYTE"
  <2>1. fits /\ good
    BY <1>2, <1>3, <1>8 DEF fits, good
  <2> DEFINE low == v % 16
             high == (v % 256) \div 16
  <2>2. low \in Int /\ high \in Int
    BY Fields16
  <2>3. bits = (256 * high) + low
    BY <1>4, <1>8 DEF bits
  <2>4. adds = low + (256 * high)
    BY <1>1, <1>5, <1>8, Fields16 DEF adds
  <2> HIDE DEF low, high
  <2> QED BY <2>1, <2>2, <2>3, <2>4
<1>9. CASE type = "IMM_WORD"
  <2>1. fits <=> v % 256 <= 63
    <3> DEFINE top == 63
    <3>1. fits <=> v % 256 \in 0 .. top
      BY <1>2, <1>9 DEF fits
    <3>2. top \in Int /\ (v % 256 <= top <=> v % 256 <= 63)
      BY <1>6
    <3> HIDE DEF top
    <3>3. v % 256 \in 0 .. top <=> v % 256 <= top
      BY <1>6, <3>2
    <3> QED BY <3>1, <3>2, <3>3
  <2>2. good <=> v % 256 <= 63
    BY <1>1, <1>3, <1>9 DEF good
  <2> DEFINE low == v % 16
             high == (v \div 16) % 4
  <2>3. low \in Int /\ high \in Int
    BY Fields16
  <2>4. bits = (64 * high) + low
    BY <1>4, <1>9 DEF bits
  <2>5. v % 256 <= 63 => adds = low + (64 * high)
    BY <1>1, <1>5, <1>9, Fields16 DEF adds
  <2> HIDE DEF low, high
  <2> QED BY <2>1, <2>2, <2>3, <2>4, <2>5
<1>10. CASE type \notin {"BRANCH", "BR_BIT", "IMM_BYTE", "IMM_WORD"}
  BY <1>2, <1>3, <1>4, <1>5, <1>10 DEF adds, bits, fits, good
<1> QED BY <1>7, <1>8, <1>9, <1>10

------------------------------------------------------------------------------
\* Every step keeps the lines and the table as they are meant, and refuses only
\* a file that is not well formed.
Meant == LinesMeant /\ TableMeant
Sound == LinesMeant' /\ TableMeant' /\ (pass' = "refused" => ~ L!WellFormed(source))

\* The line that Enter adds.
Added(org, size, opcode, idx) ==
  /\ \A i \in 1 .. (at - 1) : lines'[i] = lines[i]
  /\ lines'[at].address = Address(org) /\ lines'[at].size = size
  /\ lines'[at].opcode = opcode /\ lines'[at].dataidx = idx
  /\ \/ at = Len(source) /\ at' = 1 /\ pass' = "labels"
     \/ at < Len(source) /\ at' = at + 1 /\ pass' = "pass1"

\* Enter refuses an address past the end or adds the line.
LEMMA EnterAdds ==
  ASSUME LinesInv, pass = "pass1", NEW org, NEW size, NEW opcode, NEW idx,
         Enter(org, size, opcode, idx)
  PROVE  /\ source' = source
         /\ \/ Address(org) > \hffff /\ pass' = "refused"
            \/ ~ (Address(org) > \hffff) /\ Added(org, size, opcode, idx)
<1>1. CASE Address(org) > \hffff
  BY <1>1 DEF Enter, Fatal
<1>2. CASE ~ (Address(org) > \hffff)
  <2> DEFINE e == [address |-> Address(org), size |-> size,
                   opcode |-> opcode, opextra |-> 0, dataidx |-> idx]
  <2>1. lines' = Append(lines, e) /\ Advance("labels") /\ source' = source
    BY <1>2 DEF Enter
  <2>2. /\ e.address = Address(org) /\ e.size = size
        /\ e.opcode = opcode /\ e.dataidx = idx
    OBVIOUS
  <2> HIDE DEF e
  <2>3. /\ \A i \in 1 .. Len(lines) : lines'[i] = lines[i]
        /\ lines'[Len(lines) + 1] = e
    BY <2>1, Appended DEF LinesInv
  <2>4. Len(lines) = at - 1 /\ at \in Nat
    BY AtALine DEF LinesInv, Working, Passing
  <2>5. \/ at = Len(source) /\ at' = 1 /\ pass' = "labels"
        \/ at < Len(source) /\ at' = at + 1 /\ pass' = "pass1"
    BY <2>1, AdvanceCases DEF Working, Passing
  <2> QED BY <1>2, <2>1, <2>2, <2>3, <2>4, <2>5 DEF Added
<1> QED BY <1>1, <1>2

\* Its address.
OrgOf(l) == IF l.form = "org" THEN l.to ELSE 0

\* Address finds what the listing says.
LEMMA AddressMeant ==
  ASSUME LinesInv, LinesMeant, pass = "pass1"
  PROVE  Address(OrgOf(Line)) = L!AddressOf(source, at)
<1>1. source \in Sources /\ at \in 1 .. Len(source)
  BY DEF LinesInv, Working, Passing
<1>2. L!IsOrg(Line) <=> OrgOf(Line) # 0
  BY DEF L!IsOrg, OrgOf
<1>3. CASE at = 1
  BY <1>1, <1>2, <1>3, AddressFirst DEF Address, OrgOf, L!IsOrg, Line
<1>4. CASE at # 1
  <2>1. at - 1 \in 1 .. Seen /\ Working
    BY <1>1, <1>4, Lengths DEF Seen, Working, Passing
  <2>2. /\ lines[at - 1].address = L!AddressOf(source, at - 1)
        /\ lines[at - 1].size = L!LengthOf(source[at - 1])
    BY <2>1 DEF LinesMeant, Placed
  <2>3. L!AddressOf(source, at) =
          IF L!IsOrg(Line) THEN Line.to
          ELSE L!AddressOf(source, at - 1) + L!LengthOf(source[at - 1])
    BY <1>1, <1>4, AddressNext DEF Line
  <2> QED BY <1>2, <1>4, <2>2, <2>3 DEF Address, OrgOf, L!IsOrg
<1> QED BY <1>3, <1>4

\* A fault of one line is a fault of the file.
LEMMA Fault ==
  ASSUME LinesInv, Working,
         \/ source[at].form = "bad"
         \/ ~ (L!AddressOf(source, at) <= \hffff)
         \/ ~ BitFits(source, at)
         \/ ~ OperandFits(source, at)
  PROVE  ~ L!WellFormed(source)
<1>1. at \in DOMAIN source
  BY AtALine
<1> QED BY <1>1 DEF L!WellFormed, BitFits, OperandFits

\* A step of pass 1, and of the lines before it.
LEMMA ReadMeant ==
  ASSUME LinesInv, LinesMeant, pass = "pass1",
         NEW size, NEW opcode, NEW idx, Enter(OrgOf(Line), size, opcode, idx),
         Line.form # "bad", size = L!LengthOf(Line),
         idx # 0 <=> Line.form = "data",
         Line.form # "code" => opcode = NOCODE,
         Line.form = "code" => opcode = Line.opcode + Line.reg + BitAdds(source, at),
         BitFits(source, at),
         IsSeq(equates'), First(equates') = L!EquValue(source, at + 1)
  PROVE  Sound
<1>1. /\ source \in Sources /\ at \in 1 .. Len(source) /\ Len(source) \in Nat
      /\ Working /\ Seen = at - 1 /\ Done = 0
  BY Lengths DEF LinesInv, Working, Passing, Writing, Seen, Done
<1>2. /\ source' = source
      /\ \/ Address(OrgOf(Line)) > \hffff /\ pass' = "refused"
         \/ ~ (Address(OrgOf(Line)) > \hffff) /\ Added(OrgOf(Line), size, opcode, idx)
  BY EnterAdds
<1>3. Address(OrgOf(Line)) = L!AddressOf(source, at) /\ L!AddressOf(source, at) \in Nat
  BY <1>1, AddressMeant, AddressIs
<1>4. CASE Address(OrgOf(Line)) > \hffff /\ pass' = "refused"
  <2>1. ~ (L!AddressOf(source, at) <= \hffff)
    BY <1>3, <1>4
  <2>2. ~ L!WellFormed(source)
    BY <1>1, <2>1, Fault
  <2> QED BY <1>4, <2>2 DEF Sound, LinesMeant, TableMeant, Working, Passing, Writing
<1>5. CASE ~ (Address(OrgOf(Line)) > \hffff) /\ Added(OrgOf(Line), size, opcode, idx)
  <2>1. L!AddressOf(source, at) <= \hffff
    BY <1>3, <1>5
  <2>2. /\ pass' \in {"pass1", "labels"} /\ Seen' = at /\ Done' = 0
    BY <1>1, <1>2, <1>5 DEF Added, Seen, Done, Writing
  <2>3. Placed(source, at, lines'[at]) /\ Begun(source, at, lines'[at])
    BY <1>3, <1>5, <2>1 DEF Added, Placed, Begun, Line
  <2>4. ASSUME NEW i \in 1 .. (at - 1)
        PROVE  Placed(source, i, lines'[i]) /\ Begun(source, i, lines'[i])
    <3>1. Placed(source, i, lines[i]) /\ Begun(source, i, lines[i])
      BY <1>1 DEF LinesMeant
    <3>2. lines'[i] = lines[i]
      BY <1>5 DEF Added
    <3> QED BY <3>1, <3>2
  <2>5. LinesMeant'
    <3>1. \A i \in 1 .. at : i = at \/ i \in 1 .. (at - 1)
      BY <1>1
    <3>2. \A i \in 1 .. at : ~ (i <= 0)
      OBVIOUS
    <3>3. \A i \in 1 .. at : Placed(source', i, lines'[i]) /\ Begun(source', i, lines'[i])
      BY <1>2, <2>3, <2>4, <3>1
    <3> QED BY <2>2, <3>2, <3>3 DEF LinesMeant
  <2>6. TableMeant'
    <3>1. CASE pass' = "pass1" /\ at' = at + 1
      BY <1>2, <3>1 DEF TableMeant
    <3>2. CASE pass' = "labels" /\ at' = 1 /\ at = Len(source)
      <4>1. LabelTable(source, 1) = L!EquValue(source, at + 1)
        BY <3>2, LabelNone
      <4> QED BY <1>2, <3>2, <4>1 DEF TableMeant
    <3> QED BY <1>5, <3>1, <3>2 DEF Added
  <2> QED BY <2>2, <2>5, <2>6 DEF Sound
<1> QED BY <1>2, <1>4, <1>5

\* The bit of a line, as get_expr finds it.
LEMMA BitMeant ==
  ASSUME LinesInv, TableMeant, Agrees, pass = "pass1", Line.form = "code"
  PROVE  /\ BitOf = BitAsked(source, at)
         /\ BitField(BitOf) = BitAdds(source, at)
         /\ BitOf \in 0 .. 7 <=> BitFits(source, at)
<1>1. Line.bit # NoExpr =>
        Value(Line.bit, equates) = Meaning(Line.bit, L!EquValue(source, at))
  BY DEF Agrees, L!Bit, TableMeant
<1>2. BitOf = BitAsked(source, at)
  BY <1>1 DEF BitOf, BitAsked, Line
<1>3. BitField(BitOf) = BitAdds(source, at)
  BY <1>2 DEF BitField, BitAdds, Line
<1>4. CASE Line.bit = NoExpr
  <2>1. BitOf \in 0 .. 7
    BY <1>4 DEF BitOf
  <2>2. BitFits(source, at)
    BY <1>4 DEF BitFits, L!Bit, Line
  <2> QED BY <1>2, <1>3, <2>1, <2>2
<1>5. CASE Line.bit # NoExpr
  <2>1. BitOf = Meaning(Line.bit, L!EquValue(source, at))
    BY <1>1, <1>5 DEF BitOf
  <2>2. BitFits(source, at) <=> Meaning(Line.bit, L!EquValue(source, at)) \in 0 .. 7
    BY <1>5 DEF BitFits, L!Bit, Line
  <2> QED BY <1>2, <1>3, <2>1, <2>2
<1> QED BY <1>4, <1>5

\* Each action of pass 1.
LEMMA Pass1Meant ==
  ASSUME LinesInv, BlocksInv, Meant, Agrees,
         ReadBlank \/ ReadOrg \/ ReadEquate \/ ReadCode \/ ReadData \/ ReadBad
  PROVE  Sound
<1>1. /\ pass = "pass1" /\ Working /\ LinesMeant /\ TableMeant
      /\ IsSeq(equates) /\ First(equates) = L!EquValue(source, at)
  BY DEF Meant, TableMeant, Working, Passing, ReadBlank, ReadOrg, ReadEquate,
         ReadCode, ReadData, ReadBad
<1>2. at \in Nat \ {0} /\ 0 \in Nat
  BY <1>1, AtALine
<1>3. Line.form # "equ" => L!EquValue(source, at + 1) = L!EquValue(source, at)
  BY <1>2, EquStays DEF Line
<1>4. Line.form # "code" => BitFits(source, at)
  BY DEF BitFits, L!Bit, Line
<1>5. CASE ReadBlank
  <2>1. /\ Line.form = "blank" /\ equates' = equates
        /\ Enter(OrgOf(Line), L!LengthOf(Line), NOCODE, 0)
    BY <1>5 DEF ReadBlank, tableVars, OrgOf, L!LengthOf
  <2> QED BY <1>1, <1>3, <1>4, <2>1, ReadMeant
<1>6. CASE ReadOrg
  <2>1. /\ Line.form = "org" /\ equates' = equates
        /\ Enter(OrgOf(Line), L!LengthOf(Line), NOCODE, 0)
    BY <1>6 DEF ReadOrg, tableVars, OrgOf, L!LengthOf
  <2> QED BY <1>1, <1>3, <1>4, <2>1, ReadMeant
<1>7. CASE ReadEquate
  <2> DEFINE e == [key |-> Key(Line.key), val |-> Lo(Line.val)]
  <2>1. /\ Line.form = "equ" /\ equates' = Append(equates, e)
        /\ Enter(OrgOf(Line), L!LengthOf(Line), NOCODE, 0)
    BY <1>7 DEF ReadEquate, OrgOf, L!LengthOf
  <2>2. e.key = Key(Line.key) /\ e.val = L!Lo(Line.val)
    BY DEF Lo, L!Lo
  <2> HIDE DEF e
  <2>3. IsSeq(equates')
    BY <1>1, <2>1, Appended
  <2>4. First(equates') = Extended(First(equates), Key(Line.key), L!Lo(Line.val))
    BY <1>1, <2>1, <2>2, FirstAppended
  <2>5. L!EquValue(source, at + 1) =
          Extended(L!EquValue(source, at), Key(Line.key), L!Lo(Line.val))
    BY <1>2, <2>1, EquAdded DEF Line
  <2>6. First(equates') = L!EquValue(source, at + 1)
    BY <1>1, <2>4, <2>5
  <2> QED BY <1>1, <1>4, <2>1, <2>3, <2>6, ReadMeant
<1>8. CASE ReadCode
  <2>1. Line.form = "code" /\ equates' = equates /\ OrgOf(Line) = 0
    BY <1>8 DEF ReadCode, tableVars, OrgOf
  <2>2. /\ BitField(BitOf) = BitAdds(source, at)
        /\ BitOf \in 0 .. 7 <=> BitFits(source, at)
    BY <1>1, <2>1, BitMeant
  <2>3. CASE BitOf \in 0 .. 7
    <3>1. Enter(0, Size(Line.type), Line.opcode + Line.reg + BitField(BitOf), 0)
      BY <1>8, <2>3 DEF ReadCode
    <3>2. Size(Line.type) = L!LengthOf(Line)
      BY <2>1 DEF Size, L!LengthOf, L!Size
    <3>3. Enter(OrgOf(Line), L!LengthOf(Line),
                Line.opcode + Line.reg + BitAdds(source, at), 0)
      BY <2>1, <2>2, <3>1, <3>2
    <3> QED BY <1>1, <1>3, <2>1, <2>2, <2>3, <3>3, ReadMeant
  <2>4. CASE BitOf \notin 0 .. 7
    <3>1. pass' = "refused"
      BY <1>8, <2>4 DEF ReadCode, Fatal
    <3>2. ~ L!WellFormed(source)
      BY <1>1, <2>2, <2>4, Fault
    <3> QED BY <1>1, <2>1, <3>1, <3>2
            DEF Sound, LinesMeant, TableMeant, Working, Passing, Writing
  <2> QED BY <2>3, <2>4
<1>9. CASE ReadData
  <2>1. /\ Line.form = "data" /\ equates' = equates
        /\ Enter(OrgOf(Line), L!LengthOf(Line), NOCODE, reallocCount)
    BY <1>9 DEF ReadData, OrgOf, L!LengthOf
  <2>2. reallocCount # 0
    BY DEF BlocksInv
  <2> QED BY <1>1, <1>3, <1>4, <2>1, <2>2, ReadMeant
<1>10. CASE ReadBad
  <2>1. source[at].form = "bad" /\ pass' = "refused" /\ equates' = equates
    BY <1>10 DEF ReadBad, Fatal, Line, tableVars
  <2>2. ~ L!WellFormed(source)
    BY <1>1, <2>1, Fault
  <2> QED BY <1>1, <2>1, <2>2
          DEF Sound, LinesMeant, TableMeant, Working, Passing, Writing
<1> QED BY <1>5, <1>6, <1>7, <1>8, <1>9, <1>10

\* The second loop.
LEMMA LabelMeant ==
  ASSUME LinesInv, Meant, PutLabel
  PROVE  Sound
<1>1. /\ pass = "labels" /\ Working /\ LinesMeant /\ TableMeant
      /\ IsSeq(equates) /\ First(equates) = LabelTable(source, at)
      /\ source' = source /\ lines' = lines
  BY DEF Meant, TableMeant, Working, Passing, PutLabel
<1>2. /\ source \in Sources /\ at \in Nat \ {0} /\ at \in 1 .. Len(source)
      /\ Len(source) \in Nat
  BY <1>1, AtALine DEF LinesInv
<1>3. IsSeq(equates') /\ First(equates') = LabelTable(source, at + 1)
  <2>1. CASE Line.label = ""
    BY <1>1, <1>2, <2>1, LabelStays DEF PutLabel, Line
  <2>2. CASE Line.label # ""
    <3> DEFINE e == [key |-> Key(Line.label), val |-> lines[at].address]
    <3>1. equates' = Append(equates, e)
      BY <2>2 DEF PutLabel
    <3>2. e.key = Key(Line.label) /\ e.val = lines[at].address
      OBVIOUS
    <3> HIDE DEF e
    <3>3. lines[at].address = L!AddressOf(source, at)
      <4>1. at \in 1 .. Seen
        BY <1>1, <1>2 DEF Seen
      <4> QED BY <1>1, <4>1 DEF LinesMeant, Placed
    <3>4. First(equates') =
            Extended(First(equates), Key(Line.label), L!AddressOf(source, at))
      BY <1>1, <3>1, <3>2, <3>3, FirstAppended
    <3>5. LabelTable(source, at + 1) =
            Extended(LabelTable(source, at), Key(Line.label), L!AddressOf(source, at))
      BY <1>2, <2>2, LabelAdded DEF Line
    <3> QED BY <1>1, <3>1, <3>4, <3>5, Appended
  <2> QED BY <2>1, <2>2
<1>4. \/ at = Len(source) /\ at' = 1 /\ pass' = "pass2"
      \/ at < Len(source) /\ at' = at + 1 /\ pass' = "labels"
  BY <1>1, AdvanceCases DEF PutLabel
<1>5. LinesMeant'
  <2>1. Seen = Len(source) /\ Done = 0 /\ Seen' = Len(source) /\ Done' = 0
    BY <1>1, <1>4 DEF Seen, Done, Writing
  <2> QED BY <1>1, <2>1 DEF LinesMeant
<1>6. TableMeant'
  <2>1. CASE at = Len(source) /\ pass' = "pass2"
    <3>1. First(equates') = L!Values(source)
      BY <1>2, <1>3, <2>1, LabelAll
    <3> QED BY <1>1, <1>3, <2>1, <3>1 DEF TableMeant
  <2>2. CASE pass' = "labels" /\ at' = at + 1
    BY <1>1, <1>3, <2>2 DEF TableMeant
  <2> QED BY <1>4, <2>1, <2>2
<1> QED BY <1>4, <1>5, <1>6 DEF Sound

\* A step of pass 2 finishes its line, and leaves the others.
LEMMA PatchMeant ==
  ASSUME LinesInv, Meant, pass = "pass2", Advance("listing"),
         UNCHANGED <<source, equates>>,
         \A i \in 1 .. Len(source) : i # at => lines'[i] = lines[i],
         Placed(source, at, lines'[at]), Finished(source, at, lines'[at])
  PROVE  Sound
<1>1. /\ Working /\ at \in Nat \ {0} /\ at \in 1 .. Len(source) /\ Len(source) \in Nat
      /\ Seen = Len(source) /\ Done = at - 1
  <2>1. Seen = Len(source) /\ Done = at - 1 /\ Working
    BY DEF Seen, Done, Working, Passing, Writing
  <2> QED BY <2>1, AtALine DEF LinesInv
<1>2. \/ at = Len(source) /\ at' = 1 /\ pass' = "listing"
      \/ at < Len(source) /\ at' = at + 1 /\ pass' = "pass2"
  BY <1>1, AdvanceCases
<1>3. Seen' = Len(source) /\ Done' = at
  BY <1>1, <1>2 DEF Seen, Done, Writing
<1>4. ASSUME NEW i \in 1 .. Len(source)
      PROVE  /\ Placed(source, i, lines'[i])
             /\ IF i <= at THEN Finished(source, i, lines'[i])
                           ELSE Begun(source, i, lines'[i])
  <2>1. CASE i = at
    BY <1>1, <2>1
  <2>2. CASE i # at
    <3>1. lines'[i] = lines[i]
      BY <2>2
    <3>2. i <= at <=> i <= at - 1
      BY <1>1, <2>2
    <3>3. /\ Placed(source, i, lines[i])
          /\ IF i <= at - 1 THEN Finished(source, i, lines[i])
                            ELSE Begun(source, i, lines[i])
      BY <1>1 DEF Meant, LinesMeant
    <3> QED BY <3>1, <3>2, <3>3
  <2> QED BY <2>1, <2>2
<1>5. LinesMeant'
  BY <1>3, <1>4 DEF LinesMeant
<1>6. TableMeant'
  BY <1>2 DEF Meant, TableMeant
<1> QED BY <1>2, <1>5, <1>6 DEF Sound

\* Each action of pass 2.
LEMMA Pass2Meant ==
  ASSUME LinesInv, Meant, Agrees, NoPatch \/ Patch
  PROVE  Sound
<1>1. /\ pass = "pass2" /\ Working /\ source \in Sources /\ at \in 1 .. Len(source)
      /\ Seen = Len(source) /\ Done = at - 1 /\ at \in Nat /\ Len(source) \in Nat
      /\ IsSeq(lines) /\ Len(lines) = Len(source)
  <2>1. pass = "pass2" /\ Working
    BY DEF NoPatch, Patch, Working, Passing
  <2>2. Seen = Len(source) /\ Done = at - 1
    BY <2>1 DEF Seen, Done, Writing
  <2> QED BY <2>1, <2>2, AtALine DEF LinesInv
<1>2. Placed(source, at, lines[at]) /\ Begun(source, at, lines[at])
  <2>1. at \in 1 .. Seen /\ ~ (at <= Done)
    BY <1>1
  <2> QED BY <1>1, <2>1 DEF Meant, LinesMeant
<1>3. BitFits(source, at)
  BY <1>2 DEF Placed
<1>4. CASE NoPatch
  <2>1. OperandFits(source, at)
    BY <1>4 DEF NoPatch, OperandFits, L!Operand, Line
  <2>2. ASSUME Line.form = "code"
        PROVE  /\ lines[at].opcode = L!CodeWord(source, at) /\ lines[at].opcode < NOCODE
               /\ Line.type \notin LongTypes
    <3>1. Line.operand = NoExpr /\ Line.type \notin PatchedTypes
      BY <1>1, <1>4, <2>2, CodeLine DEF NoPatch, Line
    <3>2. OperandAdds(source, at) = 0
      BY <3>1 DEF OperandAdds, PatchedTypes, Line
    <3>3. /\ L!CodeWord(source, at) =
               Line.opcode + Line.reg + BitAdds(source, at) + OperandAdds(source, at)
          /\ L!CodeWord(source, at) < NOCODE
      BY <1>1, <1>3, <2>1, <2>2, <3>1, WordFits DEF Line
    <3>4. lines[at].opcode = Line.opcode + Line.reg + BitAdds(source, at)
      BY <1>2, <2>2 DEF Begun, Line
    <3>5. Line.opcode + Line.reg + BitAdds(source, at) \in Int
      <4>1. Line.opcode \in Nat /\ Line.reg \in Nat
        BY <1>1, <2>2, CodeLine DEF Line
      <4>2. BitAsked(source, at) \in 0 .. 7
        BY <1>3, <2>2, BitInRange DEF Line
      <4>3. BitAdds(source, at) \in Int
        BY <4>2 DEF BitAdds
      <4> QED BY <4>1, <4>3
    <3> QED BY <3>1, <3>2, <3>3, <3>4, <3>5 DEF PatchedTypes
  <2>3. Finished(source, at, lines[at])
    BY <2>1, <2>2 DEF Finished, Line
  <2>4. Advance("listing") /\ UNCHANGED <<source, lines, equates>>
    BY <1>4 DEF NoPatch, tableVars
  <2> QED BY <1>1, <1>2, <2>3, <2>4, PatchMeant
<1>5. CASE Patch
  <2> DEFINE v == Value(Line.operand, equates)
             meaning == Meaning(Line.operand, L!Values(source))
  <2>1. /\ Line.form = "code" /\ Line.operand # NoExpr /\ equates' = equates
        /\ IF v = NoValue \/ ~ InRange(v) THEN Fatal
           ELSE /\ lines' = [lines EXCEPT ![at].opcode = @ + PatchBits(v),
                                          ![at].opextra = PatchExtra(v)]
                /\ Advance("listing") /\ source' = source
    BY <1>5 DEF Patch, tableVars
  <2>2. v = meaning /\ (v # NoValue => v \in Nat)
    <3>1. v = meaning /\ v \in Addr \cup {NoValue}
      BY <1>1, <2>1 DEF Agrees, L!Operand, Meant, TableMeant
    <3> QED BY <3>1, AddrIsNat
  <2>3. lines[at].address = L!AddressOf(source, at)
    BY <1>2 DEF Placed
  <2>4. v # NoValue => /\ InRange(v) <=> L!Admissible(source, at)
                       /\ InRange(v) => PatchBits(v) = OperandAdds(source, at)
    BY <1>1, <2>1, <2>2, <2>3, PatchIs
  <2>5. OperandFits(source, at) <=> v # NoValue /\ L!Admissible(source, at)
    BY <2>1, <2>2 DEF OperandFits, L!Operand, Line
  <2>6. CASE v = NoValue \/ ~ InRange(v)
    <3>1. pass' = "refused"
      BY <2>1, <2>6 DEF Fatal
    <3>2. ~ L!WellFormed(source)
      BY <1>1, <2>4, <2>5, <2>6, Fault
    <3>3. IsSeq(equates')
      BY <2>1 DEF Meant, TableMeant
    <3> QED BY <3>1, <3>2, <3>3
            DEF Sound, LinesMeant, TableMeant, Working, Passing, Writing
  <2>7. CASE ~ (v = NoValue \/ ~ InRange(v))
    <3> DEFINE word == lines[at].opcode + PatchBits(v)
               extra == PatchExtra(v)
               r == [[lines[at] EXCEPT !.opcode = word] EXCEPT !.opextra = extra]
    <3>1. /\ lines' = [lines EXCEPT ![at].opcode = @ + PatchBits(v),
                                    ![at].opextra = PatchExtra(v)]
          /\ Advance("listing") /\ source' = source
      BY <2>1, <2>7
    <3>2. DOMAIN lines[at] = Fields
      BY <1>1 DEF LinesInv
    <3>3. at \in DOMAIN lines /\ DOMAIN lines = 1 .. Len(source)
      BY <1>1 DEF IsSeq
    <3>4. /\ lines'[at] = r
          /\ \A i \in 1 .. Len(source) : i # at => lines'[i] = lines[i]
      BY <3>1, <3>3
    <3>5. /\ r.opcode = word /\ r.opextra = extra
          /\ r.address = lines[at].address /\ r.size = lines[at].size
          /\ r.dataidx = lines[at].dataidx
      BY <3>2 DEF Fields
    <3> HIDE DEF r
    <3>6. Placed(source, at, r)
      BY <1>2, <2>1, <3>5 DEF Placed, Line
    <3>7. OperandFits(source, at)
      BY <2>4, <2>5, <2>7
    <3>8. word = L!CodeWord(source, at) /\ word < NOCODE
      <4>1. lines[at].opcode = Line.opcode + Line.reg + BitAdds(source, at)
        BY <1>2, <2>1 DEF Begun, Line
      <4>2. PatchBits(v) = OperandAdds(source, at)
        BY <2>4, <2>7
      <4>3. /\ L!CodeWord(source, at) =
                 Line.opcode + Line.reg + BitAdds(source, at) + OperandAdds(source, at)
            /\ L!CodeWord(source, at) < NOCODE
        BY <1>1, <1>3, <2>1, <2>2, <2>7, <3>7, WordFits DEF Line
      <4> QED BY <4>1, <4>2, <4>3
    <3>9. Line.type \in LongTypes => extra = meaning
      BY <2>2 DEF PatchExtra
    <3>10. Finished(source, at, r)
      BY <3>5, <3>7, <3>8, <3>9 DEF Finished, Line
    <3> QED BY <1>1, <2>1, <3>1, <3>4, <3>6, <3>10, PatchMeant
  <2> QED BY <2>6, <2>7
<1> QED BY <1>4, <1>5

\* Every step of the passes.
LEMMA PassesMeant ==
  ASSUME LinesInv, BlocksInv, Meant, Agrees, Passes
  PROVE  Sound
<1>1. CASE GrowCrash
  <2>1. pass' = "crashed" /\ equates' = equates
    BY <1>1 DEF GrowCrash, tableVars
  <2> QED BY <2>1 DEF Sound, Meant, LinesMeant, TableMeant, Working, Passing, Writing
<1> QED BY <1>1, Pass1Meant, LabelMeant, Pass2Meant DEF Passes

\* A step of the passes changes what is known of them, so that an evaluator
\* that agrees whenever something changes agrees in every pass.
LEMMA PassesMove ==
  ASSUME LinesInv, Passes
  PROVE  vars' # vars
<1> SUFFICES pass' # pass \/ at' # at
  BY DEF vars, asmVars
<1>1. at \in Nat /\ at + 1 # at
  <2>1. pass \in Passing
    BY DEF Passes, ReadBlank, ReadOrg, ReadEquate, ReadCode, ReadData, GrowCrash,
           ReadBad, PutLabel, NoPatch, Patch, Passing
  <2>2. at \in Nat
    BY <2>1, AtALine DEF Working, Passing
  <2> QED BY <2>2
<1>2. ASSUME NEW next, next # pass, Advance(next) PROVE pass' # pass \/ at' # at
  BY <1>1, <1>2 DEF Advance
<1>3. CASE ReadBlank \/ ReadOrg \/ ReadEquate \/ ReadCode \/ ReadData
  <2>1. PICK org, size, idx : pass = "pass1" /\ (Refused \/ Entered(org, size, idx))
    <3>1. CASE ReadBlank \/ ReadOrg \/ ReadEquate
      BY <3>1, ReadCases DEF ReadOne
    <3>2. CASE ReadCode
      BY <3>2, ReadCases DEF ReadOne, ReadCode
    <3>3. CASE ReadData
      BY <3>3, ReadCases DEF ReadOne
    <3> QED BY <1>3, <3>1, <3>2, <3>3
  <2> QED BY <1>1, <2>1 DEF Refused, Entered
<1>4. CASE GrowCrash \/ ReadBad
  BY <1>4 DEF GrowCrash, ReadBad, Fatal
<1>5. CASE PutLabel \/ NoPatch
  BY <1>2, <1>5 DEF PutLabel, NoPatch
<1>6. CASE Patch
  BY <1>2, <1>6, PatchCases DEF Patch, Refused
<1> QED BY <1>3, <1>4, <1>5, <1>6 DEF Passes

\* Every step of all.
LEMMA MeantKept ==
  ASSUME LinesInv, BlocksInv, Meant, [Agrees]_vars, [Next]_vars
  PROVE  Meant'
<1>1. ASSUME NEW s \in Sources, Compile(s) PROVE Meant'
  <2>1. /\ pass' = "pass1" /\ at' = 1 /\ equates' = <<>> /\ source' = s
    BY <1>1 DEF Compile, Begin
  <2>2. Seen' = 0
    BY <2>1 DEF Seen
  <2>3. LinesMeant'
    BY <2>2 DEF LinesMeant
  <2>4. TableMeant'
    BY <2>1, Tuples, EquNone DEF TableMeant
  <2> QED BY <2>3, <2>4 DEF Meant
<1>2. CASE Passes
  BY <1>2, PassesMove, PassesMeant DEF Sound, Meant
<1>3. CASE Kill \/ CannotOpen
  <2>1. pass' \in {"killed", "unwritten"} /\ equates' = equates
    BY <1>3 DEF Kill, CannotOpen, Goes, tableVars
  <2> QED BY <2>1 DEF Meant, LinesMeant, TableMeant, Working, Passing, Writing
<1>4. CASE WriteListing \/ OpenImage \/ WriteLine \/ WriteShort \/ WriteFails
  <2>1. /\ pass \in Writing /\ Working
        /\ UNCHANGED <<source, lines, equates>>
    BY <1>4, WriterSteps DEF tableVars, Working
  <2>2. pass' \in Writing \cup {"success", "unwritten"}
    BY <1>4, WriterSteps
  <2>3. LinesMeant'
    <3>1. CASE pass' \in {"success", "unwritten"}
      BY <3>1 DEF LinesMeant, Working, Passing, Writing
    <3>2. CASE pass' \in Writing
      <4>1. Seen = Len(source) /\ Done = Len(source)
        BY <2>1 DEF Seen, Done, Writing
      <4>2. Seen' = Len(source) /\ Done' = Len(source)
        BY <2>1, <3>2 DEF Seen, Done, Writing
      <4> QED BY <2>1, <4>1, <4>2 DEF Meant, LinesMeant
    <3> QED BY <2>2, <3>1, <3>2
  <2>4. TableMeant'
    BY <2>1, <2>2 DEF Meant, TableMeant, Writing
  <2> QED BY <2>3, <2>4 DEF Meant
<1>5. CASE Run \/ UNCHANGED vars
  <2>1. UNCHANGED asmVars
    BY <1>5 DEF Run, RunNothing, RunImage, RunSource, RunLarge, RunUnread, Ends, vars
  <2>2. UNCHANGED <<pass, at, source, lines, equates>>
    BY <2>1 DEF asmVars, tableVars
  <2> QED BY <2>2 DEF Meant, LinesMeant, TableMeant, Working, Seen, Done
<1> QED BY <1>1, <1>2, <1>3, <1>4, <1>5 DEF Next

------------------------------------------------------------------------------
\* The listing: what pass 2 leaves is what the file determines.
LEMMA EmptyJoined ==
  ASSUME NEW q, IsSeq(q)
  PROVE  q \o <<>> = q /\ <<>> \o q = q /\ SubSeq(q, 1, Len(q)) = q
<1> DEFINE S == {q[i] : i \in 1 .. Len(q)}
<1>1. q \in Seq(S)
  BY SeqOfItself
<1> HIDE DEF S
<1> QED BY <1>1, ConcatEmptySeq, SubSeqFull

\* The bytes of a line are those of the listing.
LEMMA BytesMeant ==
  ASSUME NEW i \in 1 .. Len(source), source \in Sources,
         Placed(source, i, lines[i]), Finished(source, i, lines[i]),
         source[i].form = "data" => blocks[lines[i].dataidx - 1] = source[i].bytes
  PROVE  LineBytes(i) = L!BytesOf(source, i)
<1> DEFINE l == lines[i]
           data == IF l.dataidx = 0 THEN <<>>
                   ELSE SubSeq(blocks[l.dataidx - 1], 1, l.size)
           code == IF l.opcode = NOCODE THEN <<>> ELSE <<Lo(l.opcode), Hi(l.opcode)>>
           extra == IF source[i].form = "code" /\ source[i].type \in LongTypes
               THEN <<Lo(l.opextra), Hi(l.opextra)>> ELSE <<>>
           form == source[i].form
<1>1. LineBytes(i) = data \o code \o extra
  BY DEF LineBytes
<1>2. CASE form = "data"
  <2>1. source[i].bytes \in Seq(Byte)
    BY <1>2, Lengths, SourcesAssumption
  <2>2. IsSeq(source[i].bytes)
    BY <2>1, SeqIsSeq
  <2>3. l.size = Len(source[i].bytes) /\ l.dataidx # 0 /\ l.opcode = NOCODE
    BY <1>2 DEF Placed, L!LengthOf
  <2>4. data = source[i].bytes
    BY <1>2, <2>2, <2>3, EmptyJoined
  <2>5. code = <<>> /\ extra = <<>>
    BY <1>2, <2>3
  <2>6. L!BytesOf(source, i) = source[i].bytes
    BY <1>2 DEF L!BytesOf
  <2> HIDE DEF data, code, extra
  <2> QED BY <1>1, <2>2, <2>4, <2>5, <2>6, EmptyJoined
<1>3. CASE form = "code"
  <2> DEFINE word == L!CodeWord(source, i)
             address == Meaning(source[i].operand, L!Values(source))
             type == source[i].type
  <2>1. /\ l.dataidx = 0 /\ l.opcode = word /\ l.opcode # NOCODE
        /\ type \in LongTypes => l.opextra = address
    <3>1. l.dataidx = 0 /\ l.opcode = word /\ l.opcode < NOCODE
      BY <1>3 DEF Placed, Finished
    <3>2. NOCODE \in Nat
      BY DEF NOCODE
    <3>3. l.opcode # NOCODE
      BY <3>1, <3>2
    <3> QED BY <1>3, <3>1, <3>3 DEF Finished
  <2>2. data = <<>> /\ code = <<L!Lo(word), L!Hi(word)>>
    BY <2>1 DEF Lo, Hi, L!Lo, L!Hi
  <2>3. L!Size(type) = 4 <=> type \in LongTypes
    BY DEF L!Size, LongTypes
  <2>4. extra = IF L!Size(type) = 4 THEN <<L!Lo(address), L!Hi(address)>> ELSE <<>>
    BY <1>3, <2>1, <2>3 DEF Lo, Hi, L!Lo, L!Hi
  <2>5. L!BytesOf(source, i) =
          <<L!Lo(word), L!Hi(word)>> \o
            IF L!Size(type) = 4 THEN <<L!Lo(address), L!Hi(address)>> ELSE <<>>
    BY <1>3 DEF L!BytesOf
  <2>6. IsSeq(code)
    BY <2>2, Tuples
  <2> HIDE DEF data, code, extra, word, address, type
  <2>7. data \o code = code
    BY <2>2, <2>6, EmptyJoined
  <2> QED BY <1>1, <2>2, <2>4, <2>5, <2>7
<1>4. CASE form # "data" /\ form # "code"
  <2>1. l.dataidx = 0 /\ l.opcode = NOCODE
    BY <1>4 DEF Placed
  <2>2. data = <<>> /\ code = <<>> /\ extra = <<>>
    BY <1>4, <2>1
  <2>3. L!BytesOf(source, i) = <<>>
    BY <1>4 DEF L!BytesOf
  <2> HIDE DEF data, code, extra
  <2> QED BY <1>1, <2>2, <2>3, Tuples, EmptyJoined
<1> QED BY <1>2, <1>3, <1>4

\* What is written is well-formed, and its rows are the listing's.
LEMMA RowsMeant ==
  ASSUME LinesInv, BytesKept, Meant, pass \in Writing
  PROVE  /\ L!WellFormed(source)
         /\ Rows = [i \in DOMAIN source |-> [address |-> L!AddressOf(source, i),
                                             bytes |-> L!BytesOf(source, i)]]
<1>1. /\ Working /\ source \in Sources /\ DOMAIN source = 1 .. Len(source)
      /\ Len(source) \in Nat /\ IsSeq(lines) /\ Len(lines) = Len(source)
      /\ DOMAIN lines = 1 .. Len(source)
      /\ Seen = Len(source) /\ Done = Len(source)
  <2>1. Working /\ pass # "pass1"
    BY DEF Working, Writing
  <2>2. Seen = Len(source) /\ Done = Len(source)
    BY DEF Seen, Done, Writing
  <2>3. source \in Sources /\ IsSeq(lines) /\ Len(lines) = Len(source)
    BY <2>1 DEF LinesInv
  <2> QED BY <2>1, <2>2, <2>3, Lengths DEF IsSeq
<1>2. ASSUME NEW i \in 1 .. Len(source)
      PROVE  Placed(source, i, lines[i]) /\ Finished(source, i, lines[i])
  <2>1. i <= Done
    BY <1>1
  <2> QED BY <1>1, <2>1 DEF Meant, LinesMeant
<1>3. L!WellFormed(source)
  <2> SUFFICES ASSUME NEW i \in DOMAIN source
               PROVE  /\ source[i].form # "bad" /\ L!AddressOf(source, i) <= \hffff
                      /\ BitFits(source, i) /\ OperandFits(source, i)
    BY DEF L!WellFormed, BitFits, OperandFits
  <2> QED BY <1>1, <1>2 DEF Placed, Finished
<1>4. ASSUME NEW i \in 1 .. Len(source)
      PROVE  /\ lines[i].address = L!AddressOf(source, i)
             /\ LineBytes(i) = L!BytesOf(source, i)
  <2>1. source[i].form = "data" => blocks[lines[i].dataidx - 1] = source[i].bytes
    BY <1>1 DEF BytesKept
  <2>2. LineBytes(i) = L!BytesOf(source, i)
    BY <1>1, <1>2, <2>1, BytesMeant
  <2> QED BY <1>2, <2>2 DEF Placed
<1> QED BY <1>1, <1>3, <1>4 DEF Rows

\* The bytes of an accepted file.
Outcome == IF Verdict = "accepted" THEN Rows ELSE <<>>

\* Every step of the program is one of the specification, or none.
LEMMA StepMaps ==
  ASSUME Inv, Inv', Meant, Meant', [Agrees]_vars, [Next]_vars
  PROVE  [L!Next]_<<source, Verdict, Outcome>>
<1> USE DEF Inv
<1>1. ASSUME NEW s \in Sources, Compile(s) PROVE L!Begin(s)
  BY <1>1 DEF Compile, Begin, L!Begin, Verdict, Outcome, Passing
<1>2. CASE Passes
  <2>1. /\ pass \in Passing /\ source' = source
        /\ Verdict = "none" /\ Outcome = <<>> /\ source # <<>>
    <3>1. pass \in Passing
      BY <1>2 DEF Passes, ReadBlank, ReadOrg, ReadEquate, ReadCode, ReadData, GrowCrash,
                  ReadBad, PutLabel, NoPatch, Patch, Passing
    <3>2. source' = source
      <4>1. CASE ReadBlank \/ ReadOrg \/ ReadEquate \/ ReadCode \/ ReadData
        BY <4>1, ReadCases DEF ReadOne
      <4>2. CASE GrowCrash \/ ReadBad \/ PutLabel \/ NoPatch
        BY <4>2 DEF GrowCrash, ReadBad, Fatal, PutLabel, NoPatch
      <4>3. CASE Patch
        BY <4>3, PatchCases
      <4> QED BY <1>2, <4>1, <4>2, <4>3 DEF Passes
    <3>3. source # <<>>
      BY <3>1, AtALine, NoLines DEF Working
    <3> QED BY <3>1, <3>2, <3>3 DEF Verdict, Outcome, Passing
  <2>2. Sound
    BY <1>2, PassesMove, PassesMeant
  <2>3. pass' \in Passing \cup Writing \cup Resting
    BY DEF LinesInv
  <2>4. CASE pass' \in Passing
    <3>1. Verdict' = "none" /\ Outcome' = <<>>
      BY <2>4 DEF Verdict, Outcome, Passing
    <3> QED BY <2>1, <3>1
  <2>5. CASE pass' = "refused"
    <3>1. Verdict' = "refused" /\ Outcome' = <<>>
      BY <2>5 DEF Verdict, Outcome, Passing
    <3> QED BY <2>1, <2>2, <2>5, <3>1 DEF Sound, L!Refuse, L!Next
  <2>6. CASE pass' = "crashed"
    <3>1. Verdict' = "stopped" /\ Outcome' = <<>>
      BY <2>6 DEF Verdict, Outcome, Passing
    <3> QED BY <2>1, <3>1 DEF L!Stop, L!Next
  <2>7. CASE pass' \in Writing
    <3>1. Verdict' = "accepted" /\ Outcome' = Rows'
      BY <2>7 DEF Verdict, Outcome, Passing, Writing
    <3>2. /\ L!WellFormed(source')
          /\ Rows' = [i \in DOMAIN source' |-> [address |-> L!AddressOf(source', i),
                                                bytes |-> L!BytesOf(source', i)]]
      <4>1. (LinesInv /\ BytesKept /\ Meant /\ pass \in Writing =>
              /\ L!WellFormed(source)
              /\ Rows = [i \in DOMAIN source |-> [address |-> L!AddressOf(source, i),
                                                  bytes |-> L!BytesOf(source, i)]])'
        BY RowsMeant, PTL
      <4> QED BY <2>7, <4>1
    <3> QED BY <2>1, <3>1, <3>2 DEF L!Accept, L!Next
  <2>8. pass' \in Passing \cup Writing \cup {"refused", "crashed"}
    <3>1. CASE ReadBlank \/ ReadOrg \/ ReadEquate \/ ReadCode \/ ReadData
      BY <3>1, ReadCases DEF ReadOne, Refused, Entered, Passing
    <3>2. CASE GrowCrash \/ ReadBad
      BY <3>2 DEF GrowCrash, ReadBad, Fatal
    <3>3. CASE PutLabel \/ NoPatch
      BY <3>3 DEF PutLabel, NoPatch, Advance, Passing, Writing
    <3>4. CASE Patch
      BY <3>4, PatchCases DEF Refused, Advance, Patch, Passing, Writing
    <3> QED BY <1>2, <3>1, <3>2, <3>3, <3>4 DEF Passes
  <2> QED BY <2>4, <2>5, <2>6, <2>7, <2>8
<1>3. CASE Kill
  <2>1. Verdict' = "stopped" /\ Outcome' = <<>> /\ source' = source
    BY <1>3 DEF Kill, Verdict, Outcome, Passing
  <2> QED BY <2>1 DEF L!Stop, L!Next
<1>4. CASE WriteListing \/ OpenImage \/ WriteLine \/ WriteShort \/ WriteFails \/ CannotOpen
  <2>1. pass \in Writing /\ UNCHANGED <<source, lines, blocks>>
    BY <1>4, WriterSteps DEF tableVars
  <2>2. pass' \in Writing \cup {"success", "unwritten"}
    BY <1>4, WriterSteps
  <2>3. Verdict = "accepted" /\ Verdict' = "accepted"
    BY <2>1, <2>2 DEF Verdict, Passing, Writing
  <2>4. Rows' = Rows
    BY <2>1, SameRows
  <2> QED BY <2>1, <2>3, <2>4 DEF Outcome
<1>5. CASE Run \/ UNCHANGED vars
  <2>1. UNCHANGED asmVars
    BY <1>5 DEF Run, RunNothing, RunImage, RunSource, RunLarge, RunUnread, Ends, vars
  <2>2. UNCHANGED <<source, lines, blocks, pass>>
    BY <2>1 DEF asmVars, tableVars
  <2>3. Rows' = Rows
    BY <2>2, SameRows
  <2> QED BY <2>2, <2>3 DEF Verdict, Outcome
<1> QED BY <1>1, <1>2, <1>3, <1>4, <1>5 DEF Next, L!Next

\* Meant holds at the start.
LEMMA MeantInit == Init => Meant
<1> SUFFICES ASSUME Init PROVE Meant
  OBVIOUS
<1>1. pass = "idle" /\ equates = <<>>
  BY DEF Init, AsmInit
<1> QED BY <1>1, Tuples DEF Meant, LinesMeant, TableMeant, Working, Passing, Writing

\* And always, as long as expressions evaluate to what they mean.
LEMMA MeantHolds == Spec /\ EvaluatesAsMeant => []Meant
<1>1. Inv /\ Meant /\ [Agrees]_vars /\ [Next]_vars => Meant'
  BY MeantKept DEF Inv
<1> QED BY <1>1, InvHolds, MeantInit, PTL DEF Spec, EvaluatesAsMeant

\* The two passes implement the listing: whatever the files, the names and the
\* evaluator, if the evaluator finds what expressions mean (parse.c:193-327,
\* directive.c:4-104, expression.c:36-98).
THEOREM PassesImplementListing ==
  Spec /\ EvaluatesAsMeant => ImplementsListing
<1>1. Init => L!Init
  BY DEF Init, AsmInit, L!Init, Verdict
<1>2. /\ Inv /\ Inv' /\ Meant /\ Meant' /\ [Agrees]_vars /\ [Next]_vars
      => [L!Next]_<<source, Verdict, IF Verdict = "accepted" THEN Rows ELSE <<>>>>
  BY StepMaps DEF Outcome
<1> QED
  BY <1>1, <1>2, InvHolds, MeantHolds, PTL DEF Spec, EvaluatesAsMeant, ImplementsListing, L!Spec

\* A file that is refused costs its user nothing, under the same condition
\* (parse.c:329-341).
THEOREM RefusedCostsNothing ==
  Spec /\ EvaluatesAsMeant => RefusedLeavesFiles
<1>1. ASSUME Inv, Meant, [Next]_vars
      PROVE  [listing' # listing \/ image' # image => L!WellFormed(source)]_vars
  <2>1. listing' # listing \/ image' # image => pass \in Writing
    <3>1. CASE WriteListing \/ OpenImage \/ WriteLine \/ WriteShort \/ WriteFails
      BY <3>1, WriterSteps
    <3>2. ASSUME NEW s \in Sources, Compile(s) PROVE UNCHANGED <<listing, image>>
      BY <3>2 DEF Compile
    <3>3. CASE (Passes /\ UNCHANGED toolVars) \/ Kill \/ CannotOpen
      BY <3>3 DEF Kill, CannotOpen, toolVars, Writing
    <3>4. CASE Run
      BY <3>4 DEF Run, RunNothing, RunImage, RunSource, RunLarge, RunUnread, Ends
    <3>5. CASE UNCHANGED vars
      BY <3>5 DEF vars, toolVars
    <3> QED BY <1>1, <3>1, <3>2, <3>3, <3>4, <3>5 DEF Next
  <2> QED BY <1>1, <2>1, RowsMeant DEF Inv
<1> QED BY <1>1, InvHolds, MeantHolds, PTL DEF Spec, EvaluatesAsMeant, RefusedLeavesFiles
============================================================================
