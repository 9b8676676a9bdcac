------------------------------- MODULE PushPop -------------------------------
(***************************************************************************)
(* push_val and pop_val on the cells they share with everything else in    *)
(* memory, seen alone: what a program does that reaches its stack only     *)
(* with Push, Pop, Call and Return.  Top is the 0xffff of the code, so     *)
(* that a small Top reaches the two ends of the address space.             *)
(***************************************************************************)
EXTENDS StackPointer, Sequences

CONSTANTS Values, Top

ASSUME TopAssumption == Top \in Nat \ {0}

VARIABLES
  cells,  \* the memory, cell by cell
  sp,     \* state->sp
  out     \* the value pop_val returned last

vars == <<cells, sp, out>>

\* execute starts the pointer at the top, over whatever memory holds.
Init ==
  /\ cells \in [0 .. Top -> Values]
  /\ sp = Top
  /\ out \in Values

PushVal(v) ==
  /\ cells' = [cells EXCEPT ![sp] = v]
  /\ sp' = AfterPush(sp, Top)
  /\ UNCHANGED out

PopVal ==
  /\ sp' = AfterPop(sp, Top)
  /\ out' = cells[AfterPop(sp, Top)]
  /\ UNCHANGED cells

Next == (\E v \in Values : PushVal(v)) \/ PopVal
Spec == Init /\ [][Next]_vars

------------------------------------------------------------------------------
TypeOK ==
  /\ cells \in [0 .. Top -> Values]
  /\ sp \in 0 .. Top
  /\ out \in Values

\* The stack of a program: the cells above the pointer, the oldest at Top.
Contents == [i \in 1 .. (Top - sp) |-> cells[Top + 1 - i]]

\* push_val and pop_val keep a stack of Top values: what was pushed last is
\* popped first, popping an empty stack does no harm, and the push that finds
\* the stack full empties it (run_misc.c:79-96).
L == INSTANCE Lifo WITH stack <- Contents, Capacity <- Top
ImplementsLifo == L!Spec
==============================================================================
