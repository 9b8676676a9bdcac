-------------------------------- MODULE Lifo --------------------------------
(***************************************************************************)
(* What a program may rely on: a stack of Capacity values.  A pop of an    *)
(* empty stack yields some value and leaves it empty.  One push too many   *)
(* loses everything: the stack is empty after it.                          *)
(***************************************************************************)
EXTENDS Integers, Sequences

CONSTANTS Values, Capacity

VARIABLES
  stack,  \* the values, the last one on top
  out     \* the value the last pop yielded

vars == <<stack, out>>

Init == stack = <<>> /\ out \in Values

Push(v) ==
  /\ Len(stack) < Capacity
  /\ stack' = Append(stack, v)
  /\ UNCHANGED out

Overflow == Len(stack) = Capacity /\ stack' = <<>> /\ UNCHANGED out

Pop ==
  /\ stack # <<>>
  /\ out' = stack[Len(stack)]
  /\ stack' = SubSeq(stack, 1, Len(stack) - 1)

Underflow == stack = <<>> /\ out' \in Values /\ UNCHANGED stack

Next == (\E v \in Values : Push(v)) \/ Overflow \/ Pop \/ Underflow
Spec == Init /\ [][Next]_vars
=============================================================================
