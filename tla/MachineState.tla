---------------------------- MODULE MachineState ----------------------------
(***************************************************************************)
(* What execute and run_io share: the memory block *prog, the run_state    *)
(* and the place the loop of execute has reached.                          *)
(*                                                                         *)
(* The block is modelled by the cells written since malloc returned it.    *)
(* A cell nothing wrote holds what load left there: zero in the screen     *)
(* ROM, and what malloc found elsewhere, which Leftover names.  An         *)
(* instruction at the last addresses reads up to four cells past them.     *)
(***************************************************************************)
EXTENDS Alu, Isa, StackPointer, MemoryMap

CONSTANTS
  Leftover,  \* the contents malloc returned, per cell
  Images     \* the programs that may be loaded, as functions on their cells

Cell      == 0 .. 65539
Reg       == 0 .. 15
StackTop  == 65535

ASSUME LeftoverAssumption == Leftover \in [Cell -> Byte]
ASSUME ImagesAssumption ==
  \A img \in Images : DOMAIN img \subseteq Addr /\ img \in [DOMAIN img -> Byte]

VARIABLES
  mem,    \* the cells written, and their bytes
  reg,    \* state->reg
  sreg,   \* state->sreg, the set of the flags that are one
  ip,     \* state->ip
  sp,     \* state->sp
  phase,  \* where the loop of execute is
  err     \* what execute returns

cpuVars == <<reg, sreg, ip, sp>>

\* "exec": at the fetch of execute.  "io": at the call of run_io.  "paused":
\* in the blocking getch of F4.  "stepping": in the stepper's loop.
\* "devices": past it.  "exit": execute has returned.
Phases == {"exec", "io", "paused", "stepping", "devices", "exit"}

Peek(a) == IF a \in DOMAIN mem THEN mem[a]
           ELSE IF a \in ScreenRom THEN 0 ELSE Leftover[a]
Poke(m, a, v) == [c \in DOMAIN m \cup {a} |-> IF c = a THEN v ELSE m[c]]

\* The little-endian word at address a.
WordAt(a) == Pair(Peek(a + 1), Peek(a))

MachineTypeOK ==
  /\ DOMAIN mem \subseteq Addr /\ mem \in [DOMAIN mem -> Byte]
  /\ reg \in [Reg -> Byte]
  /\ sreg \subseteq Flags
  /\ ip \in Addr
  /\ sp \in Addr
  /\ phase \in Phases
  /\ err \in {-1, 0, 1}

\* run clears run_state; execute sets the stack pointer.
MachineInit ==
  /\ \E img \in Images : mem = Loaded(img)
  /\ reg = [r \in Reg |-> 0]
  /\ sreg = {}
  /\ ip = 0
  /\ sp = StackTop
  /\ phase = "exec"
  /\ err = 0
=============================================================================
