----------------------------- MODULE ProgramRuns -----------------------------
(***************************************************************************)
(* The machine on whole programs, with two histories kept beside it: which *)
(* program was loaded, and the calls that have not returned.  A frame is   *)
(* the pointer at the call, the address after it, and whether the two      *)
(* cells the call pushed still hold what it pushed.                        *)
(***************************************************************************)
EXTENDS Machine, ProgramText

CONSTANT Programs   \* the programs, by name

VARIABLES program, frames

traceVars == <<vars, program, frames>>

ASSUME ProgramsAssumption ==
  \A p \in DOMAIN Programs :
    DOMAIN Programs[p] = 1 .. Len(Programs[p]) /\ Len(Programs[p]) \in Nat \ {0}

Code == [p \in DOMAIN Programs |-> ImageOf(Programs[p])]
Whole == {p \in DOMAIN Programs : WellFormed(Programs[p])}
Boundary == [p \in DOMAIN Programs |-> Boundaries(Programs[p])]

TraceInit ==
  /\ Init
  /\ program \in DOMAIN Programs
  /\ mem = Loaded(ImageOf(Programs[program]))
  /\ frames = {}

Instruction == Handler(WordAt(ip))
Executes == phase = "exec" /\ phase' # "exec"

\* A frame lives while the pointer stays below its two cells.
Live(f) == sp' <= f.sp - 2
Unchanged(a) == Peek(a)' = Peek(a)
Kept ==
  {[f EXCEPT !.intact = @ /\ Unchanged(f.sp) /\ Unchanged(f.sp - 1)] :
     f \in {g \in frames : Live(g)}}

Called ==
  IF Executes /\ Instruction \in {"call", "icall"}
  THEN {[sp     |-> sp,
         return |-> U16(ip + (IF Instruction = "call" THEN 4 ELSE 2)),
         intact |-> TRUE]}
  ELSE {}

Trace == frames' = Kept \cup Called

TraceNext == Next /\ Trace /\ UNCHANGED program
TraceSpec == TraceInit /\ [][TraceNext]_traceVars /\ WF_vars(Emulator)

------------------------------------------------------------------------------
\* A Return that finds the pointer where a call left it, and the two cells of
\* that call as it left them, goes to the instruction after the call, whatever
\* calls, pushes and pops came between (execute.c:217-226, 346-357, 651-657).
ReturnsToCaller ==
  [][\A f \in frames :
       Executes /\ Instruction = "ret" /\ f.intact /\ sp = f.sp - 2
     => ip' = f.return /\ sp' = f.sp]_traceVars

\* Executing an assembled program never enters the middle of an instruction:
\* skips, branches, calls and returns all land on a line (execute.c:907,
\* run_misc.c:67-77).
OnBoundary == phase = "exec" => ip \in Boundary[program]

\* What a program must do for that: leave its own code alone, return only
\* where a call left the pointer and its two cells, and aim its indirect jumps
\* and calls at lines.
CodeIntact == \A a \in DOMAIN Code[program] : Peek(a) = Code[program][a]
Matched == Instruction = "ret" => \E f \in frames : f.intact /\ sp = f.sp - 2
Aimed == Instruction \in {"ijmp", "icall"} => IndirectTarget \in Boundary[program]
Disciplined ==
  /\ program \in Whole
  /\ CodeIntact
  /\ phase = "exec" => Matched /\ Aimed

\* Nothing but the user can stop the emulator from going on, so a program
\* whose loops count down ends.
Ends == <>(phase = "exit")

\* The cells run_io gives a meaning are all it writes: the screen ROM, the
\* stack and the code change by the program's own stores only (display.c:72,
\* 116-117).
DeviceCells == {KeyCell, RandomCell, RandomCell + 1}
DevicesKeepOut ==
  [][phase # "exec" =>
       /\ \A a \in DOMAIN mem' \ DeviceCells : a \in DOMAIN mem /\ mem'[a] = mem[a]
       /\ UNCHANGED cpuVars]_traceVars
==============================================================================
