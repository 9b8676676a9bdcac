------------------------------- MODULE Machine -------------------------------
(***************************************************************************)
(* The emulator: execute and run_io, one process that alternates, and the  *)
(* user at the keyboard.  The loop of execute never waits except for the   *)
(* user, so each of its steps is weakly fair; the user owes nothing.       *)
(***************************************************************************)
EXTENDS Cpu, Console

vars == <<mem, cpuVars, phase, err, consoleVars>>

Init == MachineInit /\ ConsoleInit

Emulator ==
  \/ Execute /\ UNCHANGED consoleVars
  \/ RunIo

User == \E k \in KeyCodes : Type(k)

Next == Emulator \/ User

Spec == Init /\ [][Next]_vars
FairSpec == Spec /\ WF_vars(Emulator)

TypeOK == MachineTypeOK /\ ConsoleTypeOK
==============================================================================
