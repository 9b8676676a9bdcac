-------------------------------- MODULE Gpio --------------------------------
(***************************************************************************)
(* mikode --gpio, run again and again on one board: gpio_init exports the  *)
(* pins through sysfs and opens their value files, run_io carries the      *)
(* cells 0xe100 (output) and 0xe101 (direction) over to them after every   *)
(* instruction, and run gives them back.  The pins outlive the process.    *)
(*                                                                         *)
(* A byte of the eight pins is the set of the pins whose bit is one.  What *)
(* an instruction stores is left open here (it is module Cpu), and so is   *)
(* what gpio_read finds: it stores a byte at 0xe102 in every case, since   *)
(* the -1 of a failure is returned as a uint8_t, and never ends a run.     *)
(***************************************************************************)
EXTENDS Naturals

CONSTANT NPins   \* how many pins there are: 8 in the code

ASSUME NPinsAssumption == NPins \in Nat \ {0}

Pins == 0 .. (NPins - 1)

VARIABLES
  exported,  \* the kernel: the pins in /sys/class/gpio
  outputs,   \* the kernel: those of the exported pins that are outputs
  high,      \* the kernel: those of the outputs that are driven high
  phase,     \* where the process is
  i,         \* the pin its loop is at
  mapped,    \* whether pin_map and gpio_fds are those of the board
  out, dirs, \* the cells 0xe100 and 0xe101
  oldOut, oldDirs,  \* old_rom[0] and old_rom[1]
  did,       \* history: what this run did to each pin last
  spoiled    \* history: a system call of some run failed, or it was killed

kernel == <<exported, outputs, high>>
cells  == <<out, dirs>>
mirror == <<oldOut, oldDirs>>
vars   == <<kernel, phase, i, mapped, cells, mirror, did, spoiled>>

Loops == {"export", "open", "output", "direction", "unexport"}
Phases == Loops \cup {"idle", "program", "read"}

TypeOK ==
  /\ exported \subseteq Pins /\ outputs \subseteq exported /\ high \subseteq outputs
  /\ phase \in Phases /\ i \in Pins /\ mapped \in BOOLEAN
  /\ out \subseteq Pins /\ dirs \subseteq Pins
  /\ oldOut \subseteq Pins /\ oldDirs \subseteq Pins
  /\ did \in [Pins -> {"nothing", "exported", "turned", "driven"}]
  /\ spoiled \in BOOLEAN

Init ==
  /\ exported = {} /\ outputs = {} /\ high = {}
  /\ phase = "idle" /\ i = 0 /\ mapped = FALSE
  /\ out = {} /\ dirs = {} /\ oldOut = {} /\ oldDirs = {}
  /\ did = [p \in Pins |-> "nothing"]
  /\ spoiled = FALSE

Goes(to) == phase' = to /\ i' = 0

\* Mutant of NextPin: one turn too many.
NextPinPast(to) == IF i = NPins THEN Goes(to) ELSE i' = i + 1 /\ UNCHANGED phase

NextPin(to) == IF i = NPins - 1 THEN Goes(to) ELSE i' = i + 1 /\ UNCHANGED phase
Fails(to) == Goes(to) /\ spoiled' = TRUE

------------------------------------------------------------------------------
\* The kernel: a pin comes with the direction and the level it is found with,
\* and an output starts low.
Export(p, isOutput, isHigh) ==
  /\ exported' = exported \cup {p}
  /\ outputs' = IF isOutput THEN outputs \cup {p} ELSE outputs
  /\ high' = IF isOutput /\ isHigh THEN high \cup {p} ELSE high
Unexport(p) ==
  /\ exported' = exported \ {p} /\ outputs' = outputs \ {p} /\ high' = high \ {p}
Turn(p, toOutput) ==
  /\ outputs' = IF toOutput THEN outputs \cup {p} ELSE outputs \ {p}
  /\ high' = high \ {p}
  /\ UNCHANGED exported
Drive(p, toHigh) ==
  /\ high' = IF toHigh THEN high \cup {p} ELSE high \ {p}
  /\ UNCHANGED <<exported, outputs>>

------------------------------------------------------------------------------
\* mikode -rg: the image has given the cells a value, and old_rom is what
\* malloc returned.
Start ==
  /\ phase = "idle"
  /\ Goes("export")
  /\ mapped' = TRUE
  /\ out' \in SUBSET Pins /\ dirs' \in SUBSET Pins
  /\ oldOut' \in SUBSET Pins /\ oldDirs' \in SUBSET Pins
  /\ did' = [p \in Pins |-> "nothing"]
  /\ UNCHANGED <<kernel, spoiled>>

\* On a CHIP whose sysfs directory, or a label or the base in it, cannot be
\* opened or read, get_chip_pins returns -2 or less, and so does gpio_init; run
\* looks for -1 and goes on, with no pin exported and 0 for every descriptor.
\* (With no expander among the labels the base is 0: Start, with pins 0 to 7.)
StartUnmapped ==
  /\ phase = "idle"
  /\ Goes("program")
  /\ mapped' = FALSE
  /\ out' \in SUBSET Pins /\ dirs' \in SUBSET Pins
  /\ oldOut' \in SUBSET Pins /\ oldDirs' \in SUBSET Pins
  /\ did' = [p \in Pins |-> "nothing"]
  /\ UNCHANGED <<kernel, spoiled>>

\* Mutant of ExportPin: a pin that is exported already will do.
ExportPinAgain ==
  /\ phase = "export"
  /\ \E isOutput, isHigh \in BOOLEAN :
       IF i \in exported THEN UNCHANGED kernel ELSE Export(i, isOutput, isHigh)
  /\ did' = IF i \in exported THEN did ELSE [did EXCEPT ![i] = "exported"]
  /\ NextPin("open")
  /\ UNCHANGED <<mapped, cells, mirror, spoiled>>

ExportPin ==
  /\ phase = "export" /\ i \notin exported
  /\ \E isOutput, isHigh \in BOOLEAN : Export(i, isOutput, isHigh)
  /\ did' = [did EXCEPT ![i] = "exported"]
  /\ NextPin("open")
  /\ UNCHANGED <<mapped, cells, mirror, spoiled>>

\* The kernel refuses a pin that is exported already.  The process ends; the
\* pins before this one stay exported.
ExportFails ==
  /\ phase = "export"
  /\ Fails("idle")
  /\ UNCHANGED <<kernel, mapped, cells, mirror, did>>

OpenPin ==
  /\ phase = "open"
  /\ NextPin("program")
  /\ UNCHANGED <<kernel, mapped, cells, mirror, did, spoiled>>
OpenFails ==
  /\ phase = "open"
  /\ Fails("idle")
  /\ UNCHANGED <<kernel, mapped, cells, mirror, did>>

------------------------------------------------------------------------------
\* An instruction, then run_io up to the pins.  A store changes one cell, the
\* return address of a call may change both.
Instruction ==
  /\ phase = "program"
  /\ out' \in SUBSET Pins /\ dirs' \in SUBSET Pins
  /\ Goes("output")
  /\ UNCHANGED <<kernel, mapped, mirror, did, spoiled>>

\* A break, an unknown opcode, F3 or ^C.
ProgramEnds ==
  /\ phase = "program"
  /\ Goes("unexport")
  /\ UNCHANGED <<kernel, mapped, cells, mirror, did, spoiled>>

Changed(p, new, old) == (p \in new) # (p \in old)

\* The loop over the output byte.  A bit whose direction bit is set too goes
\* to its pin, which refuses it while it is an input; the mirror follows when
\* the loop is through.

\* Mutant of EndOutput: the mirror follows as soon as a pin is written.
EndOutputEarly ==
  /\ NextPin("direction")
  /\ oldOut' = IF i = NPins - 1 \/ (Changed(i, out, oldOut) /\ i \in dirs)
               THEN out ELSE oldOut

EndOutput ==
  /\ NextPin("direction")
  /\ oldOut' = IF i = NPins - 1 THEN out ELSE oldOut

SkipOutput ==
  /\ phase = "output"
  /\ ~ (Changed(i, out, oldOut) /\ i \in dirs)
  /\ EndOutput
  /\ UNCHANGED <<kernel, mapped, cells, oldDirs, did, spoiled>>

\* Without a map the byte goes to descriptor 0, the terminal.
DrivePin ==
  /\ phase = "output"
  /\ Changed(i, out, oldOut) /\ i \in dirs
  /\ IF mapped
     THEN /\ i \in outputs
          /\ Drive(i, i \in out)
          /\ did' = [did EXCEPT ![i] = "driven"]
     ELSE UNCHANGED <<kernel, did>>
  /\ EndOutput
  /\ UNCHANGED <<mapped, cells, oldDirs, spoiled>>

\* A failure makes run_io return -1, which ends the run as F3 does.
DriveFails ==
  /\ phase = "output"
  /\ Changed(i, out, oldOut) /\ i \in dirs
  /\ Goes("unexport")
  /\ UNCHANGED <<kernel, mapped, cells, mirror, did, spoiled>>

\* The loop over the direction byte, likewise.
EndDirection ==
  /\ NextPin("read")
  /\ oldDirs' = IF i = NPins - 1 THEN dirs ELSE oldDirs

SkipDirection ==
  /\ phase = "direction"
  /\ ~ Changed(i, dirs, oldDirs)
  /\ EndDirection
  /\ UNCHANGED <<kernel, mapped, cells, oldOut, did, spoiled>>

\* Mutant of TurnPin: an output stays one.
TurnPinOut ==
  /\ phase = "direction"
  /\ Changed(i, dirs, oldDirs) /\ mapped
  /\ Turn(i, i \in dirs \/ i \in outputs)
  /\ did' = [did EXCEPT ![i] = "turned"]
  /\ EndDirection
  /\ UNCHANGED <<mapped, cells, oldOut, spoiled>>

TurnPin ==
  /\ phase = "direction"
  /\ Changed(i, dirs, oldDirs) /\ mapped
  /\ Turn(i, i \in dirs)
  /\ did' = [did EXCEPT ![i] = "turned"]
  /\ EndDirection
  /\ UNCHANGED <<mapped, cells, oldOut, spoiled>>

\* Mutant of TurnFails: the process ends on the spot.
TurnFailsExit ==
  /\ phase = "direction"
  /\ Changed(i, dirs, oldDirs)
  /\ Goes("idle")
  /\ UNCHANGED <<kernel, mapped, cells, mirror, did, spoiled>>

TurnFails ==
  /\ phase = "direction"
  /\ Changed(i, dirs, oldDirs)
  /\ Goes("unexport")
  /\ UNCHANGED <<kernel, mapped, cells, mirror, did, spoiled>>

ReadPins ==
  /\ phase = "read"
  /\ Goes("program")
  /\ UNCHANGED <<kernel, mapped, cells, mirror, did, spoiled>>

------------------------------------------------------------------------------
UnexportPin ==
  /\ phase = "unexport" /\ mapped /\ i \in exported
  /\ Unexport(i)
  /\ NextPin("idle")
  /\ UNCHANGED <<mapped, cells, mirror, did, spoiled>>

\* A pin that cannot be given back, for want of a map too, ends the loop.
UnexportFails ==
  /\ phase = "unexport"
  /\ Fails("idle")
  /\ UNCHANGED <<kernel, mapped, cells, mirror, did>>

\* The process is killed, at any moment.
Kill ==
  /\ phase # "idle"
  /\ Fails("idle")
  /\ UNCHANGED <<kernel, mapped, cells, mirror, did>>

Next == \/ Start \/ StartUnmapped
        \/ ExportPin \/ ExportFails \/ OpenPin \/ OpenFails
        \/ Instruction \/ ProgramEnds
        \/ SkipOutput \/ DrivePin \/ DriveFails
        \/ SkipDirection \/ TurnPin \/ TurnFails \/ ReadPins
        \/ UnexportPin \/ UnexportFails
        \/ Kill
Spec == Init /\ [][Next]_vars

------------------------------------------------------------------------------
Running == phase \in {"program", "output", "direction", "read"}

\* Two runs never share a pin: while a program runs, the pins it drives are
\* the ones this run exported, all of them; a run that finds one taken, by a
\* run that was killed say, ends before its program starts (pi_gpio.c:70-90),
\* and so does every run after it: nothing gives the pin back.
OwnPins ==
  Running /\ mapped => exported = Pins /\ \A p \in Pins : did[p] # "nothing"

\* Nothing a program does leaves a pin exported: as long as no system call of
\* export, open or unexport fails and nobody kills a run, the pins are free
\* when it is over, however it ended, a refused write to a pin included
\* (display.c:129-170, run.c:66-79).
ProgramsCleanUp == phase = "idle" /\ ~ spoiled => exported = {}

\* When a poll is through, each pin this run has turned or driven is what the
\* direction byte says.  Of the others nothing can be said: the mirror starts
\* with garbage, and a bit that happens to agree turns no pin
\* (display.c:146-161).
DirectionsFollow ==
  phase = "program" /\ mapped =>
    \A p \in Pins : did[p] \in {"turned", "driven"} => (p \in outputs) = (p \in dirs)

\* When a poll is through, an output pin written since it was last turned is
\* at the level of its bit, and one turned since it was last written is low,
\* whatever its bit says: the order in which the two bytes are carried over,
\* and the mirror of the output byte, lose what was stored before the turn
\* (display.c:129-144).
OutputsFollow ==
  phase = "program" /\ mapped =>
    \A p \in outputs :
      /\ did[p] = "driven" => (p \in high) = (p \in out)
      /\ did[p] = "turned" => p \notin high
==============================================================================
