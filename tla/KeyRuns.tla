------------------------------- MODULE KeyRuns -------------------------------
(***************************************************************************)
(* A user at the keyboard of a running program, with two histories kept    *)
(* beside the machine: the codes pressed, and how many instructions ran    *)
(* with the stepper on.                                                    *)
(***************************************************************************)
EXTENDS Machine, ProgramText
LOCAL INSTANCE FiniteSetsExt

CONSTANT Program   \* the program that runs; it does not store to KeyCell

VARIABLES pressed, stepRuns

keyVars == <<vars, pressed, stepRuns>>

KeyInit ==
  /\ Init
  /\ mem = Loaded(ImageOf(Program))
  /\ pressed = <<>>
  /\ stepRuns = 0

KeyTrace ==
  /\ pressed' = IF typed' # typed THEN Append(pressed, keys'[Len(keys')])
                                  ELSE pressed
  /\ stepRuns' = stepRuns + (IF phase = "exec" /\ phase' # "exec" /\ step
                             THEN 1 ELSE 0)

KeyNext == Next /\ KeyTrace
KeySpec == KeyInit /\ [][KeyNext]_keyVars /\ WF_vars(Emulator)

------------------------------------------------------------------------------
F1 == KEY_F(1)
F2 == KEY_F(2)
F3 == KEY_F(3)
F4 == KEY_F(4)
F5 == KEY_F(5)

Taken == SubSeq(pressed, 1, Len(pressed) - Len(keys))
Pressed(codes) == \E i \in DOMAIN pressed : pressed[i] \in codes

\* The codes a program is given: the characters but ^C, and whatever other
\* key has a code whose low byte is below 0x80.
Plain(k) == k \notin {CtrlC, F1, F2, F3, F4, F5} /\ k % 256 < 128

\* As long as the user neither pauses nor steps, the key cell holds the
\* latest plain key that run_io took from the queue, and the keys come in the
\* order they were pressed (display.c:34-73).
KeyLatch ==
  ~ Pressed({F4, F5}) =>
    LET plain == {i \in DOMAIN Taken : Plain(Taken[i])}
    IN  plain # {} => Peek(KeyCell) = Taken[Max(plain)] % 256

\* Every instruction that runs with the stepper on was let through by a key
\* of its own, after the one that turned the stepper on: no order of keys
\* makes it run ahead (display.c:64-67, 96-112).
StepPaced == stepRuns > 0 => stepRuns < Len(Taken)

\* What the user types is always read in the end, paused, stepping or not.
KeysDrain == keys # <<>> ~> keys = <<>> \/ phase = "exit"

\* F3 in the queue of a machine that runs, with no F4 or F5 before it, ends
\* the emulator (display.c:51-55, execute.c:1183-1187).
Free == phase \in {"exec", "io", "devices"} /\ ~ step
QuitHonoured ==
  (Free /\ \E i \in DOMAIN keys :
             keys[i] = F3 /\ \A j \in 1 .. i : keys[j] \notin {F4, F5})
    ~> (phase = "exit" /\ err = -1)

\* A printable key that reaches the key cell of a program that echoes it is
\* shown in the end, unless the next key replaces it or the user stops the
\* machine.
EchoShown ==
  \A k \in KeyCodes \cap (32 .. 127) :
    Peek(KeyCell) = k ~>
      \/ shown[1] = k
      \/ Peek(KeyCell) # k
      \/ phase \in {"paused", "stepping", "exit"}

\* "F3 - break (quit)" (README.md:212): pressing F3 quits.
QuitAlways == (\E i \in DOMAIN keys : keys[i] = F3) ~> phase = "exit"
=============================================================================
