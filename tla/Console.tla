------------------------------- MODULE Console -------------------------------
(***************************************************************************)
(* run_io of display.c, which execute calls after every instruction: the   *)
(* screen window redrawn from the screen ROM, the keyboard, the pause and  *)
(* the single-stepper, the random cells.  And the user, who types at any   *)
(* moment into the input queue that getch reads.                           *)
(*                                                                         *)
(* The text window (the register dump of F1, cleared by F2) is output no   *)
(* property speaks of: of the dump only its switch is kept.                *)
(***************************************************************************)
EXTENDS MachineState

CONSTANTS
  MaxX, MaxY,   \* w->maxx and w->maxy
  KeyCodes,     \* the codes getch may return for what the user presses
  MaxTyped,     \* a bound of the model: the keys the user presses in a run
  RandomBytes,  \* the bytes rand may yield
  Garbage       \* the bytes malloc may leave in old_win

ASSUME ScreenAssumption ==
  MaxX \in Nat \ {0} /\ MaxY \in Nat \ {0} /\ MaxX * MaxY <= \h1800
ASSUME KeysAssumption == KeyCodes \subseteq Nat /\ MaxTyped \in Nat
ASSUME RandomAssumption == RandomBytes \subseteq Byte /\ Garbage \subseteq Byte

VARIABLES
  oldWin,   \* w->old_win, the bytes of the last scan
  shown,    \* the byte last given to mvwaddch for each place of the window
  keys,     \* the codes typed and not read yet
  typed,    \* how many were typed
  step,     \* w->step
  showReg   \* show_reg

consoleVars == <<oldWin, shown, keys, typed, step, showReg>>
screenVars  == <<oldWin, shown>>

\* ncurses codes.
KEY_F(n) == 264 + n
CtrlC    == 3
NoKey    == -1

\* The addresses run_io gives a meaning.
KeyCell    == \he000
RandomCell == \he004

Position == 0 .. ((MaxX * MaxY) - 1)
ScreenByte(i) == Peek(SCR_OFF + i)
Drawable(b) == b > 31

ConsoleTypeOK ==
  /\ oldWin \in [Position -> Byte]
  /\ shown \in [Position -> Byte]
  /\ keys \in Seq(KeyCodes)
  /\ typed \in 0 .. MaxTyped
  /\ step \in BOOLEAN
  /\ showReg \in BOOLEAN

\* The window is blank; old_win is what malloc returned.
ConsoleInit ==
  /\ oldWin \in [Position -> Garbage]
  /\ shown = [i \in Position |-> 32]
  /\ keys = <<>>
  /\ typed = 0
  /\ step = FALSE
  /\ showReg = FALSE

------------------------------------------------------------------------------
\* The user.
Type(k) ==
  /\ phase # "exit" /\ typed < MaxTyped
  /\ keys' = Append(keys, k)
  /\ typed' = typed + 1
  /\ UNCHANGED <<mem, cpuVars, phase, err, screenVars, step, showReg>>

\* Mutant of NextKey: the newest code of the queue.
NextKeyNewest == IF keys = <<>> THEN NoKey ELSE keys[Len(keys)]

\* getch: the oldest code of the queue, ERR when nodelay finds it empty.
NextKey == IF keys = <<>> THEN NoKey ELSE Head(keys)
TakeKey == keys' = IF keys = <<>> THEN keys ELSE Tail(keys)

\* Mutant of Scan: the last cell of the window is never reached.
ScanShort ==
  /\ oldWin' = [i \in Position |-> ScreenByte(i)]
  /\ shown' = [i \in Position |->
                 IF /\ i # (MaxX * MaxY) - 1
                    /\ ScreenByte(i) # oldWin[i] /\ Drawable(ScreenByte(i))
                 THEN ScreenByte(i) ELSE shown[i]]

\* Only a cell that changed since the last scan is drawn, and only if it
\* holds a printable byte (above 31; what curses makes of the char it becomes,
\* of 127 and of those that are negative, is not modelled).
Scan ==
  /\ oldWin' = [i \in Position |-> ScreenByte(i)]
  /\ shown' = [i \in Position |->
                 IF ScreenByte(i) # oldWin[i] /\ Drawable(ScreenByte(i))
                 THEN ScreenByte(i) ELSE shown[i]]

\* Past the keyboard, the stepper runs if it is on.
PastKeyboard(stepping) ==
  phase' = IF stepping THEN "stepping" ELSE "devices"

Poll(accepts) ==
  /\ phase = "io"
  /\ accepts
  /\ Scan /\ TakeKey
  /\ UNCHANGED <<cpuVars, typed>>

ToggleRegisters ==
  /\ Poll(NextKey = KEY_F(1))
  /\ showReg' = ~ showReg
  /\ PastKeyboard(step)
  /\ UNCHANGED <<mem, err, step>>

ClearText ==
  /\ Poll(NextKey = KEY_F(2))
  /\ PastKeyboard(step)
  /\ UNCHANGED <<mem, err, step, showReg>>

\* Mutant of BreakKey: the key is read and the program goes on.
BreakKeyIgnored ==
  /\ Poll(NextKey \in {KEY_F(3), CtrlC})
  /\ PastKeyboard(step)
  /\ UNCHANGED <<mem, err, step, showReg>>

BreakKey ==
  /\ Poll(NextKey \in {KEY_F(3), CtrlC})
  /\ phase' = "exit" /\ err' = -1
  /\ UNCHANGED <<mem, step, showReg>>

PauseKey ==
  /\ Poll(NextKey = KEY_F(4))
  /\ phase' = "paused"
  /\ UNCHANGED <<mem, err, step, showReg>>

\* Mutant of StepKey: the stepper starts with the next instruction.
StepKeyLate ==
  /\ Poll(NextKey = KEY_F(5))
  /\ step' = TRUE
  /\ PastKeyboard(step)
  /\ UNCHANGED <<mem, err, showReg>>

StepKey ==
  /\ Poll(NextKey = KEY_F(5))
  /\ step' = TRUE
  /\ PastKeyboard(TRUE)
  /\ UNCHANGED <<mem, err, showReg>>

\* Any other code: its low byte is the key, stored if it is below 0x80.  The
\* low byte of ERR is not.
Special == {KEY_F(n) : n \in 1 .. 5} \cup {CtrlC}
AsKey(ch) == U8(ch)

PlainKey ==
  /\ Poll(NextKey \notin Special)
  /\ mem' = IF AsKey(NextKey) <= \h7f
            THEN Poke(mem, KeyCell, AsKey(NextKey)) ELSE mem
  /\ PastKeyboard(step)
  /\ UNCHANGED <<err, step, showReg>>

\* The blocking getch of F4 takes any key.
Resume ==
  /\ phase = "paused" /\ keys # <<>>
  /\ TakeKey
  /\ PastKeyboard(step)
  /\ UNCHANGED <<mem, cpuVars, err, screenVars, typed, step, showReg>>

\* The stepper spins on getch until a key moves it: F5 lets one instruction
\* run, F4 and the printable codes let the program go on.
StepOn  == {KEY_F(5)}
StepOff == (32 .. 127) \cup {KEY_F(4)}

\* Mutant of Stepper: a key that does not move it is left in the queue.
StepperStuck ==
  /\ phase = "stepping" /\ keys # <<>>
  /\ keys' = IF Head(keys) \in StepOn \cup StepOff THEN Tail(keys) ELSE keys
  /\ step' = (Head(keys) \notin StepOff)
  /\ phase' = IF Head(keys) \in StepOn \cup StepOff THEN "devices" ELSE phase
  /\ UNCHANGED <<mem, cpuVars, err, screenVars, typed, showReg>>

Stepper ==
  /\ phase = "stepping" /\ keys # <<>>
  /\ TakeKey
  /\ step' = (Head(keys) \notin StepOff)
  /\ phase' = IF Head(keys) \in StepOn \cup StepOff THEN "devices" ELSE phase
  /\ UNCHANGED <<mem, cpuVars, err, screenVars, typed, showReg>>

\* Mutant of Devices: the word is stored one cell below.
DevicesBelow ==
  /\ phase = "devices"
  /\ \E low, high \in RandomBytes :
       mem' = Poke(Poke(mem, RandomCell - 1, low), RandomCell, high)
  /\ phase' = "exec"
  /\ UNCHANGED <<cpuVars, err, consoleVars>>

\* The random word, and the end of run_io.
Devices ==
  /\ phase = "devices"
  /\ \E low, high \in RandomBytes :
       mem' = Poke(Poke(mem, RandomCell, low), RandomCell + 1, high)
  /\ phase' = "exec"
  /\ UNCHANGED <<cpuVars, err, consoleVars>>

RunIo == \/ ToggleRegisters \/ ClearText \/ BreakKey \/ PauseKey \/ StepKey
         \/ PlainKey \/ Resume \/ Stepper \/ Devices

------------------------------------------------------------------------------
\* Between two instructions the window shows every printable byte of the
\* screen ROM, although it is redrawn from a difference with old_win, which
\* nobody initialised: the first scan finds the ROM cleared, and from then on
\* old_win is what was drawn (display.c:17-31, run.c:56, load.c:51-52).
ScreenFaithful ==
  phase # "io" =>
    \A i \in Position : Drawable(ScreenByte(i)) => shown[i] = ScreenByte(i)
==============================================================================
