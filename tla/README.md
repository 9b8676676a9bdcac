# TLA+ models of mikode

mikode is an assembler and an emulator for an invented computer: sixteen 8-bit
registers, a 64 KiB address space, an instruction set derived from the AVR's, a
character screen mapped into memory, a key cell, a random cell and, on two
boards, GPIO pins. The modules here model the program in `src/src` (below, a file
name without a directory is a file of `src/src`). TLC checks the models on small
instances; TLAPS proves some of what TLC checks for every value of the constants.

- [The system](#the-system): parts, state, operations, what is hard about them
- [The modules](#the-modules): what models what
- [The runs](#the-runs): what is checked, on which instances, and what was found
- [The proofs](#the-proofs)
- [What is not modelled](#what-is-not-modelled) and [the plan](#the-plan)

## The system

    source.asm --compile--> image file --load--> memory block
                 (parse.c)   (write.c)  (load.c)      |
                                                      v
                   keyboard --getch--> run_io <--> execute
                                     (display.c)  (execute.c)

Everything is one process. `main` either assembles or runs; the two halves meet
only in the image file. There are no threads. What runs concurrently is the
user, who types at any moment into the queue `getch` reads, and the program
being emulated, which shares memory with `run_io`: `execute` runs one
instruction, calls `run_io`, and so on until something ends it.

| Component | State | Operations | What makes it correct |
| --- | --- | --- | --- |
| processor (`execute.c`, `run_misc.c`) | `run_state`: `reg`, `sreg`, `ip`, `sp`; the block `*prog` | one handler per opcode, the flag helpers `check_*`, `inc_reg`/`dec_reg` | the flags one instruction leaves are those the next needs; control stays on instruction boundaries; nothing leaves its width |
| call stack (`run_misc.c:79-96`) | `sp` and the cells above it | `push_val`, `pop_val` | last in, first out; a return goes to its caller |
| instruction encoding (`opcode.c`, `operand.c`, `execute.c:894-1161`, `run_misc.c:67-77`) | the table of mnemonics; the mask chain | encode a line, dispatch an opcode, measure an instruction to skip | the two sides, which share no definition, agree |
| console (`display.c`) | the windows, `old_win`, `step`, the key queue | scan, poll, pause, step, random cells | the window shows the screen ROM; no key is lost or reordered; the emulator can be stopped |
| emulator loop (`execute.c:1163-1196`, `run.c`) | the above | alternate instruction and `run_io`; end | ends for the three reasons it should, with the right value |
| loader (`load.c`) | the block | read the image, clear the screen ROM | what runs is what was assembled; a refused file does not run |
| code writer (`write.c`) | the listing and the image file, which outlive the process | write each line at its address | the bytes `load` finds are those of the lines, of one program |
| assembler passes (`parse.c`, `directive.c`) | the lines, the equates, the current address | pass 1 assigns addresses, pass 2 patches labels | every reference becomes the address of its label; a file with a fault touches no file |
| operand parser (`operand.c`, `token.c`) | none | split a line, recognise registers and modes | text processing |
| data blocks (`misc.c`) | a growing array of byte blocks | `more_data`, append | no block is lost when the array grows |
| expressions (`expression.c`, `tinyexpr_bitw.c`) | the table of variables | evaluate | a fork of the library TinyExpr |
| GPIO (`pi_gpio.c`, `display.c:120-170`) | exported pins, their directions and levels, which outlive the process; the mirrors `old_rom` | export, carry 0xe100 and 0xe101 over, read 0xe102, unexport | pins follow the cells; every pin exported is released; no two runs share one |
| command line (`main.c`) | options | choose assemble or run | |

### Hard behaviours

Most are not of concurrency but of agreement between steps that are written far
apart:

- **Flags as a channel.** An operation on words is two instructions, and the flags
  are all the second knows of the first. An error shows only in some operand
  pairs, only with some history, several instructions later.
- **One fact in three places.** The length of an instruction is known to the
  assembler (`line.size`), to each handler (`ip += 4`) and to `check_32`, which
  only the skips ask. The opcode format is known to the table of the assembler and,
  independently, to a chain of masks of which the first match wins.
- **Shared memory.** `run_io` writes into the program's memory between any two of
  its instructions, and redraws the window from a difference with a buffer nobody
  initialised.
- **One queue, three readers.** The poll, the pause and the stepper all read the
  key queue, and treat the same code differently.
- **Ends of the address space.** `ip`, `sp` and the index registers wrap.
- **Failure.** The loader returns 0 also when it refuses a file; the assembler
  frees and returns 0 on every failure; `gpio_init` has four results and its caller
  looks for one.
- **What outlives the process.** The listing, the image and the exported pins are
  there when the next call of mikode starts, in the state the last one was killed
  in.
- **A table in use while it fills.** Pass 1 evaluates bit numbers with the names it
  has met so far, pass 2 evaluates operands with all of them, and the first of two
  entries with one name is the one found.

`PROJECT.json` lists each at its line with the properties that speak of it.

## The modules

    Word, Alu, Isa, StackPointer, MemoryMap --> MachineState
    MachineState --> Cpu, Console --> Machine --> ProgramRuns, KeyRuns
    Cpu, ProgramText --> WordPrograms
    Isa --> Encoding, ProgramText
    StackPointer --> PushPop                 --(implements)--> Lifo
    Isa --> Assembler, MemoryMap --> Toolchain --(implements)--> Listing
    Toolchain, Expression --> MCToolchain
    Gpio

    Alu, ProgramText --> InstructionProofs
    InstructionProofs --> EncodingProofs, with Encoding
    InstructionProofs --> MachineProofs, with ProgramRuns and KeyRuns
    InstructionProofs --> WordProofs, with WordPrograms
    Toolchain --> ToolchainProofs --> ListingProofs
    PushPop --> PushPopProofs,  Gpio --> GpioProofs

An arrow is EXTENDS, except for the two refinements. `MC*` modules give constants
their values; `*Proofs` modules hold theorems. Toolchain ends where Machine begins:
both take from MemoryMap what the block holds when `load` has read a file to its end.

**Word, Alu.** Bytes and words as integers, truncation as `% 256` and `% 65536`.
A bitwise operator on bytes is the set operation on the positions of the one
bits, so that no RECURSIVE operator is needed. `sreg` is the set of the flags that
are one. `CheckZsnf`, `CheckCv` and `CheckSubf` are the helpers of `run_misc.c:3-65`,
`AddBytes`, `SubBytes`, `ShiftRight`, ... the bodies the handlers share. They are
translated with their peculiarities: `check_subf` reads the old carry, the
comparisons use the overflow rule of the additions, the right shifts only ever
set V.

**Isa.** The instruction set as data: the operand types, the opcode of every
mnemonic (`opcode.c`), the operator that ors operands into it (`operand.c`), the
fields the handlers take out, and `Handler`, the chain of masks of `execute` in
its order. `TwoWords` is `check_32`.

**MachineState.** What `execute` and `run_io` share. The 64 KiB block is the
function of the cells written so far; a cell outside it holds zero in the screen
ROM and `Leftover` elsewhere, a constant that stands for what `malloc` returned.
`phase` is the place the loop of `execute` has reached; the C stack has no more
state than that, since `run_io` is the only call that waits.

**Cpu.** One action per handler, on the opcode fetched at `ip`; the whole handler
is one step, because nothing can come between its statements. A handler that
returns 1, and the last `else` of the chain, end `execute`.

**Console.** `run_io`. One action per outcome of its poll, each with the scan that
precedes it, then `Stepper`, which is one iteration of the loop at
`display.c:96-112`, then `Devices`. Waiting in a blocking `getch` is an action whose
guard is that the queue is not empty. `Type` is the user. The dump of the
registers in the text window is output only and is abstracted to its switch
`show_reg`; the sleep is left out.

**Machine** composes them: `Emulator == Execute \/ RunIo` is one process, the user
another.

**ProgramText, ProgramRuns, WordPrograms, KeyRuns** are Machine, or Cpu alone, with
programs loaded, and with history variables for the properties: `frames` (the
calls whose cells the pointer is still below, each with its return address and
whether its cells are as the call left them), `pressed`, `stepRuns`. Programs are written as lines
`<<mnemonic, operand, operand>>`; `ImageOf` gives them addresses and bytes as
`write_asm` does for lines of code at consecutive addresses. `WellFormed` says which
of them are whole: every line one that `get_operand` accepts, every label a line, and a
line after every line the emulator can go on from. `Disciplined` says what a whole program
must do while it runs for `OnBoundary` to hold: leave its code as it is, return only where
a call left the pointer and its cells, aim its indirect jumps and calls at lines.

**Encoding** picks a line, encodes it and looks at the word as `execute` and
`check_32` do. `MeantFor` and `Found` in Isa say what the line means: the handlers its mnemonic is
for, and the fields in which they find its operands.

**StackPointer, PushPop, Lifo.** The pointer arithmetic, the two functions on
memory, and the stack they promise. The test at `run_misc.c:92` assigns the
pointer the value it compares it with, so it has no effect and the pointer runs
through the whole address space; hence the capacity of `Lifo` is 0xffff, and a push
on the full stack empties it.

**Expression.** `get_expr` over the recursive-descent parser of `tinyexpr_bitw.c`, on
tokens: one operator for each function of the grammar, `Power` with the counting of
signs as it is written, `Apply` with C's `int`, `Lookup` with the first entry of the
table. Beside it `Written` and `MeaningOf`, a tree and its value, which say what an
operand means without any parsing. These are RECURSIVE operators, about
which nothing can be proved here: to Assembler the evaluator is a parameter `Value`, and
what an expression means a parameter `Meaning`. `EvaluatesAsMeant` says how the two
go together, on the tables the passes really have.

**Assembler.** `compile` over lines that are split into fields. `pass` is the loop it is
in and `at` the line: one action for each kind of line in pass 1 (`ReadOrg`,
`ReadEquate`, `ReadData`, `ReadCode`, ...), each with the address computation at the end
of the loop body (`Enter`), then `PutLabel`, then `NoPatch` or `Patch`. `Fatal` is the
label of that name. The array of `.db` blocks is `blocks` by index, with
`realloc_count` and the room there is; `GrowCrash` is the `realloc` of a pointer that
nothing has set.

**Listing.** What an assembler promises, stated on the whole file at once, with no pass,
no table and no history: `AddressOf`, `Values`, `BytesOf`, and `WellFormed`. Its only
steps are to accept a well-formed file with those addresses and bytes, to refuse
another, and to stop.

**Toolchain.** mikode called again and again: `Compile`, the passes, `WriteListing`,
`OpenImage`, one action for each line written, and one `Run*` action for each way `load`
can end. `CannotOpen`, `WriteShort`, `WriteFails` and `Kill` are the faults: a call that
fails at once, a write that comes out short, one that fails midway, and the
user. `write_listing` asks none of its `fprintf`s nor the `fclose` whether they worked, and
returns 0 (`write.c:26-48`): so `WriteListing` leaves any part of the lines (`Parts`),
on a full disk none, and a kill meanwhile leaves the old listing or any part of
the new one. A line that is not in the file from end to end counts as missing. The image
is a function of the bytes written, with a length, so that an `lseek` past the end leaves
holes and one backwards overwrites.

**Gpio.** The two cells a program writes, their mirrors and the kernel's sysfs pins, over
any number of runs. Every loop over the eight pins is walked pin by pin, with the failure of each
system call as an action beside it, so that a failure or a kill finds some pins
done and some not. `spoiled` and `did` are history. `StartUnmapped` is the run that
goes on after `gpio_init` returned -2 to -4: on a CHIP, a sysfs directory, a label or
the base that cannot be opened or read (`pi_gpio.c:203-263`). With no expander among the
labels the result is 0 and the pins are 0 to 7, which is `Start`. The operations of the kernel
(`Export`, `Unexport`, `Turn`, `Drive`) are external: a pin is exported once and found as
it is, one turned into an output is low, an input cannot be driven.

Deliberate abstractions: the terminal is a function from positions to the byte last
given to `mvwaddch` there, and how curses draws a byte of 127 or more, which
`display.c:26` casts to a `char` first, is left out;
`rand` is any byte of a set; the sleep between instructions, the text window's
contents and messages are left out. The handlers `lsl`, `sbr`, `ser` are never
reached by the chain, and nothing calls `clrf` and `setf`: they have no action.

## The runs

All take seconds except `word_programs`, `keyboard` and `encoding`, which take up to
a minute, and `toolchain`, which takes about two.

| Run | Instance | Properties |
| --- | --- | --- |
| `word_programs` | 19 x 19 words, 6 status registers, 7 programs | `WideAdd`, `WideCompare`, `WordImmediate`, `WideSubtractFromClear` |
| `encoding` | every mnemonic, all registers, bits, modes and 128 distances | `DecodesAsWritten`, `SkipsWholeLines`, `BranchesReachLabels` |
| `push_pop` | address space of 6 cells, 2 values | `TypeOK`, `ImplementsLifo` |
| `programs` | 6 programs | `TypeOK`, `OnBoundary`, `Outcomes`, `WholeAreDisciplined`, `ReturnsToCaller`, `DevicesKeepOut`, `Ends` |
| `keyboard` | an echo program, 9 keys, 3 presses at any moment | `ScreenFaithful`, `KeyLatch`, `StepPaced`, `KeysDrain`, `QuitHonoured`, `EchoShown` |
| `toolchain` | some 480 source files, 3 calls of mikode | `DataKept`, `OverlapOnlyByOrg`, `ImageHoldsListing`, `RunsOneProgram`, `ImplementsListing`, `RefusedLeavesFiles`, `EvaluatesAsMeant` |
| `gpio` | two pins, any number of runs | `TypeOK`, `OwnPins`, `ProgramsCleanUp`, `DirectionsFollow`, `OutputsFollow` |
| `wide_subtract`, `signed_compare`, `index_walk` | as `word_programs` | one violated property each |
| `quit_key` | as `keyboard` | `QuitAlways`, violated |
| `refused_image` | as `toolchain`, 3 files, 2 calls | `RefusedIsNotRun`, violated |

Why the bounds are enough:

- *word_programs.* A byte operation's flags depend on the signs, the carry out of
  bit 7 and whether the result is zero. The 19 words are those next to 0, 0x7f/0x80
  and 0xff/0x100 in the low and in the high byte, so every combination of these
  occurs in both bytes. The status registers vary C and Z, which the handlers read,
  and the flags they must overwrite. `run_io` touches none of this and is one step
  that does nothing. Constant 63 is the largest `AddImmWord` takes.
- *encoding.* Complete but for constants and addresses, which go through nibble by
  nibble: the values chosen differ in each.
- *push_pop.* Both ends of the pointer, an overflow and an underflow; that any
  size behaves the same is proved.
- *programs.* Each program is deterministic but for `malloc`'s leavings. Between
  them they run every handler, every mode of both index registers, on registers
  that are part of the pair too, calls in calls, a recursion with pushes between
  its calls, skips over long and short lines, and the three endings of `execute`
  (break, an opcode nobody takes, a `movw` that is refused). Three of them, with all the
control flow, are whole, and `WholeAreDisciplined` says that they keep the discipline:
the hypothesis of `LinesAreEntered` below is one that programs meet. The window has two
  cells and the user does not type: the keyboard has its own run.
- *keyboard.* Three presses allow stop-type-resume, step-step-continue, and a key
  that overtakes or replaces another. The keys are two letters, a control
  character that is not printable, an arrow key whose code ends in 3, like ^C, and
  F1 to F5. `Garbage` holds a byte the echo program can draw, so that a wrong first
  difference would show.

- *toolchain.* The files are every arrangement of two and of three lines out of
  seven (an `.org` as the third left out: it places nothing; code of both lengths, data of odd length, a branch forwards and back, `.org`
  to 0, downwards and to the last addresses), operands of one
  operator and of two, grouped either way, with a name that is an `.equ`, nine faulty operands, and a file for each
  limit: branches of -64 and 63 and one more, constants of 63 and 64, the last
  addresses, the borders of the screen ROM, names defined twice, names that agree in
  ten characters. `DATA_ALLOC` is 2 instead of 20, so that four blocks grow the array twice.
  The first compilation takes any of them (`Sources`). After one of the limits a later one
  takes one of three (`Edits`: code, data at an address, a fault), because what matters then
  is where the bytes of two programs lie; the arrangements and the operands, of which there
  are hundreds, are compiled once and then run. `MaxCommands` is 3: compile, compile again,
  run; a longer history adds nothing, for each compilation that gets as far as the image
  empties it first.
- *gpio.* Two pins instead of eight: one that a loop has passed and one it has yet to
  reach. The cells change to any value before each poll, and the mirrors start with any.
  That more pins behave the same is proved.

**Fairness.** For the emulator `WF_vars(Emulator)` and nothing else. The loop of `execute` waits only in
`getch`; when a key is there, or the phase does not wait, its next step is
enabled and stays so, since the user only appends to the queue. The user owes
nothing: no property assumes that a key is ever pressed. `Ends`, `KeysDrain`,
`QuitHonoured` and `EchoShown` are checked under it. Toolchain and Gpio state none: the
user need not call mikode again, a call may be killed at every step, and their
properties are all of safety.

**Deadlock** is checked in `push_pop` and `gpio`. The other runs may stop: `toolchain` when
the calls are used up, the machine in "exit", or in a pause when the user has typed all he will; `Ends`, `KeysDrain` and
`QuitHonoured` say when it must not stop.

### Findings

Five runs show the program doing other than its own texts say:

1. `wide_subtract`. `Subtract`, described as "subtract without carry"
   (`opcode.c:199`), lets a carry left over from earlier into its borrow
   (`run_misc.c:60`), so the high byte of a difference of words is off by one.
   `WideSubtractFromClear` shows that this is the only thing wrong with it.
2. `signed_compare`. `Compare` uses the overflow rule of an addition
   (`execute.c:269`); `BranchGrEqu`, "branch if greater or equal" (`opcode.c:46`),
   is taken after comparing 0 with 1.
3. `index_walk`. `dec_reg` borrows when the low byte becomes zero instead of when it
   was (`run_misc.c:109`): `X+` followed by `-X` does not give back X. The cell
   accessed is right; the register is not.
4. `quit_key`. F3 ("break (quit)", `README.md:212`) is swallowed while paused or
   in the stepper.
5. `refused_image`. A file without the header is answered with "incorrect file
   format, aborted..." (`load.c:29`), and `load` then returns 0 (`load.c:56`): `run_main` goes on to
   execute what `malloc` left. So does it with a file that is too large, or that could
   not be read to its end, with the part it read.

Seen while modelling and left without a run of their own: `swap` moves the low
nibble up and ors the old high nibble into the same place, so that the low half
of the result is always zero (`execute.c:883-891`), where `opcode.c:203` says "swap
nibbles" (`Swapped` in Alu follows the code); the shifts set V and never clear it, where the comment says V = N ^ C
(`execute.c:497-499`); the README puts the stack at 0xf000-0xffff, but nothing stops
it there; it promises random cells at 0xe004-0xe007, of which two are written
(`display.c:116-117`); a byte of 31 or less in the screen ROM never erases the
character before it, hence the word "printable" in `ScreenFaithful`. `.org 0` has no effect
after the first line (`parse.c:214`; `IsOrg` in Listing makes it the rule); an `.equ` keeps
eight bits of its value (`directive.c:31`) and a name ten characters; `compile` reports
"success!" when a write of the image failed or came out short (`write.c:111`), which is why
`RunsOneProgram` promises the whole program only of an image that is `complete`; it reports
success, too, when the listing lacks lines or is empty, and since `write_asm` empties the old image
(`write.c:68`), which makes room on a full disk, the image beside such a listing can be
complete: so `ImageHoldsListing` says of the lines that are there that they are the image's, and of the
bytes that the listing has them all when it has all lines; `--x` is x,
but `~~x` is `~x` (`tinyexpr_bitw.c:674`). A GPIO bit stored before its direction is lost: the output
byte is carried over first, the pin refuses it or is skipped, and the mirror takes it
for done (`display.c:129-144`; `OutputsFollow` says what remains true).

## The proofs

`tlapm` checks every proof to its last leaf; together they take a few minutes.

| Theorem | Module | Says |
| --- | --- | --- |
| `PushPopTypeOK` | PushPopProofs | `Spec => []TypeOK` |
| `PushPopImplementsLifo` | PushPopProofs | `Spec => L!Spec`: the refinement |
| `MachineIsTyped` | MachineProofs | `Spec => []TypeOK` for the whole emulator |
| `CallsReturn` | MachineProofs | `TraceSpec => ReturnsToCaller` |
| `DevicesAreKeptOut` | MachineProofs | `TraceSpec => DevicesKeepOut` |
| `LinesAreEntered` | MachineProofs | `TraceSpec /\ []Disciplined => []OnBoundary` |
| `OpcodesDecode`, `SkipsPassLines`, `BranchesArrive` | EncodingProofs | `Spec => []P` for the three invariants of Encoding |
| `WordsAdd`, `WordsCompare` | WordProofs | `Spec => []WideAdd`, `Spec => []WideCompare` |
| `WordsSubtract`, `PairsCompute` | WordProofs | `Spec => []WideSubtractFromClear`, `Spec => []WordImmediate` |
| `ScreenIsFaithful` | MachineProofs | `Spec => []ScreenFaithful` |
| `StepsArePaced` | MachineProofs | `KeySpec => []StepPaced` |
| `KeysAreLatched` | MachineProofs | `KeySpec /\ [][KeyCellKept]_keyVars => []KeyLatch` |
| `LinesFollow`, `DataIsKept` | ToolchainProofs | `Spec => []OverlapOnlyByOrg`, `Spec => []DataKept` |
| `ImageIsListing`, `OneProgramRuns` | ToolchainProofs | `Spec => []ImageHoldsListing`, `Spec => []RunsOneProgram` |
| `PassesImplementListing` | ListingProofs | `Spec /\ EvaluatesAsMeant => ImplementsListing`: the refinement |
| `RefusedCostsNothing` | ListingProofs | `Spec /\ EvaluatesAsMeant => RefusedLeavesFiles` |
| `GpioIsTyped`, `PinsAreOwned`, `ProgramsDoCleanUp`, `DirectionsDoFollow`, `OutputsDoFollow` | GpioProofs | `Spec => []P` for the five invariants of Gpio |

**Assumptions**: those of the modules and no others. `Top` is a positive number; `Leftover`
is a byte for every cell; an image is bytes at addresses; the window has at least one
cell and fits into the screen ROM (0x1800 cells; the code creates it 128 by 40);
key codes are natural numbers; `rand` and `malloc` yield bytes. Neither the
program, nor the keys, nor the size of the window is bounded. For WordPrograms: the operands are
words, and the constant has the six bits `WordK` takes from the opcode; pass 2 refuses any
other (`parse.c:316`). For Encoding: the immediate operands are bytes, the addresses words and
the distances those pass 2 lets through (`parse.c:281-316`). For ProgramRuns: a program has at
least one line. For Gpio: `NPins` is a positive number.
For Toolchain: a source file has at least one line, an `.org` an address and a `.db` line
bytes (`SourcesAssumption`); a line of code has an operand if and only if its type is one that
pass 2 patches, and its opcode, its register and the most that its type lets the bit and the operand add
(`Spare`) stay below `NOCODE` (`CodeAssumption`; true of every line the table of
mnemonics can make); `DATA_ALLOC` is a positive number. Neither the files, nor their number,
nor the number of calls is bounded.

**Hypotheses.** Three theorems need more than the specification, because the property is
false of some programs or some evaluators. `KeyCellKept`: the emulated program does not
store into the key cell, which any program may. `EvaluatesAsMeant`: `get_expr` finds in the table of
the moment what the expression means. It is an action property that the run `toolchain` checks with the
evaluator as it is written; it cannot be proved here, since the evaluator is recursive.
`Disciplined`: a program can store an opcode over its own code, or push any address and return to
it, and no property of the emulator keeps it on its lines then; `Overwrite` is such a program.

**The stack.** `PointerSteps` reduces the modular arithmetic to its cases. The
refinement maps the stack to the cells above the pointer, oldest at the top of memory.
`PushExtends` and `PopShortens` say what a push and a pop do to that sequence away
from the ends; at the ends, a push is the overflow and a pop the underflow.

**Types of the emulator.** `TypeOK` is inductive. `InstructionProofs` shows that each operation
of Alu returns a byte and a set of flags; `MachineProofs` has the memory (`PeekIsByte`,
`PokeIsMemory`), the addresses (`FetchIsAddr`, `SkipIsAddr`, `BranchIsAddr`,
`PointerIsAddr`), the fields of an opcode, one lemma for each way an instruction
ends, and then the handlers in six groups, one step per handler. It is worth
proving because it is about every opcode, the 65536 of them in any order, where
TLC sees six programs: no opcode word, however made, indexes a register that does
not exist, and no address arithmetic leaves 16 bits.

**The words.** What two byte instructions in a row leave is proved from the bytes up. `AddFlags`, `SubtractFlags` and
`CompareFlags` turn each flag of a byte operation into a comparison of numbers;
`SignedSum` and `SignedDifference` say that the overflow and the sign of a
16-bit result show in the high bytes, and `AddTwice`, `SubtractTwice` and `CompareTwice` chain
two operations by the carry. `CodeLies` finds the words of the program in memory, so that
`WideCode` gives those at addresses 0, 2 and 4, and `Dispatch` the
handler each of them has (`DispatchImmediate` for every constant). The properties speak of the end only; `WideInv` and `ImmediateInv` say
what is in the registers and in sreg at each address, which is inductive. The
hypothesis that the carry is clear enters `SubtractTwice` at one place, the borrow of the low
byte: it is where `check_subf` adds the old carry to an operand `sub` did not take it from.

**The opcodes.** `execute` is a chain of 57 masks of which the first match wins; the
assembler ors operands into a table that knows nothing of it. The proof is by the
four hexadecimal digits of the opcode: `Masks` and `FieldsOf` say what a mask and an
operand field make of the digits, `HandlerIs` which handler is the first match, digits given. Then
there is one lemma for each type of operand, with one case for every
mnemonic of it (`OneRegister` to `BitBranches`), and `LineIsRead` puts the sixteen together: the handler is one
`MeantFor` names, `Found` holds, `check_32` agrees with `line.size`, and the word is not `NOCODE`.
The branches need most: their seven bits lie across three digits, and the
distance comes back from them with its sign. The invariant of Encoding, `AsAssembled`, then only says
that the word is that of the line.

**Line by line.** `OnBoundary` is where the two sides meet memory. That a program's image
holds each line at the address pass 1 gave it is an induction over the lines, with the
fold that joins their bytes (`JoinedIs`, `ImageHolds`); the induction is over a set of
numbers, which needs no operator as a parameter (`NatInductionOnSets`). `LineFound` turns it into
words at addresses as long as the code is intact. `ExecuteGoes` says where each handler can take
`ip`; `HandlerTells` and `LineTells` translate between the handler that runs and the mnemonic of the
line, in both directions: a handler that takes four bytes runs on a line of
four bytes only, and one that goes on to the next line runs on a line that has one.
`SkipLands` is the case the two sides could disagree on: it needs that `check_32` sees two words in
the next line exactly when that line has them. `Landing` is inductive: past the next instruction,
it says of every frame that its return address is a line, which `ReturnGoesBack` hands to
`ret`.

**The screen.** `ScreenFaithful` is not inductive: it says nothing of `old_win`, on
which the next scan depends. And "what is in `old_win` was drawn" is false at the
start, when `old_win` is what `malloc` returned. The invariant has three stages:
`Untouched` (before the first instruction: registers zero, stack at the top, no
printable byte in the ROM), `Unscanned` (one instruction has run, the ROM still has
none) and `Drawn` (`old_win` was drawn, and past the scan equals the ROM). The step that carries
the argument is `FirstInstruction`: the one instruction that runs before the first
scan can store only zeros, or at 0xffff and 0xfffe. So the buffer that nobody
clears is harmless, for every program; it would not be if `execute` started with
other registers, or called `run_io` after the second instruction.

**Calls.** `ReturnsToCaller` needs to know what is in the two cells of a call, and
`FramesInv` says it: as long as nothing wrote to them, the halves of the return address. It
is kept because a frame dies when the pointer climbs past its cells, and loses its
`intact` when a step changes one of them. `WordBytes` puts the address together again.
Frames are a set and not a stack, so the theorem covers programs that move the
pointer through frames in any order. A call at the very bottom of the address space,
whose two cells would wrap, has no pointer two below it.
`DevicesKeepOut` is about `run_io` alone, and is proved by its actions.

**The keys.** Both theorems rest on `QueueInv`: what is in the queue is the end of what was
pressed, so the key that is taken is the next of the history. `StepPaced`
is not inductive, for the count goes up when an instruction ends: `PaceInv` counts
one key more while an instruction is on its way. `LatchInv` knows, as long as the user presses neither F4 nor F5, that
the emulator is in neither of the two loops that read keys and drop them; the
greatest index of a plain key, which `KeyLatch` takes with `Max`, is found by induction (`GreatestIsMax`).

**The files.** `Inv` of ToolchainProofs has a part for every hand-over. `LinesInv` is the shape
of the lines in each pass, `OverlapOnlyByOrg` is inductive beside it. `BlocksInv` says
of the `.db` blocks that the index a line holds is that of its own bytes and that the next one
is inside the array, `BytesKept` that they are still there in pass 2. `ImageInv` is about
the loop of the writer: every byte of the file is of a row, of those the compilation that opened
the file made, that the writer is past; and if no write failed, the rows it is past
are all there, the last one to cover an address having the last word, holes where `lseek`
left them. It holds across calls, whatever happens to the later ones, and `RunInv` ties what is
loaded to it, and the listing, of which it knows that it is a part of the rows and
never a row of something else. The step of a row is a case distinction on which of the rows is the last
to cover an address.

**The passes.** `PassesImplementListing` is the theorem the assembler half is about: two
passes over a table that fills as they go find what Listing determines at once. `Meant` is
inductive, given `Inv`. It says, line by line, how far the line is: `Placed` and `Begun`
(address, length and opcode without its operand), then `Finished`; and what the table is, read by its
first entries: the `.equ` names before `at` in pass 1, those and the labels before `at`
in the loop over the labels, all values of the listing in pass 2. Three arguments carry it.
A name that enters a table changes what is found only if it was not there (`First`, with the
two orders of definition Listing distinguishes). A line's address is a sum over the lines
since the last `.org`, which Listing takes with a fold over a set; since the order a fold takes is
not known, `Cells` counts the sum instead, as the number of pairs of a line and a number
below its length, so that a line more adds its length by the cardinality of a disjoint union
(`ExtentGrows`). And what a patch adds to the opcode is `OperandAdds` exactly when
the operand is admissible (`PatchIs`, `WordFits`). The refinement maps `pass` to a verdict; every step
of a pass is a stutter until the last, which is where a fault, or its absence, is
known of the whole file.

**The pins.** None of Gpio's invariants is inductive; `Inv` is, and has five parts.
`Taking` is what a run knows of its pins on the way: in the loop that exports, the pins
before `i`; once it has begun, all. It is also what the type invariant needs: a pin can
be made an output only if it is exported. `Unspoiled` says exactly which pins are
exported in every phase as long as nothing failed, and that is an equality: `gpio_unexp`
gives back what `gpio_init` took, in the same order. `MirrorsFollow` says that a mirror is
the cell once its loop is through. `DirectionOf(p)` and `LevelOf(p)` follow one pin
through both loops, before and after its own turn. The case that makes the order of the
loops matter is in `LevelOf`: after the loop over the output byte a pin may be at the
wrong level, but then its new direction is input and its old one output, so the
second loop turns it and its level is forgotten. Each part is kept by every action on
its own (`TypeKept` to `LevelKept`, one step per action); TLC checked `Inv` first, as an
invariant and as an initial state.

**Only model-checked.** Liveness and whatever needs ENABLED (`Ends`, `KeysDrain`,
`QuitHonoured`, `EchoShown`), which are out of the prover's reach. What the recursive
operators of Expression compute, hence `EvaluatesAsMeant`. `Outcomes` and
`WholeAreDisciplined`, which are about the programs of one run. The violated
properties of the five findings have nothing to prove.

## What is not modelled

- The text of a line. A line of Assembler is split into its fields, an operand into
  tokens: how numbers, names, registers and modes are spelled, `token.c`, and the
  search for a mnemonic are string processing. With it go what the
  program does only to some texts: a `.db` item that names an `.equ`, a number right after the comma of
  `LoadDirect`, an operand longer than its ten-character buffer, a file whose last line
  has no newline. `.def`, which renames a register, is a line without effect.
- Of the expressions: division by zero and shifts by 32 bits or more, undefined in
  C; the comma, which the operand never contains; runs of signs other than the
  evaluator's own reading of them; the tree of nodes, which is built, evaluated once and freed.
- GPIO without `--gpio`, where `gpio_rom` is not initialised; the byte the input
  pins yield, which is the kernel's affair; the walk through `/sys` that finds the
  pins of a CHIP.
- That the free of the lines never read, after a fault in pass 1, may end the
  process: it has reported the fault and touches no file.
- The contents of the register dump, the messages, the sleep.
- `getopt`, the printout after the run, and the listing's layout (its addresses and
  bytes are modelled, line by line; the halves of lines that a lost write leaves at
  the edges of a gap, and could join to one, are not).
- That the block has 65535 bytes, so that the cell 0xffff, where the first push
  goes, is past its end: the model gives every address a cell.

## The plan

In this order; the first four items were built first because every other
property of the system rests on the processor.

1. *(done)* Word, Alu, Isa, MachineState, Cpu: the processor, WordPrograms, Encoding.
2. *(done)* StackPointer, PushPop, Lifo: the stack and its abstract specification.
3. *(done)* Console, Machine, KeyRuns, ProgramRuns: the emulator.
4. *(done)* PushPopProofs, InstructionProofs, MachineProofs with the screen.
5. *(done)* Expression, Assembler, Listing: the passes and what they promise.
6. *(done)* MemoryMap, Toolchain: the files, the writer and the loader, with failures.
7. *(done)* Gpio, GpioProofs.
8. *(done)* ToolchainProofs and ListingProofs: the lines, the blocks, the image, what
   runs, and the refinement of Listing; calls, devices and keys in MachineProofs;
   WordProofs: the flag arithmetic, for all words.
9. *(done)* EncodingProofs: the agreement of the two sides on every opcode; in MachineProofs,
   that a program is executed line by line.
10. Left: to join the two halves in one theorem, from the rows of Listing to the lines
    ProgramRuns executes. It needs images with data and `.org` in ProgramText; for lines of code one
    after the other, `ImageHolds` and `ImageIsListing` are its two ends.
