------------------------------ MODULE Toolchain ------------------------------
(***************************************************************************)
(* mikode as its user calls it, again and again: to compile a source file, *)
(* whose lines go through Assembler, write_listing and write_asm, and to   *)
(* run what lies in the image file, through load.  The two files outlive   *)
(* the process, which may be killed at any step of a compilation, and      *)
(* whose reads and writes may fail.  What happens after load is Machine.   *)
(***************************************************************************)
EXTENDS Assembler, MemoryMap, FiniteSetsExt, SequencesExt

CONSTANTS
  Meaning(_, _),  \* what Value is to yield: an expression over named values
  Edits(_),     \* a bound of the model: what a file is edited to, to be compiled
  MaxCommands   \* a bound of the model: how often mikode is called

ASSUME CommandsAssumption == MaxCommands \in Nat

VARIABLES
  listing,   \* the listing file: address and bytes of each line it still shows
  image,     \* the image file
  commands,  \* how often mikode was called
  run,       \* what became of the last run_main
  memory     \* the block load leaves, for run

toolVars == <<listing, image, commands, run, memory>>
vars     == <<asmVars, toolVars>>

\* The image file: of the 8 bytes of the header how many were written, the
\* bytes after it by address, and its length.  A byte below the length that
\* nothing wrote is a hole, which reads as zero.  rows and complete are there
\* for the properties: the lines as write_asm writes them, and whether it wrote
\* all of them whole.  A file that does not exist is as good as an empty one.
HOFF == 8
Empty == [head |-> 0, byte |-> <<>>, len |-> 0, rows |-> <<>>, complete |-> FALSE]

\* The block: likewise, and whether the screen ROM was cleared.  A cell from
\* len on holds what malloc left there.
NoBlock == [byte |-> <<>>, len |-> 0, cleared |-> FALSE]

\* "unwritten": compile failed on one of its files.  "killed": by the user.
Writing == {"listing", "open", "image"}
Resting == {"idle", "refused", "crashed", "unwritten", "killed", "success"}

Init ==
  /\ AsmInit
  /\ listing = <<>> /\ image = Empty
  /\ commands = 0 /\ run = "no" /\ memory = NoBlock

Call ==
  /\ pass \in Resting /\ commands < MaxCommands
  /\ commands' = commands + 1

KeepRun == UNCHANGED <<commands, run, memory>>

Compile(s) ==
  /\ Call
  /\ Begin(s)
  /\ run' = "no" /\ memory' = NoBlock
  /\ UNCHANGED <<listing, image>>

\* What write_listing may leave: it asks neither fprintf nor fclose whether the
\* disk took what they wrote, and stdio drops the part that failed and goes on,
\* so any of the lines may be missing.  One that is not whole counts as missing.
Parts(rows) == {Restrict(rows, kept) : kept \in SUBSET DOMAIN rows}

\* A kill, or the crash of ReadData, takes the buffers with it; the files stay,
\* the listing as it was before the fopen or with some of its lines.
Kill ==
  /\ pass \in Passing \cup Writing
  /\ pass' = "killed"
  /\ listing' \in {listing} \cup IF pass = "listing" THEN Parts(Rows) ELSE {}
  /\ UNCHANGED <<source, at, lines, tableVars, image>> /\ KeepRun

------------------------------------------------------------------------------
\* The writer keeps the lines as they are.
Goes(to) == pass' = to /\ UNCHANGED <<source, lines, tableVars>>

\* A file that cannot be opened, or an lseek that fails, is fatal to compile.
CannotOpen ==
  /\ pass \in Writing
  /\ Goes("unwritten")
  /\ UNCHANGED <<at, toolVars>>

\* write_listing starts over, and returns 0 whatever became of its lines.
WriteListing ==
  /\ pass = "listing"
  /\ listing' \in Parts(Rows)
  /\ Goes("open")
  /\ UNCHANGED <<at, image>> /\ KeepRun

\* Mutant of OpenImage: the file is opened without O_TRUNC.
OpenImageKept ==
  /\ pass = "open"
  /\ \E n \in {0, HOFF - 1, HOFF} :
       /\ image' = [image EXCEPT !.head = n, !.rows = Rows, !.complete = FALSE]
       /\ Goes(IF n = HOFF THEN "image" ELSE "success")
  /\ UNCHANGED <<at, listing>> /\ KeepRun

\* write_asm starts over with a header; one that comes out short ends it,
\* with the 0 that compile takes for success.
OpenImage ==
  /\ pass = "open"
  /\ \E n \in {0, HOFF - 1, HOFF} :
       /\ image' = [Empty EXCEPT !.head = n, !.rows = Rows]
       /\ Goes(IF n = HOFF THEN "image" ELSE "success")
  /\ UNCHANGED <<at, listing>> /\ KeepRun

\* Mutant of Put: the bytes go to the end of the file, not to their address.
PutNext(file, row, n) ==
  [file EXCEPT
     !.byte = [a \in DOMAIN @ \cup (file.len .. (file.len + n - 1)) |->
                 IF a >= file.len THEN row.bytes[(a - file.len) + 1] ELSE @[a]],
     !.len = @ + n]

\* lseek to the address, then n bytes.
Put(file, row, n) ==
  LET place == row.address .. (row.address + n - 1)
  IN  [file EXCEPT
         !.byte = [a \in DOMAIN @ \cup place |->
                     IF a \in place THEN row.bytes[(a - row.address) + 1] ELSE @[a]],
         !.len = IF n = 0 THEN @ ELSE Max({@, row.address + n})]

WriteLine ==
  /\ pass = "image"
  /\ LET row == image.rows[at]
     IN  image' = [Put(image, row, Len(row.bytes)) EXCEPT
                     !.complete = (at = Len(source) /\ image.rows = Rows)]
  /\ Advance("success")
  /\ UNCHANGED <<source, lines, tableVars, listing>> /\ KeepRun

\* Only a negative result of write counts: when the disk has room for half a
\* word, the other half is missing and write_asm goes on.
WriteShort ==
  /\ pass = "image" /\ source[at].form = "code"
  /\ \E p \in {2, 4} \cap DOMAIN image.rows[at].bytes :
       LET row == [image.rows[at] EXCEPT !.bytes = RemoveAt(@, p)]
       IN  image' = [Put(image, row, Len(row.bytes)) EXCEPT !.rows[at] = row]
  /\ Advance("success")
  /\ UNCHANGED <<source, lines, tableVars, listing>> /\ KeepRun

\* A write that fails, after some of the bytes, ends write_asm, and compile
\* says "success!" all the same.
WriteFails ==
  /\ pass = "image"
  /\ LET row == image.rows[at]
     IN  \E n \in 0 .. (Len(row.bytes) - 1) : image' = Put(image, row, n)
  /\ Goes("success")
  /\ UNCHANGED <<at, listing>> /\ KeepRun

------------------------------------------------------------------------------
\* The block after load has read a file to its end.
Held(file) == [byte |-> Loaded(file.byte), len |-> file.len, cleared |-> TRUE]

\* The block after load has read n bytes and gone to its label fatal.
Partial(file, n) ==
  [byte |-> [a \in {b \in DOMAIN file.byte : b < n} |-> file.byte[a]],
   len |-> n, cleared |-> FALSE]

Ends(outcome, block) ==
  /\ run' = outcome /\ memory' = block
  /\ UNCHANGED <<asmVars, listing, image>>

\* A file that is not there or shorter than a header is the only failure
\* run_main hears of.
RunNothing ==
  /\ Call /\ image.head < HOFF
  /\ Ends("failed", NoBlock)

RunImage ==
  /\ Call /\ image.head = HOFF /\ image.len <= \hffff
  /\ Ends("loaded", Held(image))

\* load returns 0 also for a file without the header, such as the source, for
\* one that is too large, and for one it could not read to its end, whose
\* stream it closes twice; run goes on with the block.
RunSource ==
  /\ Call /\ source # <<>>
  /\ Ends("refused", NoBlock)
RunLarge ==
  /\ Call /\ image.head = HOFF /\ image.len > \hffff
  /\ Ends("refused", Partial(image, \hffff + 1))
RunUnread ==
  /\ Call /\ image.head = HOFF /\ image.len > 0
  /\ \E n \in {0, image.len - 1} :
       \/ Ends("refused", Partial(image, n))
       \/ Ends("died", NoBlock)

Run == RunNothing \/ RunImage \/ RunSource \/ RunLarge \/ RunUnread

Next == \/ \E s \in IF commands = 0 THEN Sources ELSE Edits(source) \cap Sources :
             Compile(s)
        \/ Passes /\ UNCHANGED toolVars
        \/ WriteListing \/ OpenImage \/ WriteLine
        \/ Kill \/ CannotOpen \/ WriteShort \/ WriteFails
        \/ Run
Spec == Init /\ [][Next]_vars

------------------------------------------------------------------------------
\* Where the lines of a program put their bytes: the last line that covers
\* an address has it.
Covers(row, a) == a >= row.address /\ a < row.address + Len(row.bytes)
ByteOf(row, a) == row.bytes[(a - row.address) + 1]
Expected(rows) ==
  LET place(i) == rows[i].address .. (rows[i].address + Len(rows[i].bytes) - 1)
      last(a)  == Max({i \in DOMAIN rows : Covers(rows[i], a)})
  IN  [a \in UNION {place(i) : i \in DOMAIN rows} |-> ByteOf(rows[last(a)], a)]

\* The two passes find, line by line and with a table that fills as they go,
\* what the whole file determines at once: the address of each line, the
\* value of each name and the bytes of each instruction, or that there is a
\* fault (parse.c:193-327, directive.c:4-104, expression.c:36-98).
Verdict ==
  CASE pass \in {"idle"} \cup Passing -> "none"
    [] pass = "refused" -> "refused"
    [] pass \in {"crashed", "killed"} -> "stopped"
    [] OTHER -> "accepted"
L == INSTANCE Listing WITH
       verdict <- Verdict, rows <- IF Verdict = "accepted" THEN Rows ELSE <<>>
ImplementsListing == L!Spec

\* get_expr finds in the table of the moment what an expression means: a bit
\* with the names before its line, an operand with all of them, each by the
\* first entry of its name (expression.c:36-98, tinyexpr_bitw.c:281-297).
First(table) ==
  LET keys == {table[i].key : i \in DOMAIN table}
      least(n) == CHOOSE i \in DOMAIN table :
                    /\ table[i].key = n
                    /\ \A j \in DOMAIN table : table[j].key = n => i <= j
  IN  [n \in keys |-> table[least(n)].val]
Agrees ==
  LET agrees(e) == /\ Value(e, equates) = Meaning(e, First(equates))
                   /\ Value(e, equates) \in Addr \cup {NoValue}
  IN  /\ pass = "pass1" /\ L!Bit(Line) # NoExpr => agrees(Line.bit)
      /\ pass = "pass2" /\ L!Operand(Line) # NoExpr => agrees(Line.operand)
EvaluatesAsMeant == [][Agrees]_vars

\* A file that is refused costs its user nothing: only a well-formed source
\* ever replaces the listing or the image (parse.c:329-341).
RefusedLeavesFiles ==
  [][listing' # listing \/ image' # image => L!WellFormed(source)]_vars

\* Once every line is written the image holds, at each address, the byte the
\* last line there has, whatever order the addresses came in and however far
\* lseek went past the end; and the listing, though it may lack lines, shows
\* none that is not the image's, so that one that has them all shows every byte
\* of the image (write.c:7-134).
ImageHoldsListing ==
  pass = "success" /\ image.complete =>
    /\ image.byte = Expected(image.rows)
    /\ image.len = Max({0} \cup {a + 1 : a \in DOMAIN image.byte})
    /\ IsRestriction(listing, image.rows)
    /\ DOMAIN listing = DOMAIN image.rows => image.byte = Expected(listing)

\* What load accepts is one program, never a mixture of two: each byte comes
\* from a line of the compilation that opened the file last, and if that one
\* was neither killed nor failed the block is the whole of it, with the screen
\* ROM cleared (write.c:68, load.c:33-52).
RunsOneProgram ==
  run = "loaded" =>
    /\ \A a \in DOMAIN memory.byte :
         \E i \in DOMAIN image.rows :
           /\ Covers(image.rows[i], a)
           /\ memory.byte[a] = ByteOf(image.rows[i], a)
    /\ memory.cleared
    /\ image.complete => memory.byte = Loaded(Expected(image.rows))

\* Whatever is called, and whichever call fails, load has the last word on
\* what is executed: a file it refuses is not run (load.c:27-31).
RefusedIsNotRun == run # "refused"
==============================================================================
