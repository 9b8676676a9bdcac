---------------------------- MODULE StackPointer ----------------------------
(***************************************************************************)
(* The stack pointer arithmetic of push_val and pop_val in run_misc.c.     *)
(* The stack grows down from top, the largest value the pointer can hold,  *)
(* and the pointer names the cell the next push writes.                    *)
(***************************************************************************)
EXTENDS Integers

\* Mutant of AfterPop: the pointer runs over the top.
AfterPopOver(p, top) == (p + 1) % (top + 1)

\* ++sp, held at top: popping at the top rereads the top cell.
AfterPop(p, top) ==
  LET up == (p + 1) % (top + 1)
  IN  IF up = 0 THEN top ELSE up

\* Mutant of AfterPush: no wrap below the first cell.
AfterPushBelow(p, top) == p - 1

\* --sp.  The test the code makes here assigns the pointer the value it just
\* found in it, so that the pointer runs through every cell and wraps.
AfterPush(p, top) == (p - 1) % (top + 1)
=============================================================================
