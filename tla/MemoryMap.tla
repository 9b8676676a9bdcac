----------------------------- MODULE MemoryMap -----------------------------
(***************************************************************************)
(* The screen's place in the address space, and the memory a program       *)
(* starts in.                                                              *)
(***************************************************************************)
EXTENDS Integers

SCR_OFF   == \hc000
ScreenRom == SCR_OFF .. (\hd800 - 1)

\* load, once it has read a file to its end: the image lies at address 0 and
\* the screen ROM is cleared over it.
Loaded(img) == [a \in DOMAIN img \ ScreenRom |-> img[a]]
==============================================================================
