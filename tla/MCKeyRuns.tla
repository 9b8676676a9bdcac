------------------------------ MODULE MCKeyRuns ------------------------------
(***************************************************************************)
(* A program that copies the key cell to the second cell of the screen for *)
(* ever, and a user with a letter, a control character, an arrow whose     *)
(* code ends in 3, and the five function keys.                             *)
(***************************************************************************)
EXTENDS KeyRuns

Echo == <<<<"LoadDirect", 0, KeyCell>>, <<"StoreDirect", 0, SCR_OFF + 1>>,
          <<"Jump", 0, 0>>>>

MCLeftover == [c \in Cell |-> 0]
MCImages == {ImageOf(Echo)}
KeyUp == 259
MCKeyCodes == {65, 66, 7, KeyUp, F1, F2, F3, F4, F5}
==============================================================================
