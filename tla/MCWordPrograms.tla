--------------------------- MODULE MCWordPrograms ---------------------------
(***************************************************************************)
(* The words around every carry and sign boundary of one and two bytes,    *)
(* and the status registers that differ in a flag the sums read or keep.   *)
(***************************************************************************)
EXTENDS WordPrograms

MCLeftover == [c \in Cell |-> 0]
MCWords == {0, 1, 2, 127, 128, 129, 255, 256, 257, 511, 512, 32512, 32767,
            32768, 32769, 33023, 65280, 65534, 65535}
MCStatuses == {{}, {"C"}, {"Z"}, {"C", "Z"}, {"V", "S", "T"}, Flags}
=============================================================================
