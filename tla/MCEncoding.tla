----------------------------- MODULE MCEncoding -----------------------------
(***************************************************************************)
(* Every mnemonic with every register, bit, mode and branch distance; the  *)
(* constants and addresses are those that differ in a nibble or wrap.      *)
(***************************************************************************)
EXTENDS Encoding

MCConstants == {0, 1, 15, 16, 127, 128, 240, 255}
MCWords == {0, 1, 62, 63, 64, 1000, 61440, 65472, 65534, 65535}
MCDisplacements == -64 .. 63
=============================================================================
