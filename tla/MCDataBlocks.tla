---------------------------- MODULE MCDataBlocks ----------------------------
(***************************************************************************)
(* Blocks of three bytes, and enough bytes to fill two and begin a third,  *)
(* so that an end falls on every place of a block.                         *)
(***************************************************************************)
EXTENDS DataBlocks

CONSTANT a

Bytes == {NUL, LF, a}
=============================================================================
