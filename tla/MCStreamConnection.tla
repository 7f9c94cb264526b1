------------------------- MODULE MCStreamConnection -------------------------
(* Blocks of 5 with one byte for a size: messages of size 1 and 3 are      *)
(* stored in 2 and 4, and one of size 5 is accepted but fits no block.     *)
EXTENDS StreamConnection

const_Sizes == {1, 3, 5}
=============================================================================
