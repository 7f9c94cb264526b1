------------------------- MODULE MCDirectConnection -------------------------
(***************************************************************************)
(* Model checking of DirectConnection and of the channel it implements.    *)
(***************************************************************************)
EXTENDS DirectConnection
=============================================================================
