--------------------------- MODULE MCBridgeRelay ---------------------------
(***************************************************************************)
(* Instance of BridgeRelay for TLC: lines that are shorter and longer than *)
(* a step of reading.                                                      *)
(***************************************************************************)
EXTENDS BridgeRelay
=============================================================================
