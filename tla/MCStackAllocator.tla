-------------------------- MODULE MCStackAllocator --------------------------
(***************************************************************************)
(* Instance of StackAllocator for TLC: blocks without bytes and blocks of  *)
(* several bytes, with and without alignment, in a buffer that is full     *)
(* after a few of them.                                                    *)
(***************************************************************************)
EXTENDS StackAllocator
=============================================================================
