---------------------------- MODULE MCAsyncCalls ----------------------------
(***************************************************************************)
(* Instances of AsyncCalls for TLC.                                        *)
(***************************************************************************)
EXTENDS AsyncCalls

CONSTANTS i1, i2, w1, w2

(* Calls of both invokers with the number 1, and another call of one.      *)
QuotaOf == [i \in Invokers |-> IF i = i1 THEN 2 ELSE 1]
=============================================================================
