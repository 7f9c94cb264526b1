------------------------------ MODULE Selection ------------------------------
(***************************************************************************)
(* What the loops and iterators over the lists of messages and blobs of    *)
(* the message bus select.                                                 *)
(***************************************************************************)
EXTENDS Naturals, Sequences, FiniteSets

(* The elements at some places of a sequence, in its order.                *)
InOrder(S) == CHOOSE f \in [1..Cardinality(S) -> S] :
                 \A i, j \in DOMAIN f : i < j => f[i] < f[j]
Only(q, S) == LET at == InOrder(S) IN [i \in DOMAIN at |-> q[at[i]]]

(* The first of some places, 0 if there is none.                           *)
FirstOf(S) == IF S = {} THEN 0 ELSE CHOOSE i \in S : \A j \in S : i <= j
=============================================================================
