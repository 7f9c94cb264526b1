-------------------------- MODULE MCRouterRouting --------------------------
(***************************************************************************)
(* Instance of RouterRouting for TLC: a root router with two subordinate   *)
(* routers, an endpoint at each of these, of which one may move.           *)
(***************************************************************************)
EXTENDS RouterRouting

CONSTANTS root, left, right, e1, e2

ParentOfAll == [r \in Routers |-> root]

StartAt == [e \in Endpoints |-> IF e = e1 THEN left ELSE right]
=============================================================================
