---------------------------- MODULE MCRouterIds -----------------------------
(***************************************************************************)
(* Instances of RouterIds for TLC.  The router has the id 1; the letters   *)
(* name the kinds of the nodes: d a dynamic endpoint, p one with a         *)
(* preconfigured id, r a subordinate router.                               *)
(***************************************************************************)
EXTENDS RouterIds

CONSTANTS d1, d2, p1, p2, r1

KindOf == [c \in Conns |-> CASE c \in {d1, d2} -> "dynamic"
                             [] c \in {p1, p2} -> "preconf"
                             [] OTHER -> "router"]

(* Ids outside the range of the router.                                    *)
FarIds == [c \in Conns |-> CASE c \in {p1, p2} -> 20
                             [] c = r1 -> 30
                             [] OTHER -> 0]

(* The subordinate router's id follows the range, as it does when the      *)
(* ranges of two routers are adjacent.                                     *)
AdjacentIds == [c \in Conns |-> CASE c \in {p1, p2} -> 20
                                  [] c = r1 -> IdBase + IdCount
                                  [] OTHER -> 0]

(* How often a node asks: once, or the first dynamic one twice, so that    *)
(* its requests overlap.                                                   *)
Once == [c \in Conns |-> 1]
FirstTwice == [c \in Conns |-> IF c = d1 THEN 2 ELSE 1]

NoRestarts == [c \in Conns |-> c]

(* p2 is a second run of the endpoint that p1 was.                         *)
Restarts == [c \in Conns |-> IF c = p2 THEN p1 ELSE c]
=============================================================================
