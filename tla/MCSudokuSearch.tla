--------------------------- MODULE MCSudokuSearch ---------------------------
(***************************************************************************)
(* An instance of SudokuSearch for TLC: a tiling of two tiles.  The first  *)
(* has two solutions, one of them further down in the search; the second   *)
(* is solvable only next to the other.                                     *)
(***************************************************************************)
EXTENDS SudokuSearch

CONSTANTS r0, r1, s1, s2, t1, t2, u1, k0, k1, h1

AlternativesOf == [b \in Boards |-> CASE b = r0 -> {s1, r1}
                                      [] b = r1 -> {s2}
                                      [] b = t1 -> {u1}
                                      [] OTHER  -> {}]

BelowOf == [b \in Boards |-> CASE b = r0 -> {r0, r1, s1, s2}
                               [] b = r1 -> {r1, s2}
                               [] b = t1 -> {t1, u1}
                               [] OTHER  -> {b}]

NeedsOf == [k \in Keys |-> IF k = k0 THEN {} ELSE {k0}]

StartAt == [k \in Keys |->
              [n \in SUBSET SolvedBoards |->
                  CASE k = k0   -> r0
                    [] n = {s1} -> t1
                    [] OTHER    -> t2]]
=============================================================================
