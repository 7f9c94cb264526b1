------------------------ MODULE SudokuSearch_proofs ------------------------
(***************************************************************************)
(* Proofs about SudokuSearch, for any boards, tiling, helpers and bounds.  *)
(*                                                                         *)
(* The argument: what a helper sends belongs to the board that is pending  *)
(* under the number of its query (Origin), every board that waits or is    *)
(* pending was reached from the start of its tile (BoardsFit), and while a *)
(* "done" is on its way every alternative of its board is too, or was lost,*)
(* or is covered by boards that wait, are pending or strayed (DoneCovered).*)
(* Then neither the end of a query nor its timeout loses a branch, except  *)
(* what strays with that end.                                              *)
(***************************************************************************)
EXTENDS SudokuSearch, TLAPS

BoardCounts == [Keys -> [Boards -> Nat]]
TileBoards == [Keys -> SolvedBoards \cup {Unsolved}]

(* The two halves of TypeOK.                                               *)
Structure == /\ canWork \in BOOLEAN /\ attached \in BOOLEAN
             /\ keyBoards \in BoardCounts
             /\ pending \subseteq Pending
             /\ sequence \in Nat
             /\ ready \subseteq Helpers
             /\ tiles \in TileBoards
             /\ faults \in Nat /\ lost \subseteq Query /\ strayed \subseteq Stray
             /\ queries \subseteq Query /\ answers \subseteq Query /\ done \subseteq Done
             /\ running \subseteq Helpers /\ searched \subseteq Helpers
             /\ backlog \in [Helpers -> SUBSET Query]

Numbered == /\ \A n \in UnderWay \cup {p.seq : p \in pending} : n < sequence
            /\ \A p, q \in pending : p.seq = q.seq => p = q

(* TypeOK says that the structure and the numbers of queries are right.    *)
LEMMA TypeHalves == TypeOK <=> Structure /\ Numbered
  BY DEF TypeOK, Structure, Numbered, BoardCounts, TileBoards

(* The board that a tile starts with is an unsolved one.                   *)
LEMMA StartType ==
    ASSUME NEW t \in TileBoards, NEW k \in Keys, Startable(k, t)
    PROVE  StartOf(k, t) \in Boards /\ StartOf(k, t) \notin SolvedBoards
<1>1. Needs[k] \subseteq Keys
  BY TilingAssumption
<1>2. {t[n] : n \in Needs[k]} \in SUBSET SolvedBoards
  BY <1>1 DEF TileBoards, Startable
<1>3. Start[k] \in [SUBSET SolvedBoards -> Boards \ SolvedBoards]
  BY TilingAssumption
<1> QED
  BY <1>2, <1>3 DEF StartOf

(* What the solver begins with, at first and after a reset.                *)
LEMMA FirstType ==
    /\ FirstOnly \in BoardCounts
    /\ NoTiles \in TileBoards
    /\ \A k \in Keys : Startable(k, NoTiles) => k = First
    /\ Startable(First, NoTiles)
    /\ StartOf(First, NoTiles) = Start[First][{}]
    /\ StartOf(First, NoTiles) \in Boards \ SolvedBoards
    /\ \A k \in Keys, b \in Boards :
          FirstOnly[k][b] > 0 <=> k = First /\ b = StartOf(First, NoTiles)
<1>1. NoTiles \in TileBoards
  BY DEF NoTiles, TileBoards
<1>2. Needs[First] = {} /\ First \in Keys
  BY TilingAssumption
<1>3. Startable(First, NoTiles)
  BY <1>2 DEF Startable
<1>4. \A k \in Keys : Startable(k, NoTiles) => k = First
  BY TilingAssumption DEF Startable, NoTiles
<1>5. {NoTiles[n] : n \in Needs[First]} = {}
  BY <1>2
<1>6. StartOf(First, NoTiles) = Start[First][{}]
  BY <1>5 DEF StartOf
<1>7. StartOf(First, NoTiles) \in Boards \ SolvedBoards
  BY <1>1, <1>2, <1>3, StartType
<1>8. FirstOnly \in BoardCounts
  BY DEF FirstOnly, BoardCounts, OneBoard, NoBoards
<1>9. \A k \in Keys, b \in Boards :
         FirstOnly[k][b] > 0 <=> k = First /\ b = StartOf(First, NoTiles)
  BY <1>6 DEF FirstOnly, OneBoard, NoBoards
<1> QED
  BY <1>1, <1>3, <1>4, <1>6, <1>7, <1>8, <1>9

(* add_board adds one board to the boards of one key.                      *)
LEMMA AddBoardPoints ==
    ASSUME NEW kb \in BoardCounts, NEW k \in Keys, NEW b \in Boards
    PROVE  /\ AddBoard(kb, k, b) \in BoardCounts
           /\ \A j \in Keys, c \in Boards :
                 AddBoard(kb, k, b)[j][c] > 0 <=> kb[j][c] > 0 \/ (j = k /\ c = b)
  BY DEF AddBoard, BoardCounts

(* enqueue_incomplete adds the start of some of the tiles that are not     *)
(* being solved.                                                           *)
LEMMA EnqueuePoints ==
    ASSUME NEW kb \in BoardCounts, NEW t \in TileBoards
    PROVE  /\ EnqueueIncomplete(kb, t) \in BoardCounts
           /\ \A j \in Keys, c \in Boards :
                 EnqueueIncomplete(kb, t)[j][c] > 0 <=>
                    \/ kb[j][c] > 0
                    \/ /\ t[j] = Unsolved /\ j # First
                       /\ ~HasEnqueued(j, kb, pending)
                       /\ Startable(j, t)
                       /\ c = StartOf(j, t)
<1> DEFINE new == EnqueueIncomplete(kb, t)
           added(j) == /\ t[j] = Unsolved /\ j # First
                       /\ ~HasEnqueued(j, kb, pending)
                       /\ Startable(j, t)
<1>1. new = [k \in Keys |-> IF added(k) THEN [kb[k] EXCEPT ![StartOf(k, t)] = @ + 1]
                            ELSE kb[k]]
  BY DEF EnqueueIncomplete
<1>2. ASSUME NEW j \in Keys
      PROVE  /\ new[j] \in [Boards -> Nat]
             /\ \A c \in Boards : new[j][c] > 0 <=>
                    kb[j][c] > 0 \/ (added(j) /\ c = StartOf(j, t))
  <2>1. kb[j] \in [Boards -> Nat]
    BY DEF BoardCounts
  <2> HIDE DEF new, added
  <2>2. CASE added(j)
    <3>1. new[j] = [kb[j] EXCEPT ![StartOf(j, t)] = @ + 1]
      BY <1>1, <2>2
    <3>2. StartOf(j, t) \in Boards
      BY <2>2, StartType DEF added
    <3> QED
      BY <2>1, <2>2, <3>1, <3>2
  <2>3. CASE ~added(j)
    BY <1>1, <2>1, <2>3
  <2> QED
    BY <2>2, <2>3
<1>3. new \in BoardCounts
  <2> HIDE DEF added
  <2>1. new = [k \in Keys |-> new[k]]
    BY <1>1
  <2> QED
    BY <1>2, <2>1 DEF BoardCounts
<1> QED
  BY <1>2, <1>3

(* The boards of a key are those that wait and those that are pending.     *)
LEMMA LivePoints ==
    ASSUME NEW k, NEW b
    PROVE  b \in Live(k) <=> \/ b \in Boards /\ keyBoards[k][b] > 0
                             \/ \E p \in pending : p.key = k /\ p.board = b
  BY DEF Live

(* A number is under way with a query, an alternative, a "done", or with a *)
(* board that a helper has.                                                *)
LEMMA UnderWayPoints ==
    ASSUME NEW n
    PROVE  n \in UnderWay <=> \/ \E m \in queries : m.seq = n
                              \/ \E m \in answers : m.seq = n
                              \/ \E m \in done : m.seq = n
                              \/ \E h \in Helpers : \E m \in backlog[h] : m.seq = n
  BY DEF UnderWay

(* A solution sets the tile of its key, if that is not set.                *)
LEMMA SetBoardPoints ==
    ASSUME tiles \in TileBoards, NEW k \in Keys, NEW s \in SolvedBoards
    PROVE  /\ SetBoard(k, s) \in TileBoards
           /\ \A j \in Keys : SetBoard(k, s)[j] = IF j = k /\ tiles[k] = Unsolved
                                                  THEN s ELSE tiles[j]
  BY DEF SetBoard, TileBoards

(* What the solver itself makes of the board that is late.                 *)
LEMMA ExpandType ==
    ASSUME Structure, NEW p \in pending, Expand(p)
    PROVE  keyBoards' \in BoardCounts /\ tiles' \in TileBoards
<1> DEFINE alts == Alternatives[p.board]
           more == [keyBoards EXCEPT ![p.key] =
                       [b \in Boards |->
                           IF b \in alts \ SolvedBoards THEN @[b] + 1 ELSE @[b]]]
<1>1. p.key \in Keys /\ p.board \in Boards
  BY DEF Structure, Pending
<1>2. keyBoards \in BoardCounts /\ tiles \in TileBoards
  BY DEF Structure
<1>3. more \in BoardCounts
  BY <1>1, <1>2 DEF BoardCounts
<1> HIDE DEF more
<1>4. \/ UNCHANGED <<keyBoards, tiles>>
      \/ keyBoards' = more /\ UNCHANGED tiles
      \/ \E s \in SolvedBoards : /\ tiles' = SetBoard(p.key, s)
                                 /\ keyBoards' = EnqueueIncomplete(more, tiles')
  BY DEF Expand, more
<1>5. CASE \E s \in SolvedBoards : /\ tiles' = SetBoard(p.key, s)
                                   /\ keyBoards' = EnqueueIncomplete(more, tiles')
  <2>1. tiles' \in TileBoards
    BY <1>1, <1>2, <1>5, SetBoardPoints
  <2> QED
    BY <1>3, <1>5, <2>1, EnqueuePoints
<1> QED
  BY <1>2, <1>3, <1>4, <1>5

(* The type invariant holds initially ...                                  *)
LEMMA InitType == Init => TypeOK
<1> SUFFICES ASSUME Init PROVE Structure /\ Numbered
  BY TypeHalves
<1>1. Structure
  BY FirstType DEF Init, Structure
<1>2. Numbered
  BY UnderWayPoints DEF Init, Numbered
<1> QED
  BY <1>1, <1>2

(* ... sending a board keeps it: its number is new ...                     *)
LEMMA SendType ==
    ASSUME TypeOK, NEW h \in Helpers, SendBoard(h)
    PROVE  TypeOK'
<1>1. PICK k \in Keys, b \in Boards :
          /\ keyBoards[k][b] > 0
          /\ keyBoards' = [keyBoards EXCEPT ![k][b] = @ - 1]
          /\ pending' = pending \cup
                {[seq |-> sequence, key |-> k, board |-> b, helper |-> h]}
          /\ queries' \subseteq queries \cup
                {[seq |-> sequence, board |-> b, helper |-> h]}
  BY DEF SendBoard, Passed
<1>2. Structure /\ Numbered
  BY TypeHalves
<1>3. /\ sequence' = sequence + 1 /\ ready' = ready \ {h}
      /\ UNCHANGED <<canWork, attached, tiles, answers, done, running, searched,
                     backlog, faults, lost, strayed>>
  BY DEF SendBoard, helperVars, historyVars
<1>4. sequence \in Nat
  BY <1>2 DEF Structure
<1>5. keyBoards' \in BoardCounts
  BY <1>1, <1>2 DEF Structure, BoardCounts
<1>6. pending' \subseteq Pending /\ queries' \subseteq Query
  BY <1>1, <1>2, <1>4 DEF Structure, Pending, Query
<1>7. Structure'
  BY <1>2, <1>3, <1>4, <1>5, <1>6 DEF Structure
<1>8. \A n : n \in UnderWay' => n \in UnderWay \/ n = sequence
  BY <1>1, <1>3 DEF UnderWay
<1>9. \A n \in UnderWay \cup {p.seq : p \in pending} : n \in Nat /\ n < sequence
  <2>1. \A p \in pending : p.seq \in Nat
    BY <1>2 DEF Structure, Pending
  <2>2. \A n \in UnderWay : n \in Nat
    BY <1>2 DEF UnderWay, Structure, Query, Done
  <2> QED
    BY <1>2, <2>1, <2>2 DEF Numbered
<1>10. \A n \in UnderWay' \cup {p.seq : p \in pending'} : n < sequence'
  <2> SUFFICES ASSUME NEW n \in UnderWay' \cup {p.seq : p \in pending'}
               PROVE  n < sequence'
    OBVIOUS
  <2>1. n \in UnderWay \cup {p.seq : p \in pending} \/ n = sequence
    BY <1>1, <1>8
  <2>2. (n \in Nat /\ n < sequence) \/ n = sequence
    BY <1>9, <2>1, Zenon
  <2> HIDE <2>1
  <2> QED
    BY <1>3, <1>4, <2>2
<1>11. \A p, q \in pending' : p.seq = q.seq => p = q
  <2>1. \A p \in pending : p.seq # sequence
    BY <1>4, <1>9
  <2> QED
    BY <1>1, <1>2, <2>1 DEF Numbered
<1> QED
  BY <1>7, <1>10, <1>11, TypeHalves DEF Numbered, TypeOK, Structure, BoardCounts, TileBoards

(* ... and so does every step that sends no number that was not under way. *)
LEMMA NumbersKept ==
    ASSUME Numbered, sequence' = sequence, pending' \subseteq pending,
           UnderWay' \subseteq UnderWay
    PROVE  Numbered'
  BY DEF Numbered

(* What arrives is taken from the bus, or a copy of it stays.              *)
LEMMA TakePoints ==
    ASSUME NEW ms, NEW left, NEW m, faults \in Nat, Take(m, ms, left)
    PROVE  left \subseteq ms /\ ms \ {m} \subseteq left /\ faults' \in Nat
  BY DEF Take, Fault

(* The type invariant is inductive.                                        *)
LEMMA StepType == TypeOK /\ [Next]_vars => TypeOK'
<1> SUFFICES ASSUME TypeOK, [Next]_vars PROVE TypeOK'
  OBVIOUS
<1> USE DEF solverVars, busVars, helperVars, historyVars
<1>0. Structure /\ Numbered
  BY TypeHalves
<1>s. Structure' /\ Numbered' => TypeOK'
  BY DEF TypeOK, Structure, Numbered, BoardCounts, TileBoards
<1>1. CASE \E h \in Helpers : SendBoard(h)
  BY <1>1, SendType
<1>2. CASE \E h \in Helpers : HelperUpdate(h)
  <2> PICK h \in Helpers : HelperUpdate(h)
    BY <1>2
  <2>1. /\ searched' = searched \ {h}
        /\ ready' \subseteq ready \cup {h}
        /\ UNCHANGED <<canWork, attached, keyBoards, pending, sequence, tiles, queries,
                       running, faults, lost, strayed>>
    BY DEF HelperUpdate, Passed
  <2>2. CASE UNCHANGED <<answers, done, backlog>>
    <3>1. Structure'
      BY <1>0, <2>1, <2>2 DEF Structure
    <3>2. UnderWay' = UnderWay
      BY <2>1, <2>2 DEF UnderWay
    <3> QED
      BY <1>0, <1>s, <2>1, <3>1, <3>2, NumbersKept
  <2>3. CASE ~UNCHANGED <<answers, done, backlog>>
    <3>1. PICK q \in backlog[h] :
             /\ backlog' = [backlog EXCEPT ![h] = @ \ {q}]
             /\ answers' \subseteq answers \cup
                   {[seq |-> q.seq, board |-> c, helper |-> h] :
                       c \in Alternatives[q.board]}
             /\ done' \subseteq done \cup {[seq |-> q.seq, helper |-> h]}
      BY <2>3 DEF HelperUpdate, Passed
    <3>2. q \in Query /\ q.seq \in Nat /\ Alternatives[q.board] \subseteq Boards
      BY <1>0, BoardAssumption DEF Structure, Query
    <3>3. answers' \subseteq Query /\ done' \subseteq Done
      BY <1>0, <3>1, <3>2 DEF Structure, Query, Done
    <3>4. backlog' \in [Helpers -> SUBSET Query]
      BY <1>0, <3>1 DEF Structure
    <3>5. Structure'
      BY <1>0, <2>1, <3>3, <3>4 DEF Structure
    <3>6. UnderWay' \subseteq UnderWay
      <4> SUFFICES ASSUME NEW n \in UnderWay' PROVE n \in UnderWay
        OBVIOUS
      <4>1. \/ \E m \in queries : m.seq = n
            \/ \E m \in answers' : m.seq = n
            \/ \E m \in done' : m.seq = n
            \/ \E g \in Helpers : \E m \in backlog'[g] : m.seq = n
        BY <2>1 DEF UnderWay
      <4>2. q.seq \in UnderWay
        BY UnderWayPoints
      <4>3. \A g \in Helpers : backlog'[g] \subseteq backlog[g]
        BY <1>0, <3>1 DEF Structure
      <4>4. \A m \in answers' : m \in answers \/ m.seq = q.seq
        BY <3>1
      <4>5. \A m \in done' : m \in done \/ m.seq = q.seq
        BY <3>1
      <4> QED
        BY <4>1, <4>2, <4>3, <4>4, <4>5, UnderWayPoints
    <3> QED
      BY <1>0, <1>s, <2>1, <3>5, <3>6, NumbersKept
  <2> QED
    BY <2>2, <2>3
<1>3. CASE \E a \in answers : HandleResponse(a)
  <2> PICK a \in answers : HandleResponse(a)
    BY <1>3
  <2>1. /\ answers' \subseteq answers /\ faults' \in Nat
        /\ UNCHANGED <<canWork, attached, pending, sequence, ready, queries, done,
                       running, searched, backlog, lost, strayed>>
    BY <1>0, TakePoints DEF HandleResponse, Structure
  <2>2. keyBoards' \in BoardCounts /\ tiles' \in TileBoards
    <3>1. a.board \in Boards /\ keyBoards \in BoardCounts /\ tiles \in TileBoards
      BY <1>0 DEF Structure, Query
    <3>2. CASE UNCHANGED <<keyBoards, tiles>>
      BY <3>1, <3>2
    <3>3. CASE \E p \in pending : a.board \in SolvedBoards /\ Solved(p, a.board)
      <4> PICK p \in pending : a.board \in SolvedBoards /\ Solved(p, a.board)
        BY <3>3
      <4>1. p.key \in Keys
        BY <1>0 DEF Structure, Pending
      <4>2. tiles' \in TileBoards
        BY <3>1, <4>1, SetBoardPoints DEF Solved
      <4>3. [keyBoards EXCEPT ![p.key] = NoBoards] \in BoardCounts
        BY <3>1 DEF BoardCounts, NoBoards
      <4> QED
        BY <4>2, <4>3, EnqueuePoints DEF Solved
    <3>4. CASE \E p \in pending : Candidate(p, a.board)
      <4> PICK p \in pending : Candidate(p, a.board)
        BY <3>4
      <4>1. p.key \in Keys
        BY <1>0 DEF Structure, Pending
      <4> QED
        BY <3>1, <4>1, AddBoardPoints DEF Candidate
    <3> QED
      BY <3>2, <3>3, <3>4 DEF HandleResponse
  <2>3. Structure'
    BY <1>0, <2>1, <2>2 DEF Structure
  <2>4. UnderWay' \subseteq UnderWay
    BY <2>1 DEF UnderWay
  <2> QED
    BY <1>0, <1>s, <2>1, <2>3, <2>4, NumbersKept
<1>4. CASE \E d \in done : PendingDone(d)
  <2> PICK d \in done : PendingDone(d)
    BY <1>4
  <2>1. /\ done' \subseteq done /\ faults' \in Nat
        /\ pending' \subseteq pending
        /\ ready' = ready \cup {p.helper : p \in {p \in pending : p.seq = d.seq}}
        /\ strayed' = strayed \cup
              {[key |-> p.key, board |-> a.board] :
                  p \in {p \in pending : p.seq = d.seq},
                  a \in {b \in Missed : b.seq = d.seq}}
        /\ UNCHANGED <<canWork, attached, keyBoards, sequence, tiles, queries, answers,
                       running, searched, backlog, lost>>
    BY <1>0, TakePoints DEF PendingDone, Structure
  <2>a. Missed \subseteq Query
    BY <1>0 DEF Missed, Structure
  <2>2. ready' \subseteq Helpers /\ strayed' \subseteq Stray
    BY <1>0, <2>1, <2>a DEF Structure, Pending, Query, Stray
  <2>3. Structure'
    BY <1>0, <2>1, <2>2 DEF Structure
  <2>4. UnderWay' \subseteq UnderWay
    BY <2>1 DEF UnderWay
  <2> QED
    BY <1>0, <1>s, <2>1, <2>3, <2>4, NumbersKept
<1>5. CASE \E p \in pending : TooLate(p)
  <2> PICK p \in pending : TooLate(p)
    BY <1>5
  <2>1. /\ pending' = pending \ {p}
        /\ UNCHANGED <<canWork, attached, sequence, ready, queries, answers, done,
                       running, searched, backlog, faults, lost, strayed>>
    BY DEF TooLate
  <2>2. keyBoards' \in BoardCounts /\ tiles' \in TileBoards
    BY <1>0, ExpandType DEF TooLate
  <2>3. Structure'
    BY <1>0, <2>1, <2>2 DEF Structure
  <2>4. UnderWay' \subseteq UnderWay
    BY <2>1 DEF UnderWay
  <2> QED
    BY <1>0, <1>s, <2>1, <2>3, <2>4, NumbersKept
<1>6. CASE \E q \in queries : HelperReceive(q)
  <2> PICK q \in queries : HelperReceive(q)
    BY <1>6
  <2>1. /\ queries' \subseteq queries /\ faults' \in Nat
        /\ UNCHANGED <<canWork, attached, keyBoards, pending, sequence, ready, tiles,
                       answers, done, running, lost, strayed>>
        /\ \/ searched' = searched /\ backlog' = backlog
           \/ /\ searched' = searched \cup {q.helper}
              /\ backlog' = [backlog EXCEPT ![q.helper] = @ \cup {q}]
    BY <1>0, TakePoints DEF HelperReceive, Structure
  <2>2. q \in Query /\ q.helper \in Helpers
    BY <1>0 DEF Structure, Query
  <2>3. searched' \subseteq Helpers /\ backlog' \in [Helpers -> SUBSET Query]
    BY <1>0, <2>1, <2>2 DEF Structure
  <2>4. Structure'
    BY <1>0, <2>1, <2>3 DEF Structure
  <2>5. UnderWay' \subseteq UnderWay
    <3> SUFFICES ASSUME NEW n \in UnderWay' PROVE n \in UnderWay
      OBVIOUS
    <3>1. \/ \E m \in queries' : m.seq = n
          \/ \E m \in answers : m.seq = n
          \/ \E m \in done : m.seq = n
          \/ \E h \in Helpers : \E m \in backlog'[h] : m.seq = n
      BY <2>1 DEF UnderWay
    <3>2. \A h \in Helpers : \A m \in backlog'[h] : m \in backlog[h] \/ m = q
      BY <1>0, <2>1 DEF Structure
    <3> QED
      BY <2>1, <3>1, <3>2, UnderWayPoints
  <2> QED
    BY <1>0, <1>s, <2>1, <2>4, <2>5, NumbersKept
<1>7. CASE SearchHelpers
  <2>1. Structure'
    BY <1>0, <1>7 DEF Structure, SearchHelpers, Passed
  <2>2. UnderWay' = UnderWay
    BY <1>7 DEF UnderWay, SearchHelpers
  <2> QED
    BY <1>0, <1>7, <1>s, <2>1, <2>2, NumbersKept DEF SearchHelpers
<1>8. CASE Reset
  <2>1. Structure'
    BY <1>0, <1>8, FirstType DEF Structure, Reset, Fault, SequenceAfterReset
  <2>2. UnderWay' = UnderWay
    BY <1>8 DEF UnderWay, Reset
  <2> QED
    BY <1>0, <1>8, <1>s, <2>1, <2>2, NumbersKept DEF Reset, SequenceAfterReset
<1>9. ASSUME NEW hs, Lose(hs)
      PROVE  /\ answers' \subseteq answers /\ done' \subseteq done
             /\ queries' \subseteq queries
             /\ lost' \subseteq lost \cup answers /\ strayed' = strayed
  BY <1>9 DEF Lose
<1>10. CASE \E h \in Helpers : Crash(h)
  <2> PICK h \in Helpers : Crash(h)
    BY <1>10
  <2>1. /\ answers' \subseteq answers /\ done' \subseteq done /\ queries' \subseteq queries
        /\ running' = running \ {h} /\ searched' = searched \ {h}
        /\ backlog' = [backlog EXCEPT ![h] = {}]
        /\ lost' \subseteq lost \cup answers /\ strayed' = strayed
        /\ faults' = faults + 1
        /\ UNCHANGED <<canWork, attached, keyBoards, pending, sequence, ready, tiles>>
    BY <1>9 DEF Crash, Fault
  <2>2. \A g \in Helpers : backlog'[g] \subseteq backlog[g]
    BY <1>0, <2>1 DEF Structure
  <2>3. backlog' \in [Helpers -> SUBSET Query]
    BY <1>0, <2>1 DEF Structure
  <2>4. Structure'
    BY <1>0, <2>1, <2>3 DEF Structure
  <2>5. UnderWay' \subseteq UnderWay
    BY <2>1, <2>2 DEF UnderWay
  <2> QED
    BY <1>0, <1>s, <2>1, <2>4, <2>5, NumbersKept
<1>11. CASE \E h \in Helpers : Restart(h)
  <2>1. Structure'
    BY <1>0, <1>11 DEF Structure, Restart
  <2>2. UnderWay' = UnderWay
    BY <1>11 DEF UnderWay, Restart
  <2> QED
    BY <1>0, <1>11, <1>s, <2>1, <2>2, NumbersKept DEF Restart
<1>12. CASE ConnectionLost \/ TooOld
  <2>1. /\ answers' \subseteq answers /\ done' \subseteq done /\ queries' \subseteq queries
        /\ canWork' \in BOOLEAN /\ attached' \in BOOLEAN
        /\ lost' \subseteq lost \cup answers /\ strayed' = strayed
        /\ faults' = faults + 1
        /\ UNCHANGED <<keyBoards, pending, sequence, ready, tiles, running, searched,
                       backlog>>
    BY <1>0, <1>9, <1>12 DEF ConnectionLost, TooOld, Fault, Structure
  <2>2. Structure'
    BY <1>0, <2>1 DEF Structure
  <2>3. UnderWay' \subseteq UnderWay
    BY <2>1 DEF UnderWay
  <2> QED
    BY <1>0, <1>s, <2>1, <2>2, <2>3, NumbersKept
<1>13. CASE ConnectionEstablished
  <2>1. Structure'
    BY <1>0, <1>13 DEF Structure, ConnectionEstablished
  <2>2. UnderWay' = UnderWay
    BY <1>13 DEF UnderWay, ConnectionEstablished
  <2> QED
    BY <1>0, <1>13, <1>s, <2>1, <2>2, NumbersKept DEF ConnectionEstablished
<1>14. CASE UNCHANGED vars
  <2>1. UNCHANGED <<canWork, attached, keyBoards, pending, sequence, ready, tiles,
                    queries, answers, done, running, searched, backlog,
                    faults, lost, strayed>>
    BY <1>14 DEF vars
  <2>2. Structure'
    BY <1>0, <2>1 DEF Structure
  <2>3. UnderWay' = UnderWay
    BY <2>1 DEF UnderWay
  <2> QED
    BY <1>0, <1>s, <2>1, <2>2, <2>3, NumbersKept
<1> QED
  BY <1>1, <1>2, <1>3, <1>4, <1>5, <1>6, <1>7, <1>8, <1>10, <1>11, <1>12, <1>13, <1>14
     DEF Next

(* All variables keep their types, and queries their own numbers.          *)
THEOREM TypeCorrect == Spec => []TypeOK
  BY InitType, StepType, PTL DEF Spec
-----------------------------------------------------------------------------
(* What is under way for a query that is pending belongs to its board.     *)
Origin == /\ \A q \in queries, p \in pending : p.seq = q.seq => p.board = q.board
          /\ \A h \in Helpers : \A q \in backlog[h], p \in pending :
                p.seq = q.seq => p.board = q.board
          /\ \A a \in answers, p \in pending :
                p.seq = a.seq => a.board \in Alternatives[p.board]

(* The boards of a tile are unsolved and come from the start of the tile.  *)
BoardsFit == \A k \in Keys : \A b \in Live(k) :
                /\ b \notin SolvedBoards
                /\ Startable(k, tiles)
                /\ b \in Below[StartOf(k, tiles)]

(* The boards from which a solution can be found, or that were lost.       *)
Found(k) == Live(k) \cup StrayedFrom(k)

(* Every solution below c can be found from a board of k at or below c.    *)
Covers(k, c) == \A s \in Solutions(c) :
                   \E b \in Found(k) : b \in Below[c] /\ s \in Solutions(b)

DoneCovered ==
    \A d \in done, p \in pending : d.seq = p.seq =>
        \A c \in Alternatives[p.board] :
            \/ \E a \in answers \cup lost : a.seq = d.seq /\ a.board = c
            \/ tiles[p.key] # Unsolved
            \/ Covers(p.key, c)

StartCovered ==
    \A k \in Keys : tiles[k] = Unsolved /\ Startable(k, tiles)
                        => Covers(k, StartOf(k, tiles))

SearchInv == BoardsFit /\ TilesFit /\ StartCovered /\ DoneCovered

(* All boards of a key are boards.                                         *)
LEMMA LiveType ==
    ASSUME Structure, NEW k, NEW b \in Live(k)
    PROVE  b \in Boards
  BY DEF Live, Structure, Pending

(* Below is a preorder, and what is below an unsolved board is below one   *)
(* of its alternatives.                                                    *)
LEMMA BelowFacts ==
    /\ \A b \in Boards : /\ b \in Below[b]
                         /\ Below[b] \subseteq Boards
                         /\ Alternatives[b] \subseteq Below[b]
                         /\ Alternatives[b] \subseteq Boards
    /\ \A b \in Boards : \A c \in Below[b] : Solutions(c) \subseteq Solutions(b)
    /\ \A b \in Boards : b \in SolvedBoards => Solutions(b) = {b}
    /\ \A b \in Boards : b \notin SolvedBoards =>
          \A s \in Solutions(b) : \E c \in Alternatives[b] : s \in Solutions(c)
<1>1. \A b \in Boards : /\ b \in Below[b] /\ Below[b] \subseteq Boards
                        /\ Alternatives[b] \subseteq Boards
  BY BoardAssumption
<1>2. ASSUME NEW b \in Boards PROVE Alternatives[b] \subseteq Below[b]
  <2>1. \A c \in Alternatives[b] : c \in Below[c]
    BY <1>1
  <2>2. Below[b] = {b} \cup UNION {Below[c] : c \in Alternatives[b]}
    BY BoardAssumption
  <2> QED
    BY <2>1, <2>2
<1>3. \A b \in Boards : \A c \in Below[b] : Solutions(c) \subseteq Solutions(b)
  BY BoardAssumption DEF Solutions
<1>4. \A b \in Boards : b \in SolvedBoards => Below[b] = {b}
  BY BoardAssumption
<1>5. ASSUME NEW b \in Boards, b \notin SolvedBoards, NEW s \in Solutions(b)
      PROVE  \E c \in Alternatives[b] : s \in Solutions(c)
  <2>1. Below[b] = {b} \cup UNION {Below[c] : c \in Alternatives[b]}
    BY BoardAssumption
  <2>2. s \in Below[b] /\ s \in SolvedBoards /\ s # b
    BY <1>5 DEF Solutions
  <2>3. PICK c \in Alternatives[b] : s \in Below[c]
    BY <2>1, <2>2
  <2> QED
    BY <2>2, <2>3 DEF Solutions
<1> QED
  BY <1>1, <1>2, <1>3, <1>4, <1>5 DEF Solutions

(* A board covers itself.                                                  *)
LEMMA CoversItself ==
    ASSUME NEW k, NEW c \in Boards, c \in Found(k)
    PROVE  Covers(k, c)
  BY BelowFacts DEF Covers

(* What strayed has strayed, until a reset.                                *)
LEMMA StrayedKept ==
    ASSUME strayed \subseteq strayed', NEW k
    PROVE  StrayedFrom(k) \subseteq StrayedFrom(k)'
  BY DEF StrayedFrom

(* What was covered stays covered, when every board of the key that goes   *)
(* away leaves its alternatives covered.                                   *)
LEMMA CoverKept ==
    ASSUME Structure, NEW k, NEW c \in Boards, Covers(k, c),
           strayed \subseteq strayed',
           \A b \in Live(k) : \/ b \in Live(k)'
                              \/ /\ b \notin SolvedBoards
                                 /\ \A e \in Alternatives[b] : Covers(k, e)'
    PROVE  Covers(k, c)'
<1> SUFFICES ASSUME NEW s \in Solutions(c)
             PROVE  \E b \in Found(k)' : b \in Below[c] /\ s \in Solutions(b)
  BY DEF Covers, Solutions
<1>1. PICK b \in Found(k) : b \in Below[c] /\ s \in Solutions(b)
  BY DEF Covers
<1>2. CASE b \in Live(k)' \/ b \in StrayedFrom(k)
  <2>1. b \in Found(k)'
    BY <1>2, StrayedKept DEF Found
  <2> QED
    BY <1>1, <2>1
<1>3. CASE /\ b \in Live(k) /\ b \notin SolvedBoards
           /\ \A e \in Alternatives[b] : Covers(k, e)'
  <2>0. b \in Boards
    BY <1>3, LiveType
  <2>1. PICK e \in Alternatives[b] : s \in Solutions(e)
    BY <1>1, <1>3, <2>0, BelowFacts
  <2>2. PICK f \in Found(k)' : f \in Below[e] /\ s \in Solutions(f)
    BY <1>3, <2>1 DEF Covers, Solutions
  <2>3. e \in Below[b]
    BY <2>0, BelowFacts
  <2>4. Below[e] \subseteq Below[b] /\ Below[b] \subseteq Below[c]
    BY <1>1, <2>0, <2>3, BoardAssumption
  <2> QED
    BY <2>2, <2>4
<1> QED
  BY <1>2, <1>3 DEF Found

(* A tile that is solved stays as it is, so that what was startable from   *)
(* it still is, and from the same board.                                   *)
LEMMA StartKept ==
    ASSUME NEW k \in Keys, Startable(k, tiles),
           \A j \in Keys : tiles[j] # Unsolved => tiles'[j] = tiles[j]
    PROVE  Startable(k, tiles') /\ StartOf(k, tiles') = StartOf(k, tiles)
<1>1. Needs[k] \subseteq Keys
  BY TilingAssumption
<1>2. \A n \in Needs[k] : tiles[n] # Unsolved /\ tiles'[n] = tiles[n]
  BY <1>1 DEF Startable
<1>3. {tiles'[n] : n \in Needs[k]} = {tiles[n] : n \in Needs[k]}
  BY <1>2
<1> QED
  BY <1>2, <1>3 DEF Startable, StartOf

(* The step that all steps but the reset are: solved tiles stay, boards    *)
(* come from boards or are starts, and those that go leave alternatives.   *)
LEMMA SearchStep ==
    ASSUME Structure, tiles' \in TileBoards, SearchInv,
           \A k \in Keys : tiles[k] # Unsolved => tiles'[k] = tiles[k],
           \A k \in Keys : tiles'[k] = Unsolved =>
              \A b \in Live(k) :
                 \/ b \in Live(k)'
                 \/ /\ b \notin SolvedBoards
                    /\ \A e \in Alternatives[b] : Covers(k, e)',
           \A k \in Keys :
              tiles'[k] = Unsolved /\ Startable(k, tiles') /\ ~Startable(k, tiles) =>
                 StartOf(k, tiles') \in Live(k)',
           \A k \in Keys : \A b \in Live(k)' :
              \/ b \in Live(k)
              \/ b \notin SolvedBoards /\ \E o \in Live(k) : b \in Below[o]
              \/ Startable(k, tiles') /\ b = StartOf(k, tiles'),
           \A k \in Keys : \/ tiles'[k] = tiles[k]
                           \/ \E o \in Live(k) : tiles'[k] \in Solutions(o),
           \A d \in done', p \in pending' : d.seq = p.seq =>
              \A c \in Alternatives[p.board] :
                 \/ \E a \in answers' \cup lost' : a.seq = d.seq /\ a.board = c
                 \/ tiles'[p.key] # Unsolved
                 \/ Covers(p.key, c)'
                 \/ tiles[p.key] # Unsolved
                 \/ Covers(p.key, c),
           strayed \subseteq strayed',
           \A p \in pending' : p.key \in Keys /\ p.board \in Boards
    PROVE  SearchInv'
<1>0. tiles \in TileBoards
  BY DEF Structure
<1>1. ASSUME NEW k \in Keys, Startable(k, tiles)
      PROVE  /\ Startable(k, tiles') /\ StartOf(k, tiles') = StartOf(k, tiles)
             /\ StartOf(k, tiles) \in Boards
  <2>1. Startable(k, tiles') /\ StartOf(k, tiles') = StartOf(k, tiles)
    BY <1>1, StartKept
  <2>2. StartOf(k, tiles) \in Boards
    BY <1>0, <1>1, StartType
  <2> QED
    BY <2>1, <2>2
<1>2. ASSUME NEW k \in Keys, NEW c \in Boards, tiles'[k] = Unsolved, Covers(k, c)
      PROVE  Covers(k, c)'
  BY <1>2, CoverKept
<1>3. BoardsFit'
  <2> SUFFICES ASSUME NEW k \in Keys, NEW b \in Live(k)'
               PROVE  /\ b \notin SolvedBoards
                      /\ Startable(k, tiles')
                      /\ b \in Below[StartOf(k, tiles')]
    BY DEF BoardsFit
  <2>1. ASSUME NEW o \in Live(k)
        PROVE  /\ o \notin SolvedBoards /\ Startable(k, tiles')
               /\ o \in Below[StartOf(k, tiles')]
               /\ Below[o] \subseteq Below[StartOf(k, tiles')]
    <3>1. o \notin SolvedBoards /\ Startable(k, tiles) /\ o \in Below[StartOf(k, tiles)]
      BY DEF SearchInv, BoardsFit
    <3> QED
      BY <1>1, <3>1, BoardAssumption
  <2>2. CASE b \in Live(k)
    BY <2>1, <2>2
  <2>3. CASE b \notin SolvedBoards /\ \E o \in Live(k) : b \in Below[o]
    BY <2>1, <2>3
  <2>4. CASE Startable(k, tiles') /\ b = StartOf(k, tiles')
    <3>1. StartOf(k, tiles') \in Boards /\ StartOf(k, tiles') \notin SolvedBoards
      BY <2>4, StartType
    <3> QED
      BY <2>4, <3>1, BelowFacts
  <2> QED
    BY <2>2, <2>3, <2>4
<1>4. TilesFit'
  <2> SUFFICES ASSUME NEW k \in Keys, tiles'[k] # Unsolved
               PROVE  /\ Startable(k, tiles')
                      /\ tiles'[k] \in Solutions(StartOf(k, tiles'))
    BY DEF TilesFit, Solutions
  <2>1. CASE tiles'[k] = tiles[k]
    BY <1>1, <2>1 DEF SearchInv, TilesFit
  <2>2. CASE \E o \in Live(k) : tiles'[k] \in Solutions(o)
    <3> PICK o \in Live(k) : tiles'[k] \in Solutions(o)
      BY <2>2
    <3>1. Startable(k, tiles) /\ o \in Below[StartOf(k, tiles)]
      BY DEF SearchInv, BoardsFit
    <3>2. /\ Startable(k, tiles') /\ StartOf(k, tiles') = StartOf(k, tiles)
          /\ StartOf(k, tiles) \in Boards
      BY <1>1, <3>1
    <3>3. Solutions(o) \subseteq Solutions(StartOf(k, tiles))
      BY <3>1, <3>2, BelowFacts
    <3> QED
      BY <3>2, <3>3
  <2> QED
    BY <2>1, <2>2
<1>5. StartCovered'
  <2> SUFFICES ASSUME NEW k \in Keys, tiles'[k] = Unsolved, Startable(k, tiles'),
                      NEW c \in Boards, c = StartOf(k, tiles')
               PROVE  Covers(k, c)'
    <3>1. ASSUME NEW k \in Keys, tiles'[k] = Unsolved, Startable(k, tiles')
          PROVE  StartOf(k, tiles') \in Boards
      BY <3>1, StartType
    <3>2. StartCovered' <=>
             \A k \in Keys :
                (tiles'[k] = Unsolved /\ Startable(k, tiles')) =>
                   \A s \in Solutions(StartOf(k, tiles')) :
                      \E b \in Found(k)' : b \in Below[StartOf(k, tiles')] /\ s \in Solutions(b)
      BY DEF StartCovered, Covers, Solutions
    <3> QED
      BY <3>1, <3>2 DEF Covers, Solutions
  <2>1. CASE Startable(k, tiles)
    <3>1. Covers(k, StartOf(k, tiles))
      <4>1. tiles[k] = Unsolved
        OBVIOUS
      <4> QED
        BY <2>1, <4>1 DEF SearchInv, StartCovered
    <3>2. c = StartOf(k, tiles)
      BY <1>1, <2>1
    <3> QED
      BY <1>2, <3>1, <3>2
  <2>2. CASE ~Startable(k, tiles)
    <3>1. c \in Live(k)'
      BY <2>2
    <3> QED
      BY <3>1, BelowFacts DEF Covers, Solutions, Found
  <2> QED
    BY <2>1, <2>2
<1>6. DoneCovered'
  <2> SUFFICES ASSUME NEW d \in done', NEW p \in pending', d.seq = p.seq,
                      NEW c \in Alternatives[p.board],
                      ~ \E a \in answers' \cup lost' : a.seq = d.seq /\ a.board = c,
                      tiles'[p.key] = Unsolved
               PROVE  Covers(p.key, c)'
    BY DEF DoneCovered, Covers, Solutions, Found, Live, StrayedFrom
  <2>1. p.key \in Keys /\ c \in Boards
    BY BelowFacts
  <2>2. tiles[p.key] = Unsolved
    BY <2>1
  <2>3. Covers(p.key, c)' \/ Covers(p.key, c)
    BY <2>2
  <2> QED
    BY <1>2, <2>1, <2>3
<1> QED
  BY <1>3, <1>4, <1>5, <1>6 DEF SearchInv

(* The search from its beginning, initially and after a reset.             *)
Fresh == keyBoards = FirstOnly /\ pending = {} /\ tiles = NoTiles

(* Then the invariant of the search holds.                                 *)
LEMMA FreshSearch == Fresh => SearchInv
<1> SUFFICES ASSUME Fresh PROVE SearchInv
  OBVIOUS
<1>1. \A k \in Keys : \A b : b \in Live(k) <=> k = First /\ b = StartOf(First, NoTiles)
  <2> SUFFICES ASSUME NEW k \in Keys, NEW b
               PROVE  b \in Live(k) <=> k = First /\ b = StartOf(First, NoTiles)
    OBVIOUS
  <2>1. b \in Live(k) <=> b \in Boards /\ FirstOnly[k][b] > 0
    BY LivePoints DEF Fresh
  <2>2. StartOf(First, NoTiles) \in Boards
    BY FirstType
  <2> QED
    BY <2>1, <2>2, FirstType
<1>2. BoardsFit
  BY <1>1, FirstType, BelowFacts DEF BoardsFit, Fresh
<1>3. TilesFit
  BY DEF TilesFit, Fresh, NoTiles
<1>4. StartCovered
  <2> SUFFICES ASSUME NEW k \in Keys, Startable(k, tiles)
               PROVE  Covers(k, StartOf(k, tiles))
    BY DEF StartCovered
  <2>1. k = First /\ tiles = NoTiles
    BY FirstType DEF Fresh
  <2>2. StartOf(k, tiles) \in Live(k) /\ StartOf(k, tiles) \in Boards
    BY <1>1, <2>1, FirstType
  <2> QED
    BY <2>2, CoversItself DEF Found
<1>5. DoneCovered
  BY DEF DoneCovered, Fresh
<1> QED
  BY <1>2, <1>3, <1>4, <1>5 DEF SearchInv

(* A pending board is a board of its key.                                  *)
LEMMA PendingLive ==
    ASSUME Structure, NEW p \in pending
    PROVE  p.key \in Keys /\ p.board \in Boards /\ p.board \in Live(p.key)
  BY DEF Structure, Pending, Live

(* Steps that leave the boards and the tiles alone.                        *)
LEMMA SearchUntouched ==
    ASSUME Structure, SearchInv, UNCHANGED <<keyBoards, pending, tiles, strayed>>,
           \A d \in done', p \in pending : d.seq = p.seq =>
              \A c \in Alternatives[p.board] :
                 \/ \E a \in answers' \cup lost' : a.seq = d.seq /\ a.board = c
                 \/ tiles[p.key] # Unsolved
                 \/ Covers(p.key, c)
    PROVE  SearchInv'
<1>1. \A k : Live(k)' = Live(k) /\ Found(k)' = Found(k)
  BY DEF Live, Found, StrayedFrom
<1>2. \A k, c : Covers(k, c)' <=> Covers(k, c)
  BY <1>1 DEF Covers, Solutions
<1>3. BoardsFit' /\ TilesFit' /\ StartCovered'
  <2>1. BoardsFit'
    BY <1>1 DEF SearchInv, BoardsFit, Startable, StartOf
  <2>2. TilesFit'
    BY DEF SearchInv, TilesFit, Startable, StartOf, Solutions
  <2>3. StartCovered'
    <3>1. StartCovered' <=>
             \A k \in Keys : (tiles'[k] = Unsolved /\ Startable(k, tiles')) =>
                \A s \in Solutions(StartOf(k, tiles')) :
                   \E b \in Found(k)' : b \in Below[StartOf(k, tiles')] /\ s \in Solutions(b)
      BY DEF StartCovered, Covers, Solutions
    <3>2. \A k \in Keys : (tiles[k] = Unsolved /\ Startable(k, tiles)) =>
             \A s \in Solutions(StartOf(k, tiles)) :
                \E b \in Found(k) : b \in Below[StartOf(k, tiles)] /\ s \in Solutions(b)
      BY DEF SearchInv, StartCovered, Covers
    <3>3. tiles' = tiles
      OBVIOUS
    <3> QED
      BY <1>1, <3>1, <3>2, <3>3
  <2> QED
    BY <2>1, <2>2, <2>3
<1>4. DoneCovered'
  <2> SUFFICES ASSUME NEW d \in done', NEW p \in pending', d.seq = p.seq,
                      NEW c \in Alternatives[p.board],
                      ~ \E a \in answers' \cup lost' : a.seq = d.seq /\ a.board = c,
                      tiles'[p.key] = Unsolved
               PROVE  Covers(p.key, c)'
    BY DEF DoneCovered, Covers, Solutions, Found, Live, StrayedFrom
  <2>1. Covers(p.key, c)
    OBVIOUS
  <2> QED
    BY <1>2, <2>1
<1> QED
  BY <1>3, <1>4 DEF SearchInv

(* Sending moves a board from those that wait to those that are pending.   *)
LEMMA SendSearch ==
    ASSUME TypeOK, SearchInv, Origin, NEW h \in Helpers, SendBoard(h)
    PROVE  SearchInv' /\ Origin'
<1>1. PICK k \in Keys, b \in Boards :
          /\ keyBoards[k][b] > 0
          /\ keyBoards' = [keyBoards EXCEPT ![k][b] = @ - 1]
          /\ pending' = pending \cup
                {[seq |-> sequence, key |-> k, board |-> b, helper |-> h]}
          /\ queries' \subseteq queries \cup
                {[seq |-> sequence, board |-> b, helper |-> h]}
  BY DEF SendBoard, Passed
<1>2. UNCHANGED <<tiles, answers, done, backlog, lost, strayed>>
  BY DEF SendBoard, helperVars, historyVars
<1>3. Structure /\ Numbered
  BY TypeHalves
<1>4. sequence \in Nat /\ keyBoards \in BoardCounts
  BY <1>3 DEF Structure
<1>5. \A n : n \in UnderWay \/ (\E p \in pending : p.seq = n) => n # sequence
  <2> SUFFICES ASSUME NEW n, n \in UnderWay \/ (\E p \in pending : p.seq = n)
               PROVE  n # sequence
    OBVIOUS
  <2>1. n < sequence
    BY <1>3 DEF Numbered
  <2> QED
    BY <1>4, <2>1
<1>6. \A j \in Keys, c \in Boards :
         /\ keyBoards'[j][c] > 0 => keyBoards[j][c] > 0
         /\ keyBoards[j][c] > 0 => keyBoards'[j][c] > 0 \/ (j = k /\ c = b)
  <2> SUFFICES ASSUME NEW j \in Keys, NEW c \in Boards
               PROVE  /\ keyBoards'[j][c] > 0 => keyBoards[j][c] > 0
                      /\ keyBoards[j][c] > 0 => keyBoards'[j][c] > 0 \/ (j = k /\ c = b)
    OBVIOUS
  <2>1. keyBoards'[j][c] = IF j = k /\ c = b THEN keyBoards[j][c] - 1 ELSE keyBoards[j][c]
    BY <1>1, <1>4 DEF BoardCounts
  <2>2. keyBoards[j][c] \in Nat
    BY <1>4 DEF BoardCounts
  <2> QED
    BY <2>1, <2>2
<1>7. \A j \in Keys : Live(j)' = Live(j)
  <2> SUFFICES ASSUME NEW j \in Keys, NEW c PROVE c \in Live(j)' <=> c \in Live(j)
    OBVIOUS
  <2>1. c \in Live(j)' <=> \/ c \in Boards /\ keyBoards'[j][c] > 0
                           \/ \E p \in pending' : p.key = j /\ p.board = c
    BY DEF Live
  <2>2. (\E p \in pending' : p.key = j /\ p.board = c) <=>
           (\E p \in pending : p.key = j /\ p.board = c) \/ (j = k /\ c = b)
    <3> DEFINE new == [seq |-> sequence, key |-> k, board |-> b, helper |-> h]
    <3>1. new.key = k /\ new.board = b /\ pending' = pending \cup {new}
      BY <1>1
    <3> HIDE DEF new
    <3> QED
      BY <3>1
  <2> QED
    BY <1>1, <1>6, <2>1, <2>2, LivePoints
<1>8. Origin'
  <2>1. \A q \in queries', p \in pending' : p.seq = q.seq => p.board = q.board
    <3>1. \A q \in queries : q.seq # sequence
      BY <1>5, UnderWayPoints
    <3>2. \A p \in pending : p.seq # sequence
      BY <1>5
    <3> QED
      BY <1>1, <3>1, <3>2 DEF Origin
  <2>2. \A g \in Helpers : \A q \in backlog'[g], p \in pending' :
           p.seq = q.seq => p.board = q.board
    <3>1. \A g \in Helpers : \A q \in backlog[g] : q.seq # sequence
      BY <1>5, UnderWayPoints
    <3> QED
      BY <1>1, <1>2, <3>1 DEF Origin
  <2>3. \A a \in answers', p \in pending' :
           p.seq = a.seq => a.board \in Alternatives[p.board]
    <3>1. \A a \in answers : a.seq # sequence
      BY <1>5, UnderWayPoints
    <3> QED
      BY <1>1, <1>2, <3>1 DEF Origin
  <2> QED
    BY <2>1, <2>2, <2>3 DEF Origin
<1>9. \A d \in done', p \in pending' : d.seq = p.seq =>
         /\ p \in pending
         /\ \A c \in Alternatives[p.board] :
               \/ \E a \in answers' \cup lost' : a.seq = d.seq /\ a.board = c
               \/ tiles[p.key] # Unsolved
               \/ Covers(p.key, c)
  <2>1. \A d \in done : d.seq # sequence
    BY <1>5, UnderWayPoints
  <2>2. \A d \in done', p \in pending' : d.seq = p.seq => p \in pending
    BY <1>1, <1>2, <2>1
  <2> QED
    BY <1>2, <2>2 DEF SearchInv, DoneCovered
<1>10. tiles' \in TileBoards
  BY <1>2, <1>3 DEF Structure
<1>11. \A p \in pending' : p.key \in Keys /\ p.board \in Boards
  BY <1>1, <1>3 DEF Structure, Pending
<1>12. SearchInv'
  <2>1. \A j \in Keys : tiles[j] # Unsolved => tiles'[j] = tiles[j]
    BY <1>2
  <2>2. \A j \in Keys : tiles'[j] = Unsolved =>
           \A c \in Live(j) : \/ c \in Live(j)'
                             \/ /\ c \notin SolvedBoards
                                /\ \A e \in Alternatives[c] : Covers(j, e)'
    BY <1>7
  <2>3. \A j \in Keys :
           tiles'[j] = Unsolved /\ Startable(j, tiles') /\ ~Startable(j, tiles) =>
              StartOf(j, tiles') \in Live(j)'
    BY <1>2 DEF Startable
  <2>4. \A j \in Keys : \A c \in Live(j)' :
           \/ c \in Live(j)
           \/ c \notin SolvedBoards /\ \E o \in Live(j) : c \in Below[o]
           \/ Startable(j, tiles') /\ c = StartOf(j, tiles')
    BY <1>7
  <2>5. \A j \in Keys : \/ tiles'[j] = tiles[j]
                        \/ \E o \in Live(j) : tiles'[j] \in Solutions(o)
    BY <1>2
  <2>6. \A d \in done', p \in pending' : d.seq = p.seq =>
           \A c \in Alternatives[p.board] :
              \/ \E a \in answers' \cup lost' : a.seq = d.seq /\ a.board = c
              \/ tiles'[p.key] # Unsolved
              \/ Covers(p.key, c)'
              \/ tiles[p.key] # Unsolved
              \/ Covers(p.key, c)
    BY <1>9
  <2> QED
    BY <1>2, <1>3, <1>10, <1>11, <2>1, <2>2, <2>3, <2>4, <2>5, <2>6, SearchStep
<1> QED
  BY <1>8, <1>12

(* When a query is done its alternatives have been answered or stray, so   *)
(* that what its board covered is covered without it.                      *)
LEMMA DoneSearch ==
    ASSUME TypeOK, SearchInv, Origin, NEW d \in done, PendingDone(d)
    PROVE  SearchInv' /\ Origin'
<1>1. Structure /\ Numbered
  BY TypeHalves
<1>2. /\ Ordered => \A a \in answers : a.seq # d.seq
      /\ done' \subseteq done
      /\ pending' = pending \ {p \in pending : p.seq = d.seq}
      /\ strayed' = strayed \cup
            {[key |-> p.key, board |-> a.board] :
                p \in {p \in pending : p.seq = d.seq},
                a \in {b \in Missed : b.seq = d.seq}}
      /\ UNCHANGED <<keyBoards, tiles, queries, answers, backlog, lost>>
  BY <1>1, TakePoints DEF PendingDone, LastOf, helperVars, Structure
<1>a. strayed \subseteq strayed'
  BY <1>2
<1>3. \A j \in Keys : \A c : c \in Live(j)' => c \in Live(j)
  BY <1>2 DEF Live
<1>4. \A j \in Keys : \A c \in Live(j) :
         \/ c \in Live(j)'
         \/ \E p \in pending : p.seq = d.seq /\ p.key = j /\ p.board = c
  BY <1>2 DEF Live
<1>5. ASSUME NEW p \in pending, p.seq = d.seq, tiles[p.key] = Unsolved,
             NEW e \in Alternatives[p.board]
      PROVE  Covers(p.key, e)'
  <2>1. p.key \in Keys /\ p.board \in Boards
    BY <1>1, PendingLive
  <2>2. CASE \E a \in answers \cup lost : a.seq = d.seq /\ a.board = e
    <3>1. PICK a \in answers \cup lost : a.seq = d.seq /\ a.board = e
      BY <2>2
    <3>2. a \in Missed
      BY <1>2, <3>1 DEF Missed
    <3> DEFINE x == [key |-> p.key, board |-> a.board]
    <3>3. x \in strayed'
      BY <1>2, <1>5, <3>1, <3>2
    <3>4. e \in Found(p.key)'
      BY <3>1, <3>3 DEF Found, StrayedFrom
    <3> QED
      BY <2>1, <3>4, BelowFacts DEF Covers, Solutions
  <2>3. CASE Covers(p.key, e)
    <3>1. p.board \notin Below[e]
      BY <2>1, BoardAssumption
    <3> SUFFICES ASSUME NEW s \in Solutions(e)
                 PROVE  \E b \in Found(p.key)' : b \in Below[e] /\ s \in Solutions(b)
      BY DEF Covers, Solutions
    <3>2. PICK b \in Found(p.key) : b \in Below[e] /\ s \in Solutions(b)
      BY <2>3 DEF Covers
    <3>3. CASE b \in Live(p.key)
      <4>1. \A q \in pending : q.seq = d.seq => q = p
        BY <1>1, <1>5 DEF Numbered
      <4>2. b \in Live(p.key)'
        BY <1>4, <2>1, <3>1, <3>2, <3>3, <4>1
      <4> QED
        BY <3>2, <4>2 DEF Found
    <3>4. CASE b \in StrayedFrom(p.key)
      BY <1>a, <3>2, <3>4, StrayedKept DEF Found
    <3> QED
      BY <3>2, <3>3, <3>4 DEF Found
  <2> QED
    BY <1>5, <2>2, <2>3 DEF SearchInv, DoneCovered
<1>6. \A j \in Keys : tiles'[j] = Unsolved =>
         \A c \in Live(j) : \/ c \in Live(j)'
                           \/ /\ c \notin SolvedBoards
                              /\ \A e \in Alternatives[c] : Covers(j, e)'
  <2> SUFFICES ASSUME NEW j \in Keys, tiles'[j] = Unsolved, NEW c \in Live(j),
                      c \notin Live(j)'
               PROVE  c \notin SolvedBoards /\ \A e \in Alternatives[c] : Covers(j, e)'
    OBVIOUS
  <2>1. PICK p \in pending : p.seq = d.seq /\ p.key = j /\ p.board = c
    BY <1>4
  <2>2. c \notin SolvedBoards
    BY DEF SearchInv, BoardsFit
  <2>3. tiles[p.key] = Unsolved
    BY <1>2, <2>1
  <2>4. \A e \in Alternatives[p.board] : Covers(p.key, e)'
    BY <1>5, <2>1, <2>3
  <2> QED
    BY <2>1, <2>2, <2>4
<1>7. SearchInv'
  <2>1. \A j \in Keys : tiles[j] # Unsolved => tiles'[j] = tiles[j]
    BY <1>2
  <2>2. \A j \in Keys :
           tiles'[j] = Unsolved /\ Startable(j, tiles') /\ ~Startable(j, tiles) =>
              StartOf(j, tiles') \in Live(j)'
    BY <1>2 DEF Startable
  <2>3. \A j \in Keys : \A c \in Live(j)' :
           \/ c \in Live(j)
           \/ c \notin SolvedBoards /\ \E o \in Live(j) : c \in Below[o]
           \/ Startable(j, tiles') /\ c = StartOf(j, tiles')
    BY <1>3
  <2>4. \A j \in Keys : \/ tiles'[j] = tiles[j]
                        \/ \E o \in Live(j) : tiles'[j] \in Solutions(o)
    BY <1>2
  <2>5. \A f \in done', p \in pending' : f.seq = p.seq =>
           \A c \in Alternatives[p.board] :
              \/ \E a \in answers' \cup lost' : a.seq = f.seq /\ a.board = c
              \/ tiles'[p.key] # Unsolved
              \/ Covers(p.key, c)'
              \/ tiles[p.key] # Unsolved
              \/ Covers(p.key, c)
    BY <1>2 DEF SearchInv, DoneCovered
  <2>6. \A p \in pending' : p.key \in Keys /\ p.board \in Boards
    BY <1>1, <1>2 DEF Structure, Pending
  <2>7. tiles' \in TileBoards
    BY <1>1, <1>2 DEF Structure
  <2> QED
    BY <1>1, <1>a, <1>6, <2>1, <2>2, <2>3, <2>4, <2>5, <2>6, <2>7, SearchStep
<1>8. Origin'
  BY <1>2 DEF Origin
<1> QED
  BY <1>7, <1>8

(* A solution of a tile: what the solver does with it, after the boards    *)
(* that wait have become kb, which may have lost those of the tile itself. *)
LEMMA SolvedSearch ==
    ASSUME TypeOK, SearchInv, NEW p \in pending, NEW s \in SolvedBoards,
           s \in Solutions(p.board),
           NEW kb \in BoardCounts,
           \A j \in Keys, c \in Boards :
              kb[j][c] > 0 => \/ c \in Live(j)
                              \/ /\ c \notin SolvedBoards
                                 /\ \E o \in Live(j) : c \in Below[o],
           \A j \in Keys, c \in Boards :
              j # p.key /\ keyBoards[j][c] > 0 => kb[j][c] > 0,
           tiles' = SetBoard(p.key, s),
           keyBoards' = EnqueueIncomplete(kb, tiles'),
           pending' \subseteq pending,
           \A q \in pending : q.key # p.key => q \in pending',
           UNCHANGED strayed,
           \A d \in done', q \in pending' : d.seq = q.seq =>
              \A c \in Alternatives[q.board] :
                 \/ \E a \in answers' \cup lost' : a.seq = d.seq /\ a.board = c
                 \/ tiles'[q.key] # Unsolved
                 \/ tiles[q.key] # Unsolved
                 \/ Covers(q.key, c)
    PROVE  SearchInv'
<1>1. Structure /\ Numbered
  BY TypeHalves
<1>2. tiles \in TileBoards /\ p.key \in Keys /\ p.board \in Live(p.key)
  BY <1>1, PendingLive DEF Structure
<1>3. /\ tiles' \in TileBoards
      /\ \A j \in Keys : tiles'[j] = IF j = p.key /\ tiles[p.key] = Unsolved
                                     THEN s ELSE tiles[j]
  BY <1>2, SetBoardPoints
<1>4. Unsolved \notin SolvedBoards
  BY BoardAssumption
<1>5. tiles'[p.key] # Unsolved
  BY <1>2, <1>3, <1>4
<1>6. \A j \in Keys, c \in Boards :
         keyBoards'[j][c] > 0 <=>
            \/ kb[j][c] > 0
            \/ /\ tiles'[j] = Unsolved /\ j # First
               /\ ~HasEnqueued(j, kb, pending)
               /\ Startable(j, tiles')
               /\ c = StartOf(j, tiles')
  BY <1>3, EnqueuePoints
<1>7. \A j \in Keys : tiles[j] # Unsolved => tiles'[j] = tiles[j]
  BY <1>3
<1>8. ASSUME NEW j \in Keys, j # p.key, NEW c \in Live(j) PROVE c \in Live(j)'
  <2>1. CASE c \in Boards /\ keyBoards[j][c] > 0
    <3>1. keyBoards'[j][c] > 0
      BY <1>6, <1>8, <2>1
    <3> QED
      BY <2>1, <3>1 DEF Live
  <2>2. CASE \E q \in pending : q.key = j /\ q.board = c
    <3> PICK q \in pending : q.key = j /\ q.board = c
      BY <2>2
    <3>1. q \in pending'
      BY <1>8
    <3> QED
      BY <3>1 DEF Live
  <2> QED
    BY <2>1, <2>2, LivePoints
<1>9. \A j \in Keys : tiles'[j] = Unsolved =>
         \A c \in Live(j) : \/ c \in Live(j)'
                           \/ /\ c \notin SolvedBoards
                              /\ \A e \in Alternatives[c] : Covers(j, e)'
  BY <1>5, <1>8
<1>10. ASSUME NEW j \in Keys, tiles'[j] = Unsolved, Startable(j, tiles'),
              ~Startable(j, tiles)
       PROVE  StartOf(j, tiles') \in Live(j)'
  <2>1. \A c : c \notin Live(j)
    BY <1>10 DEF SearchInv, BoardsFit
  <2>2. \A c \in Boards : ~(kb[j][c] > 0)
    BY <2>1
  <2>3. \A q \in pending : q.key # j
    BY <2>1, LivePoints
  <2>4. ~HasEnqueued(j, kb, pending)
    BY <2>2, <2>3 DEF HasEnqueued
  <2>5. j # First
    <3>1. Startable(First, tiles)
      BY TilingAssumption DEF Startable
    <3> QED
      BY <1>10, <3>1
  <2>6. StartOf(j, tiles') \in Boards
    BY <1>3, <1>10, StartType
  <2>7. keyBoards'[j][StartOf(j, tiles')] > 0
    BY <1>6, <1>10, <2>4, <2>5, <2>6
  <2> QED
    BY <2>6, <2>7 DEF Live
<1>11. \A j \in Keys : \A c \in Live(j)' :
          \/ c \in Live(j)
          \/ c \notin SolvedBoards /\ \E o \in Live(j) : c \in Below[o]
          \/ Startable(j, tiles') /\ c = StartOf(j, tiles')
  <2> SUFFICES ASSUME NEW j \in Keys, NEW c \in Live(j)'
               PROVE  \/ c \in Live(j)
                      \/ c \notin SolvedBoards /\ \E o \in Live(j) : c \in Below[o]
                      \/ Startable(j, tiles') /\ c = StartOf(j, tiles')
    OBVIOUS
  <2>1. \/ c \in Boards /\ keyBoards'[j][c] > 0
        \/ \E q \in pending : q.key = j /\ q.board = c
    BY DEF Live
  <2>2. CASE c \in Boards /\ keyBoards'[j][c] > 0
    BY <1>6, <2>2
  <2>3. CASE \E q \in pending : q.key = j /\ q.board = c
    BY <2>3, LivePoints
  <2> QED
    BY <2>1, <2>2, <2>3
<1>12. \A j \in Keys : \/ tiles'[j] = tiles[j]
                       \/ \E o \in Live(j) : tiles'[j] \in Solutions(o)
  BY <1>2, <1>3
<1>13. \A q \in pending' : q.key \in Keys /\ q.board \in Boards
  BY <1>1 DEF Structure, Pending
<1>14. \A d \in done', q \in pending' : d.seq = q.seq =>
          \A c \in Alternatives[q.board] :
             \/ \E a \in answers' \cup lost' : a.seq = d.seq /\ a.board = c
             \/ tiles'[q.key] # Unsolved
             \/ Covers(q.key, c)'
             \/ tiles[q.key] # Unsolved
             \/ Covers(q.key, c)
  OBVIOUS
<1> QED
  BY <1>1, <1>3, <1>7, <1>9, <1>10, <1>11, <1>12, <1>13, <1>14, SearchStep

(* An alternative is under way until it counts as a board of its key, or   *)
(* solves its tile, and one that counts for nothing was not needed.        *)
LEMMA ResponseSearch ==
    ASSUME TypeOK, SearchInv, Origin, NEW a \in answers, HandleResponse(a)
    PROVE  SearchInv' /\ Origin'
<1>1. Structure /\ Numbered
  BY TypeHalves
<1>2. /\ answers' \subseteq answers /\ answers \ {a} \subseteq answers'
      /\ UNCHANGED <<pending, queries, done, backlog, lost, strayed>>
  BY <1>1, TakePoints DEF HandleResponse, helperVars, Structure
<1>3. Origin'
  BY <1>2 DEF Origin
<1>4. CASE /\ \A p \in pending : p.seq # a.seq
           /\ UNCHANGED <<keyBoards, tiles>>
  <2>1. \A d \in done', p \in pending : d.seq = p.seq =>
           \A c \in Alternatives[p.board] :
              \/ \E b \in answers' \cup lost' : b.seq = d.seq /\ b.board = c
              \/ tiles[p.key] # Unsolved
              \/ Covers(p.key, c)
    BY <1>2, <1>4 DEF SearchInv, DoneCovered
  <2> QED
    BY <1>1, <1>2, <1>3, <1>4, <2>1, SearchUntouched
<1>5. ASSUME NEW p \in pending, p.seq = a.seq,
             IF a.board \in SolvedBoards THEN Solved(p, a.board)
                                         ELSE Candidate(p, a.board)
      PROVE  SearchInv'
  <2>1. /\ p.key \in Keys /\ p.board \in Boards /\ p.board \in Live(p.key)
        /\ a.board \in Alternatives[p.board]
        /\ a.board \in Boards /\ a.board \in Below[p.board]
    <3>1. p.key \in Keys /\ p.board \in Boards /\ p.board \in Live(p.key)
      BY <1>1, PendingLive
    <3>2. a.board \in Alternatives[p.board]
      BY <1>5 DEF Origin
    <3> QED
      BY <3>1, <3>2, BelowFacts
  <2>2. \A q \in pending : q.seq = a.seq => q = p
    BY <1>1, <1>5 DEF Numbered
  <2>3. \A d \in done', q \in pending' : d.seq = q.seq =>
           \A c \in Alternatives[q.board] :
              \/ \E b \in answers' \cup lost' : b.seq = d.seq /\ b.board = c
              \/ q = p /\ c = a.board
              \/ tiles[q.key] # Unsolved
              \/ Covers(q.key, c)
    <3> SUFFICES ASSUME NEW d \in done, NEW q \in pending, d.seq = q.seq,
                        NEW c \in Alternatives[q.board],
                        tiles[q.key] = Unsolved, ~Covers(q.key, c),
                        ~(q = p /\ c = a.board)
                 PROVE  \E b \in answers' \cup lost' : b.seq = d.seq /\ b.board = c
      BY <1>2
    <3>1. PICK b \in answers \cup lost : b.seq = d.seq /\ b.board = c
      BY DEF SearchInv, DoneCovered
    <3>2. b # a
      BY <2>2, <3>1
    <3> QED
      BY <1>2, <3>1, <3>2
  <2>4. CASE a.board \in SolvedBoards
    <3> DEFINE kb == [keyBoards EXCEPT ![p.key] = NoBoards]
    <3>1. /\ tiles' = SetBoard(p.key, a.board)
          /\ keyBoards' = EnqueueIncomplete(kb, tiles')
      BY <1>5, <2>4 DEF Solved
    <3>2. /\ kb \in BoardCounts
          /\ \A j \in Keys, c \in Boards :
                kb[j][c] = IF j = p.key THEN 0 ELSE keyBoards[j][c]
      BY <1>1, <2>1 DEF BoardCounts, Structure, NoBoards
    <3> HIDE DEF kb
    <3>3. a.board \in Solutions(p.board)
      BY <2>1, <2>4 DEF Solutions
    <3>4. \A j \in Keys, c \in Boards :
             kb[j][c] > 0 => \/ c \in Live(j)
                             \/ /\ c \notin SolvedBoards
                                /\ \E o \in Live(j) : c \in Below[o]
      BY <3>2 DEF Live
    <3>5. \A j \in Keys, c \in Boards :
             j # p.key /\ keyBoards[j][c] > 0 => kb[j][c] > 0
      BY <3>2
    <3>6. tiles'[p.key] # Unsolved
      BY <1>1, <2>1, <2>4, <3>1, SetBoardPoints, BoardAssumption DEF Structure
    <3>7. \A d \in done', q \in pending' : d.seq = q.seq =>
             \A c \in Alternatives[q.board] :
                \/ \E b \in answers' \cup lost' : b.seq = d.seq /\ b.board = c
                \/ tiles'[q.key] # Unsolved
                \/ tiles[q.key] # Unsolved
                \/ Covers(q.key, c)
      BY <2>3, <3>6
    <3>8. pending' \subseteq pending /\ \A q \in pending : q.key # p.key => q \in pending'
      BY <1>2
    <3> QED
      BY <1>2, <2>4, <3>1, <3>2, <3>3, <3>4, <3>5, <3>7, <3>8, SolvedSearch
  <2>5. CASE a.board \notin SolvedBoards
    <3>1. keyBoards' = AddBoard(keyBoards, p.key, a.board) /\ UNCHANGED tiles
      BY <1>5, <2>5 DEF Candidate
    <3>2. \A j \in Keys, c \in Boards :
             keyBoards'[j][c] > 0 <=> keyBoards[j][c] > 0 \/ (j = p.key /\ c = a.board)
      BY <1>1, <2>1, <3>1, AddBoardPoints DEF Structure
    <3>3. \A j \in Keys : \A c :
             c \in Live(j)' <=> c \in Live(j) \/ (j = p.key /\ c = a.board)
      <4> SUFFICES ASSUME NEW j \in Keys, NEW c
                   PROVE  c \in Live(j)' <=> c \in Live(j) \/ (j = p.key /\ c = a.board)
        OBVIOUS
      <4>1. c \in Live(j)' <=> \/ c \in Boards /\ keyBoards'[j][c] > 0
                               \/ \E q \in pending : q.key = j /\ q.board = c
        BY <1>2 DEF Live
      <4> QED
        BY <2>1, <3>2, <4>1, LivePoints
    <3>4. Covers(p.key, a.board)'
      BY <2>1, <3>3, BelowFacts DEF Covers, Solutions, Found
    <3>5. \A j \in Keys : tiles[j] # Unsolved => tiles'[j] = tiles[j]
      BY <3>1
    <3>6. \A j \in Keys : tiles'[j] = Unsolved =>
             \A c \in Live(j) : \/ c \in Live(j)'
                               \/ /\ c \notin SolvedBoards
                                  /\ \A e \in Alternatives[c] : Covers(j, e)'
      BY <3>3
    <3>7. \A j \in Keys :
             tiles'[j] = Unsolved /\ Startable(j, tiles') /\ ~Startable(j, tiles) =>
                StartOf(j, tiles') \in Live(j)'
      BY <3>1 DEF Startable
    <3>8. \A j \in Keys : \A c \in Live(j)' :
             \/ c \in Live(j)
             \/ c \notin SolvedBoards /\ \E o \in Live(j) : c \in Below[o]
             \/ Startable(j, tiles') /\ c = StartOf(j, tiles')
      BY <2>1, <2>5, <3>3
    <3>9. \A j \in Keys : \/ tiles'[j] = tiles[j]
                          \/ \E o \in Live(j) : tiles'[j] \in Solutions(o)
      BY <3>1
    <3>10. \A d \in done', q \in pending' : d.seq = q.seq =>
              \A c \in Alternatives[q.board] :
                 \/ \E b \in answers' \cup lost' : b.seq = d.seq /\ b.board = c
                 \/ tiles'[q.key] # Unsolved
                 \/ Covers(q.key, c)'
                 \/ tiles[q.key] # Unsolved
                 \/ Covers(q.key, c)
      BY <2>3, <3>4
    <3>11. \A q \in pending' : q.key \in Keys /\ q.board \in Boards
      BY <1>1, <1>2 DEF Structure, Pending
    <3>12. tiles' \in TileBoards
      BY <1>1, <3>1 DEF Structure
    <3> QED
      BY <1>1, <1>2, <3>5, <3>6, <3>7, <3>8, <3>9, <3>10, <3>11, <3>12, SearchStep
  <2> QED
    BY <2>4, <2>5
<1> QED
  BY <1>3, <1>4, <1>5 DEF HandleResponse

(* A board that is late is replaced by its alternatives.                   *)
LEMMA LateSearch ==
    ASSUME TypeOK, SearchInv, Origin, NEW p \in pending, TooLate(p)
    PROVE  SearchInv' /\ Origin'
<1>1. Structure /\ Numbered
  BY TypeHalves
<1>2. /\ pending' = pending \ {p}
      /\ Expand(p)
      /\ UNCHANGED <<queries, answers, done, backlog, lost, strayed>>
  BY DEF TooLate, busVars, helperVars, historyVars
<1>3. /\ p.key \in Keys /\ p.board \in Boards /\ p.board \in Live(p.key)
      /\ Alternatives[p.board] \subseteq Boards
      /\ Alternatives[p.board] \subseteq Below[p.board]
  BY <1>1, PendingLive, BelowFacts
<1>4. keyBoards \in BoardCounts /\ tiles \in TileBoards
  BY <1>1 DEF Structure
<1>5. Origin'
  BY <1>2 DEF Origin
<1>6. \A d \in done', q \in pending' : d.seq = q.seq =>
         \A c \in Alternatives[q.board] :
            \/ \E a \in answers' \cup lost' : a.seq = d.seq /\ a.board = c
            \/ tiles[q.key] # Unsolved
            \/ Covers(q.key, c)
  BY <1>2 DEF SearchInv, DoneCovered
<1> DEFINE alts == Alternatives[p.board]
           more == [keyBoards EXCEPT ![p.key] =
                       [b \in Boards |->
                           IF b \in alts \ SolvedBoards THEN @[b] + 1 ELSE @[b]]]
<1>7. /\ more \in BoardCounts
      /\ \A j \in Keys, c \in Boards :
            more[j][c] > 0 <=> \/ keyBoards[j][c] > 0
                               \/ j = p.key /\ c \in alts /\ c \notin SolvedBoards
  <2>1. \A j \in Keys : more[j] =
           IF j = p.key
           THEN [b \in Boards |-> IF b \in alts \ SolvedBoards THEN keyBoards[j][b] + 1
                                                               ELSE keyBoards[j][b]]
           ELSE keyBoards[j]
    BY <1>3, <1>4 DEF BoardCounts
  <2>2. more \in BoardCounts
    BY <1>3, <1>4 DEF BoardCounts
  <2>3. \A j \in Keys, c \in Boards : keyBoards[j][c] \in Nat
    BY <1>4 DEF BoardCounts
  <2> HIDE DEF more, alts
  <2>4. \A j \in Keys, c \in Boards :
           more[j][c] = IF j = p.key /\ c \in alts /\ c \notin SolvedBoards
                        THEN keyBoards[j][c] + 1 ELSE keyBoards[j][c]
    BY <2>1
  <2> QED
    BY <2>2, <2>3, <2>4
<1>8. \/ tiles[p.key] # Unsolved /\ UNCHANGED <<keyBoards, tiles>>
      \/ alts \cap SolvedBoards = {} /\ keyBoards' = more /\ UNCHANGED tiles
      \/ \E s \in alts \cap SolvedBoards :
            tiles' = SetBoard(p.key, s) /\ keyBoards' = EnqueueIncomplete(more, tiles')
  BY <1>2 DEF Expand
<1> HIDE DEF more
<1>9. CASE \E s \in alts \cap SolvedBoards :
              tiles' = SetBoard(p.key, s) /\ keyBoards' = EnqueueIncomplete(more, tiles')
  <2> PICK s \in alts \cap SolvedBoards :
              tiles' = SetBoard(p.key, s) /\ keyBoards' = EnqueueIncomplete(more, tiles')
    BY <1>9
  <2>1. s \in SolvedBoards /\ s \in Solutions(p.board)
    BY <1>3 DEF Solutions
  <2>2. \A j \in Keys, c \in Boards :
           more[j][c] > 0 => \/ c \in Live(j)
                             \/ /\ c \notin SolvedBoards
                                /\ \E o \in Live(j) : c \in Below[o]
    BY <1>3, <1>7, LivePoints
  <2>3. \A j \in Keys, c \in Boards :
           j # p.key /\ keyBoards[j][c] > 0 => more[j][c] > 0
    BY <1>7
  <2>4. pending' \subseteq pending /\ \A q \in pending : q.key # p.key => q \in pending'
    BY <1>2
  <2>5. \A d \in done', q \in pending' : d.seq = q.seq =>
           \A c \in Alternatives[q.board] :
              \/ \E a \in answers' \cup lost' : a.seq = d.seq /\ a.board = c
              \/ tiles'[q.key] # Unsolved
              \/ tiles[q.key] # Unsolved
              \/ Covers(q.key, c)
    BY <1>6
  <2>6. more \in BoardCounts
    BY <1>7
  <2>7. SearchInv'
    BY <1>2, <2>1, <2>2, <2>3, <2>4, <2>5, <2>6, SolvedSearch
  <2> QED
    BY <1>5, <2>7
<1>10. CASE /\ UNCHANGED tiles
            /\ \/ tiles[p.key] # Unsolved /\ UNCHANGED keyBoards
               \/ alts \cap SolvedBoards = {} /\ keyBoards' = more
  <2>1. \A j \in Keys, c \in Boards :
           /\ keyBoards[j][c] > 0 => keyBoards'[j][c] > 0
           /\ keyBoards'[j][c] > 0 => \/ keyBoards[j][c] > 0
                                      \/ j = p.key /\ c \in alts /\ c \notin SolvedBoards
           /\ j = p.key /\ c \in alts /\ tiles[j] = Unsolved => keyBoards'[j][c] > 0
    BY <1>7, <1>10
  <2>2. \A j \in Keys : \A c \in Live(j)' :
           \/ c \in Live(j)
           \/ j = p.key /\ c \in alts /\ c \notin SolvedBoards
    BY <1>2, <2>1 DEF Live
  <2>3. \A j \in Keys : \A c \in Live(j) :
           c \in Live(j)' \/ (j = p.key /\ c = p.board)
    <3> SUFFICES ASSUME NEW j \in Keys, NEW c \in Live(j)
                 PROVE  c \in Live(j)' \/ (j = p.key /\ c = p.board)
      OBVIOUS
    <3>1. \/ c \in Boards /\ keyBoards[j][c] > 0
          \/ \E q \in pending : q.key = j /\ q.board = c
      BY LivePoints
    <3>2. CASE c \in Boards /\ keyBoards[j][c] > 0
      BY <2>1, <3>2 DEF Live
    <3>3. CASE \E q \in pending : q.key = j /\ q.board = c
      BY <1>2, <3>3 DEF Live
    <3> QED
      BY <3>1, <3>2, <3>3
  <2>4. \A e \in alts : tiles[p.key] = Unsolved => Covers(p.key, e)'
    <3> SUFFICES ASSUME NEW e \in alts, tiles[p.key] = Unsolved
                 PROVE  Covers(p.key, e)'
      OBVIOUS
    <3>1. e \in Boards /\ e \in Live(p.key)'
      BY <1>3, <2>1 DEF Live
    <3> QED
      BY <3>1, BelowFacts DEF Covers, Solutions, Found
  <2>5. \A j \in Keys : tiles[j] # Unsolved => tiles'[j] = tiles[j]
    BY <1>10
  <2>6. \A j \in Keys : tiles'[j] = Unsolved =>
           \A c \in Live(j) : \/ c \in Live(j)'
                             \/ /\ c \notin SolvedBoards
                                /\ \A e \in Alternatives[c] : Covers(j, e)'
    <3> SUFFICES ASSUME NEW j \in Keys, tiles'[j] = Unsolved, NEW c \in Live(j),
                        c \notin Live(j)'
                 PROVE  c \notin SolvedBoards /\ \A e \in Alternatives[c] : Covers(j, e)'
      OBVIOUS
    <3>1. j = p.key /\ c = p.board /\ tiles[p.key] = Unsolved
      BY <1>10, <2>3
    <3>2. c \notin SolvedBoards
      BY DEF SearchInv, BoardsFit
    <3> QED
      BY <2>4, <3>1, <3>2
  <2>7. \A j \in Keys :
           tiles'[j] = Unsolved /\ Startable(j, tiles') /\ ~Startable(j, tiles) =>
              StartOf(j, tiles') \in Live(j)'
    BY <1>10 DEF Startable
  <2>8. \A j \in Keys : \A c \in Live(j)' :
           \/ c \in Live(j)
           \/ c \notin SolvedBoards /\ \E o \in Live(j) : c \in Below[o]
           \/ Startable(j, tiles') /\ c = StartOf(j, tiles')
    BY <1>3, <2>2
  <2>9. \A j \in Keys : \/ tiles'[j] = tiles[j]
                        \/ \E o \in Live(j) : tiles'[j] \in Solutions(o)
    BY <1>10
  <2>10. \A d \in done', q \in pending' : d.seq = q.seq =>
            \A c \in Alternatives[q.board] :
               \/ \E a \in answers' \cup lost' : a.seq = d.seq /\ a.board = c
               \/ tiles'[q.key] # Unsolved
               \/ Covers(q.key, c)'
               \/ tiles[q.key] # Unsolved
               \/ Covers(q.key, c)
    BY <1>6
  <2>11. \A q \in pending' : q.key \in Keys /\ q.board \in Boards
    BY <1>1, <1>2 DEF Structure, Pending
  <2>12. tiles' \in TileBoards
    BY <1>4, <1>10
  <2>13. SearchInv'
    BY <1>1, <1>2, <2>5, <2>6, <2>7, <2>8, <2>9, <2>10, <2>11, <2>12, SearchStep
  <2> QED
    BY <1>5, <2>13
<1> QED
  BY <1>8, <1>9, <1>10

(* An alternative that is lost is known to be.                             *)
LEMMA LossSearch ==
    ASSUME TypeOK, SearchInv, Origin, NEW hs, Lose(hs),
           UNCHANGED <<keyBoards, pending, tiles>>,
           \A h \in Helpers : backlog'[h] \subseteq backlog[h]
    PROVE  SearchInv' /\ Origin'
<1>1. Structure
  BY TypeHalves
<1>2. /\ queries' \subseteq queries /\ answers' \subseteq answers /\ done' \subseteq done
      /\ answers \cup lost \subseteq answers' \cup lost'
      /\ UNCHANGED strayed
  BY DEF Lose
<1>3. SearchInv'
  BY <1>1, <1>2, SearchUntouched DEF SearchInv, DoneCovered
<1>4. Origin'
  BY <1>2 DEF Origin
<1> QED
  BY <1>3, <1>4

(* A helper answers with all the alternatives of the board that is pending *)
(* before it says that it is done.                                         *)
LEMMA UpdateSearch ==
    ASSUME TypeOK, SearchInv, Origin, NEW h \in Helpers, HelperUpdate(h)
    PROVE  SearchInv' /\ Origin'
<1>1. Structure
  BY TypeHalves
<1>2. UNCHANGED <<keyBoards, pending, tiles, queries, lost, strayed>>
  BY DEF HelperUpdate, historyVars
<1>3. CASE UNCHANGED <<answers, done, backlog>>
  <2>1. SearchInv'
    BY <1>1, <1>2, <1>3, SearchUntouched DEF SearchInv, DoneCovered
  <2>2. Origin'
    BY <1>2, <1>3 DEF Origin
  <2> QED
    BY <2>1, <2>2
<1>4. ASSUME NEW q \in backlog[h],
             backlog' = [backlog EXCEPT ![h] = @ \ {q}],
             answers' = answers \cup
                Passed({[seq |-> q.seq, board |-> c, helper |-> h] :
                           c \in Alternatives[q.board]}),
             done' = done \cup Passed({[seq |-> q.seq, helper |-> h]})
      PROVE  SearchInv' /\ Origin'
  <2>1. \A p \in pending : p.seq = q.seq => p.board = q.board
    BY DEF Origin
  <2>2. \A c \in Alternatives[q.board] :
           attached => \E a \in answers' : a.seq = q.seq /\ a.board = c
    <3> SUFFICES ASSUME NEW c \in Alternatives[q.board], attached
                 PROVE  \E a \in answers' : a.seq = q.seq /\ a.board = c
      OBVIOUS
    <3> DEFINE mine == [seq |-> q.seq, board |-> c, helper |-> h]
    <3>1. mine \in answers' /\ mine.seq = q.seq /\ mine.board = c
      BY <1>4 DEF Passed
    <3> QED
      BY <3>1
  <2>3. answers \subseteq answers'
    BY <1>4
  <2>4. \A d \in done' : d \in done \/ (attached /\ d.seq = q.seq)
    BY <1>4 DEF Passed
  <2>5. \A a \in answers' : a \in answers \/
                            (a.seq = q.seq /\ a.board \in Alternatives[q.board])
    BY <1>4 DEF Passed
  <2>6. \A d \in done', p \in pending : d.seq = p.seq =>
           \A c \in Alternatives[p.board] :
              \/ \E a \in answers' \cup lost' : a.seq = d.seq /\ a.board = c
              \/ tiles[p.key] # Unsolved
              \/ Covers(p.key, c)
    <3> SUFFICES ASSUME NEW d \in done', NEW p \in pending, d.seq = p.seq,
                        NEW c \in Alternatives[p.board]
                 PROVE  \/ \E a \in answers' \cup lost' : a.seq = d.seq /\ a.board = c
                        \/ tiles[p.key] # Unsolved
                        \/ Covers(p.key, c)
      OBVIOUS
    <3>1. CASE d \in done
      BY <1>2, <2>3, <3>1 DEF SearchInv, DoneCovered
    <3>2. CASE attached /\ d.seq = q.seq
      BY <2>1, <2>2, <3>2
    <3> QED
      BY <2>4, <3>1, <3>2
  <2>7. SearchInv'
    BY <1>1, <1>2, <2>6, SearchUntouched
  <2>8. \A g \in Helpers : backlog'[g] \subseteq backlog[g]
    BY <1>1, <1>4 DEF Structure
  <2>9. Origin'
    BY <1>2, <2>1, <2>5, <2>8 DEF Origin
  <2> QED
    BY <2>7, <2>9
<1> QED
  BY <1>3, <1>4 DEF HelperUpdate

(* A helper takes a board from the bus, or drops it.                       *)
LEMMA ReceiveSearch ==
    ASSUME TypeOK, SearchInv, Origin, NEW q \in queries, HelperReceive(q)
    PROVE  SearchInv' /\ Origin'
<1>1. Structure
  BY TypeHalves
<1>2. /\ queries' \subseteq queries
      /\ UNCHANGED <<keyBoards, pending, tiles, answers, done, lost, strayed>>
      /\ backlog' = backlog \/ backlog' = [backlog EXCEPT ![q.helper] = @ \cup {q}]
  BY <1>1, TakePoints DEF HelperReceive, solverVars, Structure
<1>3. \A h \in Helpers : \A r \in backlog'[h] : r \in backlog[h] \/ r = q
  BY <1>1, <1>2 DEF Structure
<1>4. Origin'
  BY <1>2, <1>3 DEF Origin
<1>5. SearchInv'
  BY <1>1, <1>2, SearchUntouched DEF SearchInv, DoneCovered
<1> QED
  BY <1>4, <1>5

(* The invariant of the search is inductive.                               *)
LEMMA StepSearch ==
    TypeOK /\ SearchInv /\ Origin /\ [Next]_vars => SearchInv' /\ Origin'
<1> SUFFICES ASSUME TypeOK, SearchInv, Origin, [Next]_vars
             PROVE  SearchInv' /\ Origin'
  OBVIOUS
<1>0. Structure
  BY TypeHalves
<1>1. ASSUME UNCHANGED <<keyBoards, pending, tiles, queries, answers, done, backlog,
                         lost, strayed>>
      PROVE  SearchInv' /\ Origin'
  <2>1. SearchInv'
    BY <1>0, <1>1, SearchUntouched DEF SearchInv, DoneCovered
  <2>2. Origin'
    BY <1>1 DEF Origin
  <2> QED
    BY <2>1, <2>2
<1>2. CASE Reset
  <2>1. Fresh'
    BY <1>2 DEF Reset, Fresh
  <2>2. SearchInv'
    BY <2>1, FreshSearch, PTL
  <2>3. Origin'
    BY <1>2 DEF Reset, Origin
  <2> QED
    BY <2>2, <2>3
<1>3. CASE \E h \in Helpers : Crash(h)
  <2> PICK h \in Helpers : Crash(h)
    BY <1>3
  <2>1. Lose({h}) /\ UNCHANGED <<keyBoards, pending, tiles>>
    BY DEF Crash, solverVars
  <2>2. \A g \in Helpers : backlog'[g] \subseteq backlog[g]
    BY <1>0 DEF Structure, Crash
  <2> QED
    BY <2>1, <2>2, LossSearch
<1>4. CASE ConnectionLost \/ TooOld
  <2>1. Lose(Helpers) /\ UNCHANGED <<keyBoards, pending, tiles, backlog>>
    BY <1>4 DEF ConnectionLost, TooOld, helperVars, solverVars
  <2> QED
    BY <2>1, LossSearch
<1>5. CASE SearchHelpers
  BY <1>1, <1>5 DEF SearchHelpers, solverVars, busVars, historyVars
<1>6. CASE \E h \in Helpers : Restart(h)
  BY <1>1, <1>6 DEF Restart, solverVars, busVars, historyVars
<1>7. CASE ConnectionEstablished
  BY <1>1, <1>7 DEF ConnectionEstablished, busVars, helperVars, historyVars
<1>8. CASE UNCHANGED vars
  BY <1>1, <1>8 DEF vars, solverVars, busVars, helperVars, historyVars
<1> QED
  BY <1>2, <1>3, <1>4, <1>5, <1>6, <1>7, <1>8, SendSearch, UpdateSearch, ResponseSearch,
     DoneSearch, LateSearch, ReceiveSearch DEF Next

(* ... and holds in every state.                                           *)
LEMMA InvCorrect == Spec => [](SearchInv /\ Origin)
<1>1. Init => SearchInv /\ Origin
  <2>1. Init => Fresh /\ Origin
    BY DEF Init, Fresh, Origin
  <2> QED
    BY <2>1, FreshSearch
<1>2. TypeOK /\ SearchInv /\ Origin /\ [Next]_vars => (SearchInv /\ Origin)'
  BY StepSearch
<1> QED
  BY <1>1, <1>2, TypeCorrect, PTL DEF Spec

(* No branch of a search is lost, for any boards and any faults, but those *)
(* below the alternatives that missed the end of their query: as long as a *)
(* tile is unsolved, a board from which each of its other solutions can be *)
(* found is with the solver.                                               *)
THEOREM BranchesCorrect == Spec => []NoBranchLost
<1>1. SearchInv => NoBranchLost
  BY DEF SearchInv, StartCovered, Covers, Found, NoBranchLost
<1> QED
  BY <1>1, InvCorrect, PTL

(* Neighbouring tiles fit, whatever is answered late or twice.             *)
THEOREM TilesCorrect == Spec => []TilesFit
<1>1. SearchInv => TilesFit
  BY DEF SearchInv
<1> QED
  BY <1>1, InvCorrect, PTL
=============================================================================
