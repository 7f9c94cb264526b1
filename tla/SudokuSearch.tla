---------------------------- MODULE SudokuSearch ----------------------------
(***************************************************************************)
(* The distributed search of message_bus/service/sudoku.hpp.  A solver     *)
(* sends boards to helpers that it found by a broadcast.  A helper answers *)
(* with the alternatives of one cell of the board, one message each, and   *)
(* then says that it is done; unsolved alternatives become boards to send. *)
(* A board whose helper is silent for too long is expanded by the solver   *)
(* itself.  On top of it, sudoku_tiling solves a field of tiles, each of   *)
(* which starts from the edges of its solved neighbours.                   *)
(*                                                                         *)
(* A board is an abstract value: what matters of it is which alternatives  *)
(* for_each_alternative(find_unsolved()) generates.  The solver is one     *)
(* thread that updates and handles messages; a helper is another program.  *)
(* Time is abstracted: a timeout may expire whenever it runs.  The steps   *)
(* named Dev_X are plausible mistakes in X, not part of the model.         *)
(***************************************************************************)
EXTENDS Naturals, FiniteSets

CONSTANTS Boards, SolvedBoards,
          Alternatives,   \* [Boards -> SUBSET Boards]
          Below,          \* the boards that the search can reach from a board
          Keys,           \* the coordinates of the tiles
          First,          \* the tile that the tiling begins with
          Needs,          \* the neighbours from which a tile is started
          Start,          \* the board that it starts with, given theirs
          Unsolved,       \* no board: a tile that is not solved yet
          Helpers,
          Ordered,        \* TRUE if a helper's messages stay in their order
          BacklogMax,     \* 8: a helper with more boards drops what comes
          AliveBelow,     \* 6: one with fewer boards answers a search
          MaxUnderWay,    \* bound: queries on the bus or with helpers
          MaxFaults       \* bound: crashes, losses, second copies, resets

ASSUME BoardAssumption ==
    /\ SolvedBoards \subseteq Boards
    /\ Unsolved \notin Boards
    /\ Alternatives \in [Boards -> SUBSET Boards]
    /\ Below \in [Boards -> SUBSET Boards]
    /\ \A b \in Boards :
          /\ Below[b] = {b} \cup UNION {Below[c] : c \in Alternatives[b]}
          /\ \A c \in Below[b] : Below[c] \subseteq Below[b]
          /\ \A c \in Alternatives[b] : b \notin Below[c]
          /\ b \in SolvedBoards => Alternatives[b] = {}

(* Every tile but the first has neighbours to start from, and no tile is   *)
(* determined completely by its neighbours.                                *)
ASSUME TilingAssumption ==
    /\ First \in Keys
    /\ Needs \in [Keys -> SUBSET Keys]
    /\ \A k \in Keys : Needs[k] = {} <=> k = First
    /\ Start \in [Keys -> [SUBSET SolvedBoards -> Boards \ SolvedBoards]]

ASSUME HelperAssumption ==
    /\ Ordered \in BOOLEAN
    /\ BacklogMax \in Nat /\ AliveBelow \in Nat
    /\ MaxUnderWay \in Nat \ {0} /\ MaxFaults \in Nat

(* The solutions that the search can find from a board.                    *)
Solutions(b) == Below[b] \cap SolvedBoards

VARIABLES
    canWork,     \* _can_work: the solver is connected
    attached,    \* the router passes on what is from or for the solver
    keyBoards,   \* per key and board: how often the board is in key_boards
    pending,     \* the boards sent to helpers that are not done
    sequence,    \* query_sequence
    ready,       \* ready_helpers
    tiles,       \* _boards of the tiling, by key
    queries,     \* boards on their way to helpers
    answers,     \* alternatives on their way to the solver
    done,        \* "done" messages on their way to the solver
    running,     \* helpers that run
    searched,    \* helpers with a search to answer
    backlog,     \* per helper: its boards
    faults,      \* history: the crashes, losses, second copies, resets
    lost,        \* history: alternatives that the bus lost
    strayed      \* history: those among them whose query was done

solverVars == <<canWork, attached, keyBoards, pending, sequence, ready, tiles>>
busVars == <<queries, answers, done>>
helperVars == <<running, searched, backlog>>
historyVars == <<faults, lost, strayed>>
vars == <<solverVars, busVars, helperVars, historyVars>>

Query == [seq : Nat, board : Boards, helper : Helpers]
Pending == [seq : Nat, key : Keys, board : Boards, helper : Helpers]
Done == [seq : Nat, helper : Helpers]
Stray == [key : Keys, board : Boards]

NoBoards == [b \in Boards |-> 0]
OneBoard(b) == [c \in Boards |-> IF c = b THEN 1 ELSE 0]

(* sudoku_tiling::do_enqueue: a tile whose neighbours are solved starts    *)
(* with their edges.                                                       *)
Startable(k, t) == \A n \in Needs[k] : t[n] # Unsolved
StartOf(k, t) == Start[k][{t[n] : n \in Needs[k]}]

FirstOnly == [k \in Keys |-> IF k = First THEN OneBoard(Start[First][{}]) ELSE NoBoards]
NoTiles == [k \in Keys |-> Unsolved]

Init == /\ canWork = FALSE
        /\ attached = TRUE
        /\ keyBoards = FirstOnly
        /\ pending = {}
        /\ sequence = 0
        /\ ready = {}
        /\ tiles = NoTiles
        /\ queries = {} /\ answers = {} /\ done = {}
        /\ running = Helpers
        /\ searched = {}
        /\ backlog = [h \in Helpers |-> {}]
        /\ faults = 0
        /\ lost = {} /\ strayed = {}
-----------------------------------------------------------------------------
(* The solver and the tiling.                                              *)

HasEnqueued(k, kb, ps) == \/ \E b \in Boards : kb[k][b] > 0
                          \/ \E p \in ps : p.key = k

(* add_board                                                               *)
AddBoard(kb, k, b) == [kb EXCEPT ![k][b] = @ + 1]

(* sudoku_tiles::set_board: the first solution of a tile stays.            *)
Dev_SetBoard(k, s) == [tiles EXCEPT ![k] = s]
SetBoard(k, s) == [tiles EXCEPT ![k] = IF @ = Unsolved THEN s ELSE @]

(* enqueue_incomplete: start the tiles that can be started and are not     *)
(* being solved.                                                           *)
EnqueueIncomplete(kb, t) ==
    [k \in Keys |->
        IF /\ t[k] = Unsolved
           /\ k # First
           /\ ~HasEnqueued(k, kb, pending)
           /\ Startable(k, t)
        THEN [kb[k] EXCEPT ![StartOf(k, t)] = @ + 1]
        ELSE kb[k]]

Fault == /\ faults < MaxFaults
         /\ faults' = faults + 1

(* The router passes messages on only for an endpoint that it adopted.     *)
Passed(ms) == IF attached THEN ms ELSE {}

(* A message that arrives is no longer on the bus; as a fault a copy of it *)
(* is, when a connection broke before it was known to be sent.             *)
Take(m, ms, left) == \/ /\ left = ms \ {m}
                        /\ UNCHANGED faults
                     \/ /\ left = ms
                        /\ Fault

(* The numbers of the queries whose messages are under way.                *)
UnderWay == {m.seq : m \in queries \cup answers \cup done
                              \cup UNION {backlog[h] : h \in Helpers}}

(* send_board_to a helper that find_helpers found usable.  The key follows *)
(* from the number of the query and the board is drawn at random: here any *)
(* board of any key, to any helper that is ready, whenever it was used.    *)
SendBoard(h) ==
    /\ canWork
    /\ h \in ready
    /\ Cardinality(UnderWay) < MaxUnderWay
    /\ \E k \in Keys, b \in Boards :
          /\ keyBoards[k][b] > 0
          /\ keyBoards' = [keyBoards EXCEPT ![k][b] = @ - 1]
          /\ pending' = pending \cup
                {[seq |-> sequence, key |-> k, board |-> b, helper |-> h]}
          /\ queries' = queries \cup
                Passed({[seq |-> sequence, board |-> b, helper |-> h]})
    /\ sequence' = sequence + 1
    /\ ready' = ready \ {h}
    /\ UNCHANGED <<canWork, attached, tiles, answers, done, helperVars, historyVars>>

(* search_helpers broadcasts when its timeout expired.                     *)
SearchHelpers == /\ canWork
                 /\ searched' = searched \cup Passed(running)
                 /\ UNCHANGED <<solverVars, busVars, running, backlog, historyVars>>

(* handle_response: an alternative counts only while its query is pending. *)
(* A solved one erases the boards of its key, but not what is pending.     *)
Candidate(p, b) == /\ keyBoards' = AddBoard(keyBoards, p.key, b)
                   /\ UNCHANGED tiles

Solved(p, b) ==
    /\ tiles' = SetBoard(p.key, b)
    /\ keyBoards' = EnqueueIncomplete([keyBoards EXCEPT ![p.key] = NoBoards], tiles')

HandleResponse(a) ==
    /\ a \in answers
    /\ Take(a, answers, answers')
    /\ \/ /\ \A p \in pending : p.seq # a.seq
          /\ UNCHANGED <<keyBoards, tiles>>
       \/ \E p \in pending :
             /\ p.seq = a.seq
             /\ IF a.board \in SolvedBoards THEN Solved(p, a.board)
                                            ELSE Candidate(p, a.board)
    /\ UNCHANGED <<canWork, attached, pending, sequence, ready, queries, done,
                   helperVars, lost, strayed>>

(* pending_done.  The queue of "done" messages is the last that a          *)
(* subscriber processes.  If connections keep the order, as those inside a *)
(* process do, all the alternatives sent before a "done" were handled when *)
(* it is.  In the blocks of a network connection, where a small message    *)
(* may overtake a bigger one (StreamConnection), it may come before them.  *)
(* What does not come at all, or too late, is a branch that nobody         *)
(* searches: the board that it is an alternative of is erased.             *)
Dev_LastOf(d) == TRUE
LastOf(d) == Ordered => \A a \in answers : a.seq # d.seq

Missed == lost \cup IF Ordered THEN {} ELSE answers

PendingDone(d) ==
    /\ d \in done
    /\ LastOf(d)
    /\ Take(d, done, done')
    /\ LET found == {p \in pending : p.seq = d.seq}
       IN  /\ pending' = pending \ found
           /\ ready' = ready \cup {p.helper : p \in found}
           /\ strayed' = strayed \cup
                 {[key |-> p.key, board |-> a.board] :
                     p \in found, a \in {b \in Missed : b.seq = d.seq}}
    /\ UNCHANGED <<canWork, attached, keyBoards, sequence, tiles, queries, answers,
                   helperVars, lost>>

(* handle_timeouted: the solver itself generates the alternatives of a     *)
(* board that is late; solved ones do not erase anything here.             *)
Dev_Expand(p) == UNCHANGED <<keyBoards, tiles>>
Expand(p) ==
    LET alts == Alternatives[p.board]
        more == [keyBoards EXCEPT ![p.key] =
                    [b \in Boards |->
                        IF b \in alts \ SolvedBoards THEN @[b] + 1 ELSE @[b]]]
    IN  IF tiles[p.key] # Unsolved THEN UNCHANGED <<keyBoards, tiles>>
        ELSE IF alts \cap SolvedBoards = {}
        THEN /\ keyBoards' = more
             /\ UNCHANGED tiles
        ELSE \E s \in alts \cap SolvedBoards :
                /\ tiles' = SetBoard(p.key, s)
                /\ keyBoards' = EnqueueIncomplete(more, tiles')

Dev_TooLate(p) ==
    /\ p \in pending
    /\ tiles[p.key] = Unsolved
    /\ pending' = pending \ {p}
    /\ Expand(p)
    /\ UNCHANGED <<canWork, attached, sequence, ready, busVars, helperVars,
                   historyVars>>
TooLate(p) ==
    /\ p \in pending
    /\ pending' = pending \ {p}
    /\ Expand(p)
    /\ UNCHANGED <<canWork, attached, sequence, ready, busVars, helperVars,
                   historyVars>>

(* reinitialize when the solution timed out: what was sent is forgotten,   *)
(* and its answers find that their number is not pending.                  *)
SequenceAfterReset == sequence

Reset == /\ Fault
         /\ keyBoards' = FirstOnly
         /\ pending' = {}
         /\ tiles' = NoTiles
         /\ sequence' = SequenceAfterReset
         /\ lost' = {} /\ strayed' = {}
         /\ UNCHANGED <<canWork, attached, ready, busVars, helperVars>>
-----------------------------------------------------------------------------
(* The helpers.                                                            *)

(* rank_info::add_board                                                    *)
HelperReceive(q) ==
    LET h == q.helper
    IN  /\ q \in queries
        /\ Take(q, queries, queries')
        /\ IF h \in running /\ Cardinality(backlog[h]) <= BacklogMax
           THEN /\ searched' = searched \cup {h}
                /\ backlog' = [backlog EXCEPT ![h] = @ \cup {q}]
           ELSE UNCHANGED <<searched, backlog>>
        /\ UNCHANGED <<solverVars, answers, done, running, lost, strayed>>

(* rank_info::update: answer the searches, then process the last board.    *)
HelperUpdate(h) ==
    /\ h \in searched \/ backlog[h] # {}
    /\ searched' = searched \ {h}
    /\ ready' = IF h \in searched /\ Cardinality(backlog[h]) < AliveBelow
                THEN ready \cup Passed({h}) ELSE ready
    /\ \/ /\ backlog[h] = {}
          /\ UNCHANGED <<answers, done, backlog>>
       \/ \E q \in backlog[h] :
             /\ backlog' = [backlog EXCEPT ![h] = @ \ {q}]
             /\ answers' = answers \cup
                   Passed({[seq |-> q.seq, board |-> c, helper |-> h] :
                              c \in Alternatives[q.board]})
             /\ done' = done \cup Passed({[seq |-> q.seq, helper |-> h]})
    /\ UNCHANGED <<canWork, attached, keyBoards, pending, sequence, tiles, queries,
                   running, historyVars>>
-----------------------------------------------------------------------------
(* What can go wrong.  Any messages on the bus are lost, each on its own:  *)
(* with a connection that breaks, or because a router finds them too old.  *)
Lose(hs) ==
    /\ \E missed \in SUBSET {a \in answers : a.helper \in hs} :
          /\ answers' = answers \ missed
          /\ lost' = lost \cup missed
    /\ \E end \in SUBSET {d \in done : d.helper \in hs} : done' = done \ end
    /\ \E missed \in SUBSET {q \in queries : q.helper \in hs} :
          queries' = queries \ missed
    /\ UNCHANGED strayed

TooOld == /\ queries \cup answers \cup done # {}
          /\ Fault
          /\ Lose(Helpers)
          /\ UNCHANGED <<solverVars, helperVars>>

(* A helper ends.  That its connection breaks is the same for the solver:  *)
(* no router passes on a message of it until its program starts again.     *)
Crash(h) == /\ h \in running
            /\ Fault
            /\ Lose({h})
            /\ running' = running \ {h}
            /\ searched' = searched \ {h}
            /\ backlog' = [backlog EXCEPT ![h] = {}]
            /\ UNCHANGED solverVars

(* A helper program is started again.                                      *)
Restart(h) == /\ h \notin running
              /\ running' = running \cup {h}
              /\ UNCHANGED <<solverVars, busVars, searched, backlog, historyVars>>

(* on_connection_lost: a send failed.                                      *)
ConnectionLost == /\ canWork
                  /\ Fault
                  /\ canWork' = FALSE
                  /\ attached' = FALSE
                  /\ Lose(Helpers)
                  /\ UNCHANGED <<keyBoards, pending, sequence, ready, tiles,
                                 helperVars>>

(* on_connection_established: later one works again.  The solver does, but *)
(* its endpoint, which has its id, does not announce it another time, so   *)
(* that the router does not adopt the new connection.                      *)
ConnectionEstablished == /\ ~canWork
                         /\ canWork' = TRUE
                         /\ UNCHANGED <<attached, keyBoards, pending, sequence,
                                        ready, tiles, busVars, helperVars,
                                        historyVars>>

Next == \/ \E h \in Helpers : \/ SendBoard(h)
                              \/ HelperUpdate(h)
                              \/ Crash(h)
                              \/ Restart(h)
        \/ SearchHelpers
        \/ \E a \in answers : HandleResponse(a)
        \/ \E d \in done : PendingDone(d)
        \/ \E p \in pending : TooLate(p)
        \/ \E q \in queries : HelperReceive(q)
        \/ Reset
        \/ TooOld
        \/ ConnectionLost
        \/ ConnectionEstablished

Spec == Init /\ [][Next]_vars

(* Solver and helpers go on updating: timeouts expire and what arrives is  *)
(* handled.  The solver can send again and again, not always, therefore    *)
(* strong fairness of that.  Nothing makes a helper start again.           *)
Fairness == /\ SF_vars(SearchHelpers)
            /\ \A h \in Helpers : /\ SF_vars(SendBoard(h))
                                  /\ SF_vars(HelperUpdate(h))
            /\ WF_vars(\E a \in answers : HandleResponse(a))
            /\ WF_vars(\E d \in done : PendingDone(d))
            /\ WF_vars(\E p \in pending : TooLate(p))
            /\ WF_vars(\E q \in queries : HelperReceive(q))
            /\ WF_vars(ConnectionEstablished)

FairSpec == Spec /\ Fairness
-----------------------------------------------------------------------------
(* All variables have their types; every board that is pending, and every  *)
(* message, has the number of a query that was sent, and no two boards     *)
(* that are pending have the same.                                         *)
TypeOK == /\ canWork \in BOOLEAN /\ attached \in BOOLEAN
          /\ keyBoards \in [Keys -> [Boards -> Nat]]
          /\ pending \subseteq Pending
          /\ sequence \in Nat
          /\ ready \subseteq Helpers
          /\ tiles \in [Keys -> SolvedBoards \cup {Unsolved}]
          /\ queries \subseteq Query /\ answers \subseteq Query /\ done \subseteq Done
          /\ running \subseteq Helpers /\ searched \subseteq Helpers
          /\ backlog \in [Helpers -> SUBSET Query]
          /\ faults \in Nat /\ lost \subseteq Query /\ strayed \subseteq Stray
          /\ \A n \in UnderWay \cup {p.seq : p \in pending} : n < sequence
          /\ \A p, q \in pending : p.seq = q.seq => p = q

Live(k) == {b \in Boards : keyBoards[k][b] > 0}
              \cup {p.board : p \in {q \in pending : q.key = k}}

(* What the bus took from the search of a tile.                            *)
StrayedFrom(k) == {x.board : x \in {y \in strayed : y.key = k}}

(* Until a tile is solved, every solution that the search started with can *)
(* still be reached from a board that waits or is with a helper, whatever  *)
(* was answered, repeated or late.  The exception is below an alternative  *)
(* that did not come before the "done" of its query did: because it was    *)
(* lost, or, if connections do not keep the order, overtaken.              *)
NoBranchLost ==
    \A k \in Keys :
        (tiles[k] = Unsolved /\ Startable(k, tiles)) =>
            \A s \in Solutions(StartOf(k, tiles)) :
                \E b \in Live(k) \cup StrayedFrom(k) : s \in Solutions(b)

(* Every tile is a solution of the board that its neighbours started, as   *)
(* they are now: neither a second solution of a tile, nor a late answer to *)
(* a search that was given up, makes neighbours that do not fit.           *)
TilesFit ==
    \A k \in Keys :
        tiles[k] # Unsolved =>
            Startable(k, tiles) /\ tiles[k] \in Solutions(StartOf(k, tiles))

HasWork == \E k \in Keys : Live(k) # {}

(* No helper gets a board any more: none runs, or the router does not pass *)
(* on what the solver sends.                                               *)
Unreached == ~attached \/ running = {}

(* The search ends: alternatives that arrive twice, once from a helper and *)
(* once because it was late, do not multiply without end.  Boards may wait *)
(* for ever, though, once no helper can be reached.                        *)
EventuallyIdle == <>[](Unreached \/ ~HasWork)

(* A tile that can be solved does not stay unsolved while a helper can be  *)
(* reached, whatever is late, repeated or lost, unless what was lost was a *)
(* branch of its search.                                                   *)
EventuallyTiled ==
    \A k \in Keys : []<>~(/\ tiles[k] = Unsolved
                          /\ Startable(k, tiles)
                          /\ Solutions(StartOf(k, tiles)) # {}
                          /\ StrayedFrom(k) = {}
                          /\ ~Unreached)
=============================================================================
