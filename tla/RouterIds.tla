------------------------------ MODULE RouterIds ------------------------------
(***************************************************************************)
(* How the nodes of the message bus get their ids.  A router               *)
(* (message_bus/router.inl) accepts connections, keeps them pending until  *)
(* it knows the id of the other side, and then adopts them as nodes.  An   *)
(* endpoint (message_bus/endpoint.inl) without a preconfigured id requests *)
(* one and announces what it was assigned; one with a preconfigured id,    *)
(* and a subordinate router, announce their own until it is confirmed.     *)
(*                                                                         *)
(* The router is one thread that repeats router::update(): maintenance,    *)
(* then rounds of do_work(), which goes over the pending connections,      *)
(* accepts new ones and fetches from the nodes.  An action is what it does *)
(* to one connection; the endpoints run in between.  Of the messages only  *)
(* those that the protocol of the ids is made of are there; the routing    *)
(* tables, which no id depends on, are in RouterRouting.                   *)
(*                                                                         *)
(* Definitions named Dev_X are not part of the model: each is a deviation  *)
(* of the definition X that follows it, made as a plausible mistake in the *)
(* code would make it, with which one of the properties must fail.         *)
(***************************************************************************)
EXTENDS Integers, Sequences, FiniteSets

CONSTANTS Conns,        \* connections, one for each run of a bus node
          Kind,         \* [Conns -> {"dynamic", "preconf", "router"}]
          OwnId,        \* [Conns -> Nat], the preconfigured or router id
          Replaces,     \* [Conns -> Conns]: c is opened after the run
                        \*   Replaces[c] ended (no such run if c itself)
          IdBase,       \* _id_base
          IdCount,      \* "msg_bus.router.id_count"
          MaxAsks,      \* bound, [Conns -> Nat]: how often the id timeout of a
                        \*   node expires
          MaxByes,      \* bound: bye-byes of its own nodes that a subordinate
                        \*   router has under way
          PendingTimeout \* TRUE if pending connections may time out

IdEnd == IdBase + IdCount

ASSUME IdAssumption ==
    /\ Kind \in [Conns -> {"dynamic", "preconf", "router"}]
    /\ OwnId \in [Conns -> Nat]
    /\ Replaces \in [Conns -> Conns]
    /\ \A c \in Conns : Kind[c] # "dynamic" => OwnId[c] > 0
    /\ IdBase \in Nat \ {0}
    /\ IdCount \in Nat /\ IdCount >= 2
    /\ MaxAsks \in [Conns -> Nat]
    /\ MaxByes \in Nat
    /\ PendingTimeout \in BOOLEAN

None == 0               \* the invalid id

VARIABLES
    link,      \* per connection: "new", "open", or "closed" by its client
    ownid,     \* per connection: _endpoint_id (confirmed_id of a router)
    asks,      \* per connection: how often the id timeout expired
    up, down,  \* per connection: messages to and from the router
    accepted,  \* connections waiting in the acceptors
    pending,   \* router::_pending
    nodes,     \* router::_nodes
    sequence,  \* router::_id_sequence
    step,      \* what the router thread does next
    idx,       \* position of _handle_pending in _pending
    guess,     \* its local variable maybe_router
    orig,      \* seq_orig, a local variable of _assign_id
    unread     \* ids of the nodes _route_messages has not fetched from yet

nodeVars == <<link, ownid, asks>>
tables == <<accepted, pending, nodes>>
control == <<step, idx, guess, unread>>
vars == <<nodeVars, up, down, tables, sequence, orig, control>>

Msg(k, i) == [kind |-> k, id |-> i]
Bye == Msg("byeBye", None)    \* whose bye-bye it is makes no difference here

NodeState == [conn : Conns, maybeRouter : BOOLEAN, doDisconnect : BOOLEAN]

Init == /\ link = [c \in Conns |-> "new"]
        /\ ownid = [c \in Conns |-> None]
        /\ asks = [c \in Conns |-> 0]
        /\ up = [c \in Conns |-> <<>>]
        /\ down = [c \in Conns |-> <<>>]
        /\ accepted = <<>>
        /\ pending = <<>>
        /\ nodes = [i \in {} |-> None]
        /\ sequence = IdBase + 1
        /\ step = "maintain"
        /\ idx = 1
        /\ guess = TRUE
        /\ orig = IdBase + 1
        /\ unread = {}

SendUp(c, m) == up' = [up EXCEPT ![c] = Append(@, m)]
SendDown(c, m) == down' = [down EXCEPT ![c] = Append(@, m)]
-----------------------------------------------------------------------------
(* The nodes.                                                              *)

Connect(c) == /\ link[c] = "new"
              /\ Replaces[c] # c => link[Replaces[c]] = "closed"
              /\ link' = [link EXCEPT ![c] = "open"]
              /\ accepted' = Append(accepted, c)
              /\ UNCHANGED <<ownid, asks, up, down, pending, nodes, sequence,
                             orig, control>>

(* endpoint::update and parent_router::update when _no_id_timeout or       *)
(* confirm_id_timeout expired.                                             *)
Ask(c) == /\ link[c] = "open"
          /\ ownid[c] = None
          /\ asks[c] < MaxAsks[c]
          /\ asks' = [asks EXCEPT ![c] = @ + 1]
          /\ SendUp(c, CASE Kind[c] = "dynamic" -> Msg("requestId", None)
                         [] Kind[c] = "preconf" -> Msg("annEndptId", OwnId[c])
                         [] Kind[c] = "router"  -> Msg("announceId", OwnId[c]))
          /\ UNCHANGED <<link, ownid, down, tables, sequence, orig, control>>

(* endpoint::update fetches assignId and confirmId: the first one sets the *)
(* id, which the endpoint then announces; later ones find that it has an   *)
(* id.  A router only notes that its id was confirmed.                     *)
Dev_Receive(c) == /\ link[c] = "open"
                  /\ down[c] # <<>>
                  /\ down' = [down EXCEPT ![c] = <<>>]
                  /\ ownid' = [ownid EXCEPT ![c] = down[c][Len(down[c])].id]
                  /\ IF Kind[c] = "router" \/ ownid[c] # None
                     THEN UNCHANGED up
                     ELSE SendUp(c, Msg("annEndptId", Head(down[c]).id))
                  /\ UNCHANGED <<link, asks, tables, sequence, orig, control>>
Receive(c) == /\ link[c] = "open"
              /\ down[c] # <<>>
              /\ down' = [down EXCEPT ![c] = <<>>]
              /\ IF ownid[c] = None
                 THEN /\ ownid' = [ownid EXCEPT ![c] = Head(down[c]).id]
                      /\ IF Kind[c] = "router"
                         THEN UNCHANGED up
                         ELSE SendUp(c, Msg("annEndptId", Head(down[c]).id))
                 ELSE UNCHANGED <<ownid, up>>
              /\ UNCHANGED <<link, asks, tables, sequence, orig, control>>

(* endpoint::finish and router::finish: say_bye(), and then the end of the *)
(* connection.                                                             *)
Finish(c) == /\ link[c] = "open"
             /\ ownid[c] # None
             /\ link' = [link EXCEPT ![c] = "closed"]
             /\ SendUp(c, Bye)
             /\ UNCHANGED <<ownid, asks, down, tables, sequence, orig, control>>

(* A subordinate router forwards the bye-bye of a node of its own to its   *)
(* parent, confirmed or not.                                               *)
Byes(batch) == {k \in DOMAIN batch : batch[k].kind = "byeBye"}

ForwardBye(c) == /\ Kind[c] = "router"
                 /\ link[c] = "open"
                 /\ Cardinality(Byes(up[c])) < MaxByes
                 /\ SendUp(c, Bye)
                 /\ UNCHANGED <<nodeVars, down, tables, sequence, orig, control>>

(* A node that crashes, or whose network connection breaks, says nothing,  *)
(* and what it sent last may be lost with it.                              *)
Crash(c) == /\ link[c] = "open"
            /\ link' = [link EXCEPT ![c] = "closed"]
            /\ \E n \in 0..Len(up[c]) : up' = [up EXCEPT ![c] = SubSeq(@, 1, n)]
            /\ UNCHANGED <<ownid, asks, down, tables, sequence, orig, control>>
-----------------------------------------------------------------------------
(* The router.                                                             *)

(* do_maintenance: _remove_timeouted may drop pending connections, and     *)
(* _remove_disconnected drops the nodes that said bye-bye and those whose  *)
(* connection is found unusable, which takes a connection closed by its    *)
(* client, but not necessarily at once.                                    *)
Dropped == {i \in DOMAIN nodes : nodes[i].doDisconnect}

(* What may be left of a sequence when some of its elements are erased.    *)
Increasing(n, m) ==
    {f \in [1..n -> 1..m] : \A j, k \in 1..n : j < k => f[j] < f[k]}
Subsequences(s) ==
    UNION {{[k \in 1..n |-> s[f[k]]] : f \in Increasing(n, Len(s))} : n \in 0..Len(s)}

Maintain ==
    /\ step = "maintain"
    /\ \E unusable \in SUBSET {i \in DOMAIN nodes : link[nodes[i].conn] = "closed"} :
          nodes' = [i \in DOMAIN nodes \ (Dropped \cup unusable) |-> nodes[i]]
    /\ pending' \in IF PendingTimeout THEN Subsequences(pending) ELSE {pending}
    /\ step' = "pending"
    /\ idx' = 1
    /\ guess' = TRUE
    /\ UNCHANGED <<nodeVars, up, down, accepted, sequence, orig, unread>>

(* The handler of _handle_pending over one batch of messages: a request    *)
(* complements the id found so far, an announcement replaces it, anything  *)
(* else stays in the connection.                                           *)
Requests(batch) == {i \in DOMAIN batch : batch[i].kind = "requestId"}
Announcements(batch) ==
    {i \in DOMAIN batch : batch[i].kind \in {"annEndptId", "announceId"}}

LastAnnouncement(batch) ==
    LET ann == Announcements(batch)
    IN  IF ann = {} THEN 0 ELSE CHOOSE i \in ann : \A j \in ann : j <= i

Dev_FetchedId(batch) ==
    LET last == LastAnnouncement(batch)
        id == IF last = 0 THEN None ELSE batch[last].id
    IN  IF Cardinality(Requests(batch)) % 2 = 0 THEN id ELSE -id - 1
FetchedId(batch) ==
    LET last == LastAnnouncement(batch)
        id == IF last = 0 THEN None ELSE batch[last].id
        flips == Cardinality({i \in Requests(batch) : i > last})
    IN  IF flips % 2 = 0 THEN id ELSE -id - 1

(* Of what a node says only the bye-byes are refused, and wait.            *)
RefusedAtPending(batch) == [k \in 1..Cardinality(Byes(batch)) |-> Bye]

(* The local maybe_router is set when _handle_pending starts and cleared   *)
(* by every annEndptId, never set again for the next connection.           *)
Dev_StillGuess(batch) == guess
StillGuess(batch) ==
    guess /\ \A i \in DOMAIN batch : batch[i].kind # "annEndptId"

Dev_WithoutAt(s, n) == SubSeq(s, 1, n - 1) \o SubSeq(s, n + 2, Len(s))
WithoutAt(s, n) == SubSeq(s, 1, n - 1) \o SubSeq(s, n + 1, Len(s))

(* A node that is there already keeps its do_disconnect.                   *)
Adopt(c, i) ==
    [n \in DOMAIN nodes \cup {i} |->
        IF n # i THEN nodes[n]
        ELSE [conn |-> c, maybeRouter |-> StillGuess(up[c]),
              doDisconnect |-> i \in DOMAIN nodes /\ nodes[i].doDisconnect]]

(* _handle_pending looks at one connection: it has nothing to say, ...     *)
PendingSilent ==
    /\ step = "pending"
    /\ idx <= Len(pending)
    /\ LET c == pending[idx]
       IN  /\ FetchedId(up[c]) = None
           /\ up' = [up EXCEPT ![c] = RefusedAtPending(@)]
           /\ guess' = StillGuess(up[c])
    /\ idx' = idx + 1
    /\ UNCHANGED <<nodeVars, down, tables, sequence, orig, step, unread>>

(* ... it requests an id, which _assign_id starts to look for, ...         *)
PendingRequest ==
    /\ step = "pending"
    /\ idx <= Len(pending)
    /\ LET c == pending[idx]
       IN  /\ FetchedId(up[c]) = -1
           /\ up' = [up EXCEPT ![c] = RefusedAtPending(@)]
           /\ guess' = StillGuess(up[c])
    /\ orig' = sequence
    /\ step' = "assign"
    /\ UNCHANGED <<nodeVars, down, tables, sequence, idx, unread>>

(* ... or it announces its id, is sent the confirmation and adopted.       *)
PendingAdopt ==
    /\ step = "pending"
    /\ idx <= Len(pending)
    /\ LET c == pending[idx]
           i == FetchedId(up[c])
       IN  /\ i \notin {None, -1}
           /\ SendDown(c, Msg("confirmId", i))
           /\ nodes' = Adopt(c, i)
           /\ up' = [up EXCEPT ![c] = RefusedAtPending(@)]
           /\ guess' = StillGuess(up[c])
    /\ pending' = WithoutAt(pending, idx)
    /\ UNCHANGED <<nodeVars, accepted, sequence, orig, step, idx, unread>>

(* The loop of _assign_id: one more id that is in use.                     *)
Dev_AssignNext == /\ step = "assign"
                  /\ sequence \in DOMAIN nodes
                  /\ sequence' = IF sequence + 1 >= IdEnd THEN IdEnd ELSE sequence + 1
                  /\ UNCHANGED <<nodeVars, up, down, tables, orig, control>>
AssignNext ==
    /\ step = "assign"
    /\ sequence \in DOMAIN nodes
    /\ sequence' = IF sequence + 1 >= IdEnd THEN IdBase + 1 ELSE sequence + 1
    /\ step' = IF sequence + 1 < IdEnd /\ sequence + 1 = orig
               THEN "pending" ELSE "assign"
    /\ UNCHANGED <<nodeVars, up, down, tables, orig, idx, guess, unread>>

(* The end of _assign_id; the connection is looked at again.               *)
Dev_AssignFound == /\ step = "assign"
                   /\ SendDown(pending[idx], Msg("assignId", sequence))
                   /\ step' = "pending"
                   /\ UNCHANGED <<nodeVars, up, tables, sequence, orig, idx,
                                  guess, unread>>
AssignFound ==
    /\ step = "assign"
    /\ sequence \notin DOMAIN nodes
    /\ SendDown(pending[idx], Msg("assignId", sequence))
    /\ sequence' = sequence + 1
    /\ step' = "pending"
    /\ UNCHANGED <<nodeVars, up, tables, orig, idx, guess, unread>>

(* _handle_accept, after all pending connections were looked at.           *)
AcceptAll ==
    /\ step = "pending"
    /\ idx > Len(pending)
    /\ pending' = pending \o accepted
    /\ accepted' = <<>>
    /\ step' = "route"
    /\ unread' = DOMAIN nodes
    /\ UNCHANGED <<nodeVars, up, down, nodes, sequence, orig, idx, guess>>

(* _route_messages fetches from the next node, unless its connection was   *)
(* found unusable.  A bye-bye marks the node that it comes from, unless    *)
(* that may be a router, whoever it is that says it.                       *)
NextNode(i) == i \in unread /\ \A j \in unread : i <= j

SaidBye(batch) == Byes(batch) # {}

Dev_Marks(i) == SaidBye(up[nodes[i].conn])
Marks(i) == ~nodes[i].maybeRouter /\ SaidBye(up[nodes[i].conn])

Route(i) ==
    /\ step = "route"
    /\ NextNode(i)
    /\ unread' = unread \ {i}
    /\ \/ /\ nodes' = [nodes EXCEPT ![i].doDisconnect = @ \/ Marks(i)]
          /\ up' = [up EXCEPT ![nodes[i].conn] = <<>>]
       \/ /\ link[nodes[i].conn] = "closed"
          /\ UNCHANGED <<nodes, up>>
    /\ UNCHANGED <<nodeVars, down, accepted, pending, sequence, orig, step, idx, guess>>

(* router::update goes for another round of do_work(), or returns and is   *)
(* called again.                                                           *)
NextRound == /\ step = "route"
             /\ unread = {}
             /\ step' = "pending"
             /\ idx' = 1
             /\ guess' = TRUE
             /\ UNCHANGED <<nodeVars, up, down, tables, sequence, orig, unread>>

UpdateDone == /\ step = "route"
              /\ unread = {}
              /\ step' = "maintain"
              /\ UNCHANGED <<nodeVars, up, down, tables, sequence, orig, idx,
                             guess, unread>>

RouterNext == \/ Maintain
              \/ PendingSilent
              \/ PendingRequest
              \/ PendingAdopt
              \/ AssignNext
              \/ AssignFound
              \/ AcceptAll
              \/ \E i \in unread : Route(i)
              \/ NextRound
              \/ UpdateDone

Next == \/ \E c \in Conns : \/ Connect(c)
                            \/ Ask(c)
                            \/ Receive(c)
                            \/ Finish(c)
                            \/ ForwardBye(c)
                            \/ Crash(c)
        \/ RouterNext

Spec == Init /\ [][Next]_vars

(* The router thread never stops, and router::update ends after a bounded  *)
(* number of rounds (strong fairness, as a next round disables it).  A     *)
(* node keeps running its update(), so its timeout expires and its         *)
(* messages are fetched; nobody has to connect or to leave.                *)
Fairness == /\ WF_vars(RouterNext)
            /\ SF_vars(UpdateDone)
            /\ \A c \in Conns : WF_vars(Ask(c)) /\ WF_vars(Receive(c))

FairSpec == Spec /\ Fairness
-----------------------------------------------------------------------------
MsgKinds == {"requestId", "annEndptId", "announceId", "byeBye",
             "assignId", "confirmId"}
Message == [kind : MsgKinds, id : Nat]

(* All variables have their types: in particular no node is ever kept      *)
(* under the invalid id 0, and the nodes yet to be fetched from are nodes. *)
TypeOK == /\ link \in [Conns -> {"new", "open", "closed"}]
          /\ ownid \in [Conns -> Nat]
          /\ asks \in [Conns -> Nat] /\ \A c \in Conns : asks[c] <= MaxAsks[c]
          /\ up \in [Conns -> Seq(Message)]
          /\ down \in [Conns -> Seq(Message)]
          /\ accepted \in Seq(Conns)
          /\ pending \in Seq(Conns)
          /\ DOMAIN nodes \subseteq Nat \ {None}
          /\ \A i \in DOMAIN nodes : nodes[i] \in NodeState
          /\ sequence \in Nat /\ sequence > IdBase
          /\ step \in {"maintain", "pending", "assign", "route"}
          /\ idx \in Nat \ {0}
          /\ guess \in BOOLEAN
          /\ orig \in Nat
          /\ unread \subseteq DOMAIN nodes

(* No two nodes ever hold the same id, whatever requests, assignments and  *)
(* announcements are under way and however often an endpoint asks again    *)
(* before it is answered (_assign_id looks only at the adopted nodes).     *)
IdsUnique ==
    \A c, d \in Conns :
        (c # d /\ link[c] = "open" /\ link[d] = "open" /\ ownid[c] # None)
            => ownid[c] # ownid[d]

(* The id under which the router keeps a connection is the one that the    *)
(* other side believes to have, or will have once it is told.              *)
NodeHoldsItsId ==
    \A i \in DOMAIN nodes :
        LET c == nodes[i].conn
        IN  i = (IF Kind[c] = "dynamic" THEN ownid[c] ELSE OwnId[c])

(* A node that has not left is never dropped by the maintenance nor has    *)
(* its entry taken by another connection.  Two exceptions are in the code: *)
(* one that reused the id of an earlier run may inherit that run's         *)
(* bye-bye; and a router that was taken for an endpoint, because an        *)
(* endpoint was adopted before it in one pass, is dropped with the first   *)
(* bye-bye that it forwards.                                               *)
NodesKept ==
    [][\A i \in DOMAIN nodes :
          LET c == nodes[i].conn
          IN  (/\ link[c] = "open" /\ Replaces[c] = c
               /\ Kind[c] = "router" => nodes[i].maybeRouter)
                 => i \in DOMAIN nodes' /\ nodes'[i].conn = c]_vars

(* No endpoint is taken for a router, in whatever order the pending        *)
(* connections announce themselves: its bye-bye would be ignored, and all  *)
(* messages to unknown targets sent to it.                                 *)
EndpointsAreLeaves ==
    \A i \in DOMAIN nodes : Kind[nodes[i].conn] # "router" => ~nodes[i].maybeRouter

(* A node that connects is adopted, and stays so unless it leaves; one     *)
(* that reuses the id of an earlier run, or a router, which may be dropped *)
(* with that run's bye-bye or one that it forwarded, is at least told that *)
(* its id is confirmed.                                                    *)
EventuallyAdopted ==
    \A c \in Conns :
        (link[c] = "open")
            ~> (\/ link[c] = "closed"
                \/ \E i \in DOMAIN nodes : nodes[i].conn = c
                \/ (Replaces[c] # c \/ Kind[c] = "router") /\ ownid[c] # None)

(* The router thread is caught in the loop of _assign_id only when all ids *)
(* of the range are in use; otherwise it returns to its maintenance.       *)
StuckOnlyIfExhausted ==
    []<>(step = "maintain") \/ <>[]((IdBase + 1)..(IdEnd - 1) \subseteq DOMAIN nodes)
=============================================================================
