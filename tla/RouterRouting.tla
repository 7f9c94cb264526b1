---------------------------- MODULE RouterRouting ----------------------------
(***************************************************************************)
(* How routers forward messages (message_bus/router.inl, _handle_special   *)
(* and _do_route_message).  Routers form a tree, each of the others has a  *)
(* connection to its parent; endpoints are connected to one router and may *)
(* leave and come back somewhere else with the same (preconfigured) id.    *)
(* A router keeps an index (_endpoint_idx) of the node through which it    *)
(* last heard of an endpoint.  A message that it cannot forward stays in   *)
(* the connection, to be tried again, until it is too old.                 *)
(*                                                                         *)
(* Nodes get their ids as in RouterIds; routers are adopted as such and    *)
(* have no block or allow lists.  A connection is a queue in each          *)
(* direction, as DirectConnection provides it.                             *)
(*                                                                         *)
(* Definitions named Dev_X are deviations of the definition X that follows *)
(* them, made as a plausible mistake in the code would make them.          *)
(***************************************************************************)
EXTENDS Naturals, Sequences, FiniteSets

CONSTANTS Routers, Endpoints,
          Parent,       \* [Routers -> Routers], the root is its own parent
          Start,        \* [Endpoints -> Routers]: where they are at first
          Off,          \* where an endpoint is that is not connected
          All,          \* the broadcast target
          None,         \* no entry in an index
          Targets,      \* bound: the targets of data, endpoints or All
          MaxHops,      \* the hop limit (64 in message_info)
          MaxSays,      \* bound: messages that endpoints say
          Movers,       \* bound: the endpoints that leave
          MaxLeaves     \* bound: how often endpoints leave

ASSUME RoutingAssumption ==
    /\ IsFiniteSet(Routers) /\ Routers \cap Endpoints = {}
    /\ {Off, All, None} \cap (Routers \cup Endpoints) = {}
    /\ Parent \in [Routers -> Routers]
    /\ Start \in [Endpoints -> Routers]
    /\ Targets \subseteq Endpoints \cup {All}
    /\ Movers \subseteq Endpoints
    /\ MaxHops \in Nat /\ MaxSays \in Nat /\ MaxLeaves \in Nat

VARIABLES
    home,      \* per endpoint: the router it is connected to, or Off
    ends,      \* per router: the endpoints in _nodes
    leaving,   \* per router: those of them with do_disconnect
    index,     \* per router: _endpoint_idx; the router itself means its parent
    recent,    \* per router: _recently_disconnected, not expired
    link,      \* per pair of neighbours: the messages on their way
    said,      \* all messages, in the order they were said
    got,       \* per endpoint and message, how often it arrived
    leaves,    \* how often an endpoint left
    heard      \* (history) the bye-byes that a router took up

tables == <<ends, leaving, index, recent>>
vars == <<home, tables, link, said, got, leaves, heard>>

Children(r) == {c \in Routers : c # r /\ Parent[c] = r}
HasParent(r) == Parent[r] # r

(* The routers on the way from a router to the root: it, its parent, the   *)
(* parent of that, and so on.                                              *)
Up(q) == {r \in Routers :
            \A S \in SUBSET Routers :
               (q \in S /\ \A x \in S : Parent[x] \in S) => r \in S}

ASSUME TreeAssumption == \A r \in Routers : HasParent(r) => r \notin Up(Parent[r])

Links == {l \in Routers \X Routers :
             l[1] # l[2] /\ (Parent[l[1]] = l[2] \/ Parent[l[2]] = l[1])}
         \cup (Routers \X Endpoints) \cup (Endpoints \X Routers)

(* What is said; known (history) tells if all routers had the target in    *)
(* their index at that time.                                               *)
Message == [src : Endpoints, tgt : Endpoints \cup {All},
            kind : {"alive", "bye", "data"}, known : BOOLEAN]

Init == /\ home = Start
        /\ ends = [r \in Routers |-> {e \in Endpoints : Start[e] = r}]
        /\ leaving = [r \in Routers |-> {}]
        /\ index = [r \in Routers |-> [e \in Endpoints |-> None]]
        /\ recent = [r \in Routers |-> {}]
        /\ link = [l \in Links |-> <<>>]
        /\ said = <<>>
        /\ got = [e \in Endpoints |-> [m \in 1..MaxSays |-> 0]]
        /\ leaves = 0
        /\ heard = {}
-----------------------------------------------------------------------------
(* The endpoints.                                                          *)

(* An endpoint sends: its stillAlive, data to another endpoint, or data to *)
(* everybody.                                                              *)
Known(t) == t # All => \A r \in Routers : index[r][t] # None

Say(e, t, kind) ==
    /\ home[e] # Off
    /\ Len(said) < MaxSays
    /\ t # e
    /\ IF kind = "alive" THEN t = All ELSE t \in Targets
    /\ said' = Append(said, [src |-> e, tgt |-> t, kind |-> kind, known |-> Known(t)])
    /\ link' = [link EXCEPT ![<<e, home[e]>>] =
                   Append(@, [msg |-> Len(said) + 1, hops |-> 0])]
    /\ UNCHANGED <<home, tables, got, leaves, heard>>

(* endpoint::_store_message takes whatever comes.                          *)
Receive(e) ==
    /\ home[e] # Off
    /\ LET l == <<home[e], e>>
       IN  /\ link[l] # <<>>
           /\ got' = [got EXCEPT ![e][Head(link[l]).msg] = @ + 1]
           /\ link' = [link EXCEPT ![l] = Tail(@)]
    /\ UNCHANGED <<home, tables, said, leaves, heard>>

(* An endpoint says bye-bye (or not) and closes its connection.            *)
Leave(e) ==
    /\ home[e] # Off
    /\ e \in Movers /\ leaves < MaxLeaves
    /\ leaves' = leaves + 1
    /\ home' = [home EXCEPT ![e] = Off]
    /\ \/ /\ Len(said) < MaxSays
          /\ said' = Append(said, [src |-> e, tgt |-> All, kind |-> "bye",
                                   known |-> TRUE])
          /\ link' = [link EXCEPT ![<<home[e], e>>] = <<>>,
                                  ![<<e, home[e]>>] =
                         Append(@, [msg |-> Len(said) + 1, hops |-> 0])]
       \/ /\ link' = [link EXCEPT ![<<home[e], e>>] = <<>>]
          /\ UNCHANGED said
    /\ UNCHANGED <<tables, got, heard>>

(* The endpoint runs again, connects and is adopted (_handle_pending).  If *)
(* the router still has a node with its id, that node's connection is      *)
(* replaced, and what waited in it is gone; its do_disconnect stays.       *)
Join(e, r) ==
    /\ home[e] = Off
    /\ home' = [home EXCEPT ![e] = r]
    /\ ends' = [ends EXCEPT ![r] = @ \cup {e}]
    /\ recent' = [recent EXCEPT ![r] = @ \ {e}]
    /\ link' = [link EXCEPT ![<<e, r>>] = <<>>]
    /\ UNCHANGED <<leaving, index, said, got, leaves, heard>>
-----------------------------------------------------------------------------
(* The routers.  Via is the incoming_id of a message: the node it came     *)
(* from, or the router's own id if it came from the parent.                *)
Dev_Via(r, from) == from
Via(r, from) == IF HasParent(r) /\ from = Parent[r] THEN r ELSE from

(* node_out.send(): a direct connection refuses when its client is gone.   *)
CanSend(r, n) == n \in Children(r) \/ (n \in ends[r] /\ home[n] = r)

ParentOf(r) == IF HasParent(r) THEN {Parent[r]} ELSE {}

(* The nodes to which a targeted message is sent, with the index of the    *)
(* moment, and if that counts as routed; parent_router::send returns true  *)
(* without a parent, too.                                                  *)
Dev_Flood(r, via) == {c \in Children(r) : c # via}
                        \cup (IF via = r THEN ParentOf(r) ELSE {})
Dev_FloodBack(r, via) == Children(r) \cup (IF via # r THEN ParentOf(r) ELSE {})
Flood(r, via) == {c \in Children(r) : c # via}
                    \cup (IF via # r THEN ParentOf(r) ELSE {})

Found(r, t) == \/ index[r][t] = r
               \/ CanSend(r, index[r][t])
               \/ CanSend(r, t)

IsRouted(r, via, t) ==
    \/ t = All
    \/ Found(r, t)
    \/ /\ t \notin recent[r]
       /\ via # r \/ {c \in Children(r) : c # via} # {}

Out(r, via, t) ==
    IF t = All
    THEN {e \in ends[r] : CanSend(r, e) /\ e # via} \cup Flood(r, via)
    ELSE IF index[r][t] = r THEN ParentOf(r)
    ELSE IF CanSend(r, index[r][t]) THEN {index[r][t]}
    ELSE IF CanSend(r, t) THEN {t}
    ELSE IF t \in recent[r] THEN {}
    ELSE Flood(r, via)

Dev_TooManyHops(c) == c.hops > MaxHops
TooManyHops(c) == c.hops >= MaxHops

(* message_view is passed by value: only what is forwarded made a hop, not *)
(* what is kept.                                                           *)
WithHop(c) == [c EXCEPT !.hops = @ + 1]

(* parent_router::fetch_messages takes a bye-bye from the parent away.     *)
Swallowed(r, via, m) == via = r /\ m.kind = "bye"

(* _handle_special: the index follows what the router hears of endpoints.  *)
Dev_IndexAfter(r, via, m) ==
    IF m.kind # "alive" THEN index ELSE [index EXCEPT ![r][m.src] = via]
IndexAfter(r, via, m) ==
    CASE Swallowed(r, via, m) -> index
      [] m.kind = "alive" -> [index EXCEPT ![r][m.src] = via]
      [] m.kind = "bye" /\ via # r -> [index EXCEPT ![r][m.src] = None]
      [] OTHER -> index

(* The router comes to the k-th message of a connection, after it has      *)
(* refused those before it.                                                *)
Refuses(r, via, c) == ~TooManyHops(c) /\ ~IsRouted(r, via, said[c.msg].tgt)

WithoutAt(s, k) == SubSeq(s, 1, k - 1) \o SubSeq(s, k + 1, Len(s))

Fetches(r, from) == from \in Routers \/ from \in ends[r]

Route(r, from, k) ==
    LET l == <<from, r>>
        c == link[l][k]
        m == said[c.msg]
        via == Via(r, from)
        outs == IF TooManyHops(c) \/ Swallowed(r, via, m) THEN {}
                ELSE Out(r, via, m.tgt)
    IN  /\ Fetches(r, from)
        /\ \A j \in 1..k : Refuses(r, via, link[l][j]) <=> j # k
        /\ index' = IndexAfter(r, via, m)
        /\ leaving' = IF m.kind = "bye" /\ from \in ends[r]
                      THEN [leaving EXCEPT ![r] = @ \cup {from}] ELSE leaving
        /\ link' = [x \in Links |->
                      IF x = l THEN WithoutAt(link[x], k)
                      ELSE IF x[1] = r /\ x[2] \in outs
                           THEN Append(link[x], WithHop(c))
                           ELSE link[x]]
        /\ heard' = IF m.kind = "bye" /\ ~Swallowed(r, via, m)
                    THEN heard \cup {c.msg} ELSE heard
        /\ UNCHANGED <<home, ends, recent, said, got, leaves>>

(* A message that was refused becomes too old before it can be forwarded.  *)
Dev_TooOld(r, from, k) ==
    /\ Fetches(r, from)
    /\ \A j \in 1..k : Refuses(r, Via(r, from), link[<<from, r>>][j])
    /\ link[<<from, r>>][k].hops > 0
    /\ link' = [link EXCEPT ![<<from, r>>] = WithoutAt(@, k)]
    /\ UNCHANGED <<home, tables, said, got, leaves, heard>>
TooOld(r, from, k) ==
    /\ Fetches(r, from)
    /\ \A j \in 1..k : Refuses(r, Via(r, from), link[<<from, r>>][j])
    /\ link' = [link EXCEPT ![<<from, r>>] = WithoutAt(@, k)]
    /\ UNCHANGED <<home, tables, said, got, leaves, heard>>

(* _remove_disconnected: the nodes with do_disconnect and those whose      *)
(* connection is found unusable.  An endpoint that inherited the bye-bye   *)
(* of its previous run is cut off; it is Off until it is started again.    *)
Maintain(r) ==
    /\ \E unusable \in SUBSET {e \in ends[r] : home[e] # r} :
          LET gone == leaving[r] \cup unusable
          IN  /\ gone # {}
              /\ ends' = [ends EXCEPT ![r] = @ \ gone]
              /\ recent' = [recent EXCEPT ![r] = @ \cup gone]
              /\ home' = [e \in Endpoints |->
                             IF e \in gone /\ home[e] = r THEN Off ELSE home[e]]
              /\ link' = [l \in Links |->
                             IF l \in (gone \X {r}) \cup ({r} \X gone)
                             THEN <<>> ELSE link[l]]
    /\ leaving' = [leaving EXCEPT ![r] = {}]
    /\ UNCHANGED <<index, said, got, leaves, heard>>

(* An entry of _recently_disconnected expires after 15 seconds.            *)
Expire(r, e) ==
    /\ e \in recent[r]
    /\ recent' = [recent EXCEPT ![r] = @ \ {e}]
    /\ UNCHANGED <<home, ends, leaving, index, link, said, got, leaves, heard>>

(* _remove_timeouted, of an endpoint that did not say for 60 seconds that  *)
(* it is still alive: an endpoint that is connected says so more often.    *)
Outdate(r, e) ==
    /\ home[e] = Off
    /\ index[r][e] # None
    /\ index' = [index EXCEPT ![r][e] = None]
    /\ recent' = [recent EXCEPT ![r] = @ \cup {e}]
    /\ UNCHANGED <<home, ends, leaving, link, said, got, leaves, heard>>

RouteAny == \E l \in Links : \E k \in DOMAIN link[l] :
               l[2] \in Routers /\ Route(l[2], l[1], k)
TooOldAny == \E l \in Links : \E k \in DOMAIN link[l] :
               l[2] \in Routers /\ TooOld(l[2], l[1], k)

Next == \/ \E e \in Endpoints : \/ \E t \in Endpoints \cup {All} :
                                      \E kind \in {"alive", "data"} : Say(e, t, kind)
                                \/ Receive(e)
                                \/ Leave(e)
                                \/ \E r \in Routers : Join(e, r)
        \/ RouteAny
        \/ TooOldAny
        \/ \E r \in Routers : \/ Maintain(r)
                              \/ \E e \in Endpoints : Expire(r, e) \/ Outdate(r, e)

Spec == Init /\ [][Next]_vars

(* Routers route, endpoints fetch, time passes: refused messages get too   *)
(* old, and the maintenance of a router finds the nodes that are gone.     *)
Fairness == /\ \A e \in Endpoints : WF_vars(Receive(e))
            /\ WF_vars(RouteAny)
            /\ WF_vars(TooOldAny)
            /\ \A r \in Routers : WF_vars(Maintain(r))

FairSpec == Spec /\ Fairness
-----------------------------------------------------------------------------
(* All variables have their types: in particular no message makes more     *)
(* hops than the limit, and only nodes are marked to be disconnected.      *)
TypeOK == /\ home \in [Endpoints -> Routers \cup {Off}]
          /\ ends \in [Routers -> SUBSET Endpoints]
          /\ leaving \in [Routers -> SUBSET Endpoints]
          /\ \A r \in Routers : leaving[r] \subseteq ends[r]
          /\ index \in [Routers -> [Endpoints -> Routers \cup Endpoints \cup {None}]]
          /\ recent \in [Routers -> SUBSET Endpoints]
          /\ DOMAIN link = Links
          /\ \A l \in Links : link[l] \in Seq([msg : 1..Len(said), hops : 0..MaxHops])
          /\ said \in Seq(Message) /\ Len(said) <= MaxSays
          /\ got \in [Endpoints -> [1..MaxSays -> Nat]]
          /\ leaves \in 0..MaxLeaves
          /\ heard \subseteq 1..Len(said)

(* The node through which a router reaches an endpoint at another one.     *)
Towards(r, e) == IF home[e] = r THEN e
                 ELSE IF r \in Up(home[e])
                      THEN CHOOSE c \in Children(r) : c \in Up(home[e])
                      ELSE r

(* While nobody leaves, a broadcast arrives at most once at an endpoint,   *)
(* and a targeted message only at its target, at most once if all routers  *)
(* knew the target when it was said.  (Otherwise it is flooded, and a      *)
(* router that learns of the target meanwhile sends its copy back to where *)
(* it came from, from where it is forwarded a second time.)                *)
AtMostOnce ==
    leaves = 0 => \A e \in Endpoints : \A m \in 1..Len(said) :
        got[e][m] > 0 => /\ said[m].tgt \in {e, All}
                         /\ said[m].src # e
                         /\ said[m].known => got[e][m] = 1

(* While nobody leaves, every entry of every index points towards the      *)
(* endpoint.                                                               *)
IndexTowardsHome ==
    leaves = 0 => \A r \in Routers : \A e \in Endpoints :
        index[r][e] # None => index[r][e] = Towards(r, e)

(* While nobody leaves, whatever an endpoint says arrives at its target,   *)
(* and at all others if it is a broadcast, however little the routers know *)
(* of where the target is.                                                 *)
EventuallyDelivered ==
    <>[](leaves = 0 => \A e \in Endpoints : \A m \in 1..Len(said) :
            (said[m].tgt \in {e, All} /\ said[m].src # e) => got[e][m] > 0)

(* When the last word of an endpoint, which left once, was a bye-bye that  *)
(* a router took up and nothing is on its way any more, only an index that *)
(* pointed to the parent still has it: a router does not look at a bye-bye *)
(* that comes from its parent.  (A bye-bye that is sent just before the    *)
(* maintenance finds the connection closed is lost with the connection;    *)
(* and an endpoint that came back at another router and left that, too,    *)
(* may be learned again from a stillAlive that it said at the first one    *)
(* and that is forwarded only after its bye-bye from the second.)          *)
ByeForgotten ==
    leaves <= 1 => \A e \in Endpoints :
        (/\ home[e] = Off
         /\ \A l \in Links : link[l] = <<>>
         /\ \E m \in 1..Len(said) :
               /\ said[m].src = e
               /\ said[m].kind = "bye"
               /\ \A n \in (m + 1)..Len(said) : said[n].src # e
               /\ m \in heard)
            => \A r \in Routers : index[r][e] \in {None, r}

(* Messages do not circulate for ever, even when endpoints move and two    *)
(* routers point at each other: in the end no message is on its way.       *)
EventuallyQuiet == <>[](\A l \in Links : link[l] = <<>>)
=============================================================================
