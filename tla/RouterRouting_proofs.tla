------------------------ MODULE RouterRouting_proofs ------------------------
(***************************************************************************)
(* Proofs about RouterRouting, for any tree of routers, endpoints, limit   *)
(* of hops and bounds.                                                     *)
(*                                                                         *)
(* The index (IndexCorrect): a stillAlive is a broadcast, which is         *)
(* flooded, so that every copy of it goes away from its endpoint: a router *)
(* never sends it to the node it came from, and has it from the node that  *)
(* is towards the endpoint (AliveOutwards).  That is where the index entry *)
(* comes from.                                                             *)
(*                                                                         *)
(* Duplicates (OnceCorrect): the endpoints that a copy of a message still  *)
(* has ahead of it, beyond the connection it is in, are divided among the  *)
(* copies that a router makes of it, so no two copies have the same        *)
(* endpoint ahead, and none has an endpoint ahead that got the message     *)
(* (Once).  This needs that the index does not send a copy back, which it  *)
(* may do to one that was flooded before the index knew its target.        *)
(*                                                                         *)
(* Bye-byes (ByeCorrect): a stillAlive and the bye-bye of an endpoint go   *)
(* up from its router to the root one router after the other, in order,    *)
(* with the same hops at the same router; all other copies come down from  *)
(* a parent, and set no entry that points to a node.  So the bye-bye is    *)
(* below every router that has such an entry, or has a stillAlive to come  *)
(* (Follows), and goes on until there is none.                             *)
(***************************************************************************)
EXTENDS RouterRouting, SequenceTheorems, FiniteSetTheorems, TLAPS

(* Up is closed, and the least such set.                                   *)
LEMMA UpClosed ==
    ASSUME NEW q \in Routers
    PROVE  /\ q \in Up(q) /\ Up(q) \subseteq Routers
           /\ \A x \in Up(q) : Parent[x] \in Up(q)
BY RoutingAssumption DEF Up

(* A set with a router that is closed under parents has all above it.      *)
LEMMA UpLeast ==
    ASSUME NEW q \in Routers, NEW S \in SUBSET Routers,
           q \in S, \A x \in S : Parent[x] \in S
    PROVE  Up(q) \subseteq S
BY DEF Up

(* What is above a router is the router or above its parent.               *)
LEMMA UpStep ==
    ASSUME NEW q \in Routers
    PROVE  /\ Up(q) = {q} \cup Up(Parent[q])
           /\ \A x \in Up(q) : Up(x) \subseteq Up(q)
<1>1. Parent[q] \in Routers
  BY RoutingAssumption
<1>2. Up(q) \subseteq {q} \cup Up(Parent[q])
  <2> DEFINE S == {q} \cup Up(Parent[q])
  <2>1. S \in SUBSET Routers /\ q \in S /\ \A x \in S : Parent[x] \in S
    BY <1>1, UpClosed
  <2> HIDE DEF S
  <2>2. Up(q) \subseteq S
    BY <2>1, UpLeast
  <2> QED
    BY <2>2 DEF S
<1>3. \A x \in Up(q) : Up(x) \subseteq Up(q)
  <2>1. Up(q) \in SUBSET Routers /\ \A x \in Up(q) : x \in Routers /\ Parent[x] \in Up(q)
    BY UpClosed
  <2> QED
    BY <2>1, UpLeast
<1>4. q \in Up(q) /\ Parent[q] \in Up(q)
  BY UpClosed
<1> QED
  BY <1>2, <1>3, <1>4

(* Of two routers above one, one is above the other.                       *)
LEMMA UpLinear ==
    ASSUME NEW q \in Routers, NEW x \in Up(q), NEW y \in Up(q)
    PROVE  x \in Up(y) \/ y \in Up(x)
<1> DEFINE S == {z \in Routers : z \in Up(y) \/ y \in Up(z)}
<1>1. x \in Routers /\ y \in Routers /\ q \in S
  BY UpClosed
<1>2. ASSUME NEW z \in S PROVE Parent[z] \in S
  <2>1. z \in Routers /\ Parent[z] \in Routers
    BY RoutingAssumption
  <2>2. CASE z \in Up(y)
    BY <1>1, <2>1, <2>2, UpClosed
  <2>3. CASE y \in Up(z)
    <3>1. y = z \/ y \in Up(Parent[z])
      BY <2>1, <2>3, UpStep
    <3>2. z \in Up(z) /\ Parent[z] \in Up(z)
      BY <2>1, UpClosed
    <3> QED
      BY <2>1, <3>1, <3>2
  <2> QED
    BY <1>2, <2>2, <2>3
<1>3. S \in SUBSET Routers
  OBVIOUS
<1> HIDE DEF S
<1>4. Up(q) \subseteq S
  BY <1>1, <1>2, <1>3, UpLeast
<1> QED
  BY <1>4 DEF S

(* A router is reached through one of its children at most.                *)
LEMMA OneChild ==
    ASSUME NEW q \in Routers, NEW r \in Routers,
           NEW c \in Children(r), NEW d \in Children(r), c \in Up(q), d \in Up(q)
    PROVE  c = d
<1>1. c \in Routers /\ d \in Routers /\ Parent[c] = r /\ Parent[d] = r /\ c # r /\ d # r
  BY DEF Children
<1>2. c \notin Up(r) /\ d \notin Up(r)
  BY <1>1, TreeAssumption DEF HasParent
<1>3. c \in Up(d) \/ d \in Up(c)
  BY UpLinear
<1>4. Up(c) = {c} \cup Up(r) /\ Up(d) = {d} \cup Up(r)
  BY <1>1, UpStep
<1> QED
  BY <1>2, <1>3, <1>4

(* A message that came from the node towards the endpoint, and is sent to  *)
(* other nodes only, comes to these from the node towards the endpoint.    *)
LEMMA AwayStep ==
    ASSUME NEW e \in Endpoints, home[e] \in Routers, NEW r \in Routers,
           NEW n \in Flood(r, Towards(r, e))
    PROVE  Via(n, r) = Towards(n, e)
<1> DEFINE q == home[e]
<1>1. e \notin Routers /\ e # r
  BY RoutingAssumption
<1>2. CASE n \in Children(r) /\ n # Towards(r, e)
  <2>1. n \in Routers /\ Parent[n] = r /\ n # r
    BY <1>2 DEF Children
  <2>2. Via(n, r) = n
    BY <2>1 DEF Via, HasParent
  <2>3. n \notin Up(r)
    BY <2>1, TreeAssumption DEF HasParent
  <2>4. n \notin Up(q)
    <3>1. SUFFICES ASSUME n \in Up(q) PROVE FALSE
      OBVIOUS
    <3>2. r \in Up(q)
      BY <2>1, <3>1, UpClosed
    <3>3. q # r
      BY <2>3, <3>1
    <3>4. Towards(r, e) \in Children(r) /\ Towards(r, e) \in Up(q)
      BY <1>2, <3>1, <3>2, <3>3 DEF Towards
    <3> QED
      BY <1>2, <3>1, <3>4, OneChild
  <2>5. q # n
    BY <2>1, <2>4, UpClosed
  <2> QED
    BY <2>2, <2>4, <2>5 DEF Towards
<1>3. CASE Towards(r, e) # r /\ n = Parent[r] /\ HasParent(r)
  <2>1. n \in Routers /\ n # r /\ r \in Children(n)
    BY <1>3, RoutingAssumption DEF Children, HasParent
  <2>2. r \notin Up(n)
    BY <1>3, TreeAssumption
  <2>3. Parent[n] \in Up(n)
    BY <2>1, UpClosed
  <2>4. Via(n, r) = r
    BY <2>2, <2>3 DEF Via
  <2>5. r \in Up(q)
    BY <1>3, UpClosed DEF Towards
  <2>6. n \in Up(q)
    BY <1>3, <2>5, UpClosed
  <2>7. q # n
    BY <2>2, <2>5
  <2>8. Towards(n, e) \in Children(n) /\ Towards(n, e) \in Up(q)
    BY <2>1, <2>5, <2>6, <2>7 DEF Towards
  <2> QED
    BY <2>1, <2>4, <2>5, <2>8, OneChild
<1> QED
  BY <1>2, <1>3 DEF Flood, ParentOf
-----------------------------------------------------------------------------
(* A copy of a stillAlive comes to a router from the node that is towards  *)
(* its endpoint.                                                           *)
AliveOutwards ==
    \A l \in Links : \A k \in DOMAIN link[l] :
        (l[2] \in Routers /\ said[link[l][k].msg].kind = "alive")
           => Via(l[2], l[1]) = Towards(l[2], said[link[l][k].msg].src)

(* While nobody leaves, nobody is to be disconnected.                      *)
AllThere ==
    /\ \A e \in Endpoints : home[e] \in Routers
    /\ \A r \in Routers : leaving[r] = {}
    /\ \A m \in DOMAIN said : said[m].kind # "bye"

AlivesToAll == \A m \in DOMAIN said : said[m].kind = "alive" => said[m].tgt = All

RouteInv ==
    TypeOK /\ AlivesToAll
    /\ (leaves = 0 => AllThere /\ AliveOutwards)
    /\ IndexTowardsHome

(* What stays of a connection when one of its messages is taken out.       *)
LEMMA WithoutFacts ==
    ASSUME NEW S, NEW s \in Seq(S), NEW k \in DOMAIN s
    PROVE  /\ WithoutAt(s, k) \in Seq(S)
           /\ \A i \in DOMAIN WithoutAt(s, k) : \E j \in DOMAIN s : WithoutAt(s, k)[i] = s[j]
<1> DEFINE x == SubSeq(s, 1, k - 1)
           y == SubSeq(s, k + 1, Len(s))
<1>1. k \in 1..Len(s) /\ Len(s) \in Nat
  OBVIOUS
<1>2. x \in Seq(S) /\ Len(x) = k - 1 /\ \A i \in 1..(k - 1) : x[i] = s[i]
  BY <1>1
<1>3. y \in Seq(S) /\ Len(y) = Len(s) - k /\ \A i \in 1..(Len(s) - k) : y[i] = s[k + i]
  BY <1>1
<1>4. WithoutAt(s, k) = x \o y
  BY DEF WithoutAt
<1> HIDE DEF x, y
<1>5. x \o y \in Seq(S) /\ Len(x \o y) = Len(s) - 1
  BY <1>1, <1>2, <1>3
<1>6. ASSUME NEW i \in 1..(Len(s) - 1) PROVE \E j \in 1..Len(s) : (x \o y)[i] = s[j]
  <2>1. CASE i <= k - 1
    <3>1. (x \o y)[i] = s[i] /\ i \in 1..Len(s)
      BY <1>1, <1>2, <1>3, <2>1
    <3> QED
      BY <3>1
  <2>2. CASE i > k - 1
    <3>1. (x \o y)[i] = y[i - (k - 1)] /\ i - (k - 1) \in 1..(Len(s) - k)
      BY <1>1, <1>2, <1>3, <2>2
    <3>2. y[i - (k - 1)] = s[k + (i - (k - 1))] /\ k + (i - (k - 1)) \in 1..Len(s)
      BY <1>1, <1>3, <3>1
    <3> QED
      BY <3>1, <3>2
  <2>3. i \in Int /\ k \in Int
    BY <1>1
  <2>4. i <= k - 1 \/ i > k - 1
    BY <2>3
  <2> QED
    BY <2>1, <2>2, <2>4
<1>7. DOMAIN (x \o y) = 1..(Len(s) - 1) /\ DOMAIN s = 1..Len(s)
  BY <1>5
<1> QED
  BY <1>4, <1>5, <1>6, <1>7

Copies(n) == [msg : 1..n, hops : 0..MaxHops]

(* The links of routers and endpoints are links of the model.              *)
LEMMA LinkFacts ==
    /\ \A r \in Routers, e \in Endpoints : <<r, e>> \in Links /\ <<e, r>> \in Links
    /\ \A l \in Links : /\ l = <<l[1], l[2]>>
                        /\ l[1] \in Routers \cup Endpoints
                        /\ l[2] \in Routers \cup Endpoints
<1>1. \A A, B : \A l \in A \X B : l = <<l[1], l[2]>> /\ l[1] \in A /\ l[2] \in B
  OBVIOUS
<1>2. \A l \in Links : \/ l \in Routers \X Routers
                       \/ l \in Routers \X Endpoints
                       \/ l \in Endpoints \X Routers
  BY DEF Links
<1>3. \A r \in Routers, e \in Endpoints : <<r, e>> \in Links /\ <<e, r>> \in Links
  BY DEF Links
<1>4. ASSUME NEW l \in Links
      PROVE  /\ l = <<l[1], l[2]>>
             /\ l[1] \in Routers \cup Endpoints
             /\ l[2] \in Routers \cup Endpoints
  <2>1. CASE l \in Routers \X Routers
    BY <1>1, <2>1
  <2>2. CASE l \in Routers \X Endpoints
    BY <1>1, <2>2
  <2>3. CASE l \in Endpoints \X Routers
    BY <1>1, <2>3
  <2> QED
    BY <1>2, <2>1, <2>2, <2>3
<1> QED
  BY <1>3, <1>4

(* Copies of messages said so far are copies of messages said later.       *)
LEMMA CopiesGrow ==
    ASSUME NEW n \in Nat, NEW s \in Seq(Copies(n))
    PROVE  s \in Seq(Copies(n + 1))
<1>1. \A c \in Copies(n) : c \in Copies(n + 1)
  BY DEF Copies
<1>2. s \in [1..Len(s) -> Copies(n)] /\ Len(s) \in Nat
  OBVIOUS
<1>3. s \in [1..Len(s) -> Copies(n + 1)]
  BY <1>1, <1>2
<1> QED
  BY <1>2, <1>3

(* TypeOK, with the copies by their own name.                              *)
LEMMA TypeFacts ==
    ASSUME TypeOK
    PROVE  /\ \A l \in Links : link[l] \in Seq(Copies(Len(said)))
           /\ Len(said) \in Nat /\ said \in Seq(Message) /\ DOMAIN said = 1..Len(said)
           /\ \A l \in Links : \A k \in DOMAIN link[l] :
                 /\ link[l][k] \in Copies(Len(said))
                 /\ link[l][k].msg \in DOMAIN said
                 /\ said[link[l][k].msg] \in Message
<1>a. said \in Seq(Message) /\ \A l \in Links : link[l] \in Seq(Copies(Len(said)))
  BY DEF TypeOK, Copies
<1>1. /\ \A l \in Links : link[l] \in Seq(Copies(Len(said)))
      /\ Len(said) \in Nat /\ said \in Seq(Message) /\ DOMAIN said = 1..Len(said)
  BY <1>a
<1>2. ASSUME NEW l \in Links, NEW k \in DOMAIN link[l]
      PROVE  /\ link[l][k] \in Copies(Len(said))
             /\ link[l][k].msg \in DOMAIN said
             /\ said[link[l][k].msg] \in Message
  <2>1. link[l][k] \in Copies(Len(said))
    BY <1>1
  <2>2. link[l][k].msg \in DOMAIN said
    BY <1>1, <2>1 DEF Copies
  <2> QED
    BY <1>1, <2>1, <2>2
<1> QED
  BY <1>1, <1>2

(* The invariant of AliveOutwards for a copy that was there before.        *)
LEMMA OutwardsKept ==
    ASSUME TypeOK, AliveOutwards, home' = home,
           \A i \in DOMAIN said : said'[i] = said[i],
           NEW l \in Links, NEW k, NEW j \in DOMAIN link[l], link'[l][k] = link[l][j],
           l[2] \in Routers, said'[link'[l][k].msg].kind = "alive"
    PROVE  Via(l[2], l[1]) = Towards(l[2], said[link[l][k].msg].src)'
<1> DEFINE i == link[l][j].msg
<1>1. i \in DOMAIN said /\ said'[i] = said[i] /\ said'[link'[l][k].msg] = said[i]
  BY TypeFacts
<1>2. Via(l[2], l[1]) = Towards(l[2], said[i].src)
  BY <1>1 DEF AliveOutwards
<1>3. PICK e : e = said[i].src
  OBVIOUS
<1>4. said'[link'[l][k].msg].src = e
  BY <1>1, <1>3
<1>5. Towards(l[2], e)' = Towards(l[2], e)
  BY DEF Towards
<1>6. Towards(l[2], said[link[l][k].msg].src)' = Towards(l[2], e)'
  BY <1>4
<1> QED
  BY <1>2, <1>3, <1>5, <1>6

(* An endpoint that says something.                                        *)
LEMMA SayInv ==
    ASSUME RouteInv, NEW e \in Endpoints, NEW t \in Endpoints \cup {All},
           NEW kind \in {"alive", "data"}, Say(e, t, kind)
    PROVE  RouteInv'
<1> DEFINE m == [src |-> e, tgt |-> t, kind |-> kind, known |-> Known(t)]
           c == [msg |-> Len(said) + 1, hops |-> 0]
           p == <<e, home[e]>>
<1>1. TypeOK /\ AlivesToAll /\ home[e] \in Routers /\ p \in Links
  BY LinkFacts DEF RouteInv, TypeOK, Say
<1>2. /\ Len(said) \in Nat /\ said \in Seq(Message) /\ DOMAIN said = 1..Len(said)
      /\ \A l \in Links : link[l] \in Seq(Copies(Len(said)))
  BY <1>1, TypeFacts
<1>3. m \in Message /\ Len(said) + 1 <= MaxSays /\ (m.kind = "alive" => t = All)
      /\ m.kind # "bye" /\ m.tgt = t /\ m.src = e
  <2>1. Known(t) \in BOOLEAN
    BY DEF Known
  <2> QED
    BY <1>2, <2>1, RoutingAssumption DEF Message, Say
<1>4. said' = Append(said, m) /\ link' = [link EXCEPT ![p] = Append(@, c)]
  BY DEF Say
<1> HIDE DEF m
<1>5. /\ said' \in Seq(Message) /\ Len(said') = Len(said) + 1
      /\ \A i \in 1..Len(said) : said'[i] = said[i]
      /\ said'[Len(said) + 1] = m
  BY <1>2, <1>3, <1>4
<1>6. c \in Copies(Len(said) + 1)
  BY <1>2, RoutingAssumption DEF Copies
<1> HIDE DEF c, p
<1>7. ASSUME NEW l \in Links PROVE link'[l] \in Seq(Copies(Len(said) + 1))
  <2>1. link[l] \in Seq(Copies(Len(said) + 1))
    BY <1>2, CopiesGrow
  <2>2. Append(link[l], c) \in Seq(Copies(Len(said) + 1))
    BY <1>6, <2>1
  <2>3. link'[l] = link[l] \/ link'[l] = Append(link[l], c)
    BY <1>1, <1>4 DEF TypeOK
  <2> QED
    BY <2>1, <2>2, <2>3
<1>8. TypeOK'
  <2>1. DOMAIN link' = Links
    BY <1>1, <1>4 DEF TypeOK
  <2>2. heard \subseteq 1..Len(said')
    BY <1>1, <1>2, <1>5 DEF TypeOK
  <2>3. \A l \in Links : link'[l] \in Seq([msg : 1..Len(said'), hops : 0..MaxHops])
    BY <1>5, <1>7 DEF Copies
  <2>4. UNCHANGED <<home, ends, leaving, index, recent, got, leaves, heard>>
    BY DEF Say, tables
  <2> QED
    BY <1>1, <1>3, <1>5, <2>1, <2>2, <2>3, <2>4 DEF TypeOK
<1>9. AlivesToAll'
  <2>1. ASSUME NEW i \in DOMAIN said', said'[i].kind = "alive" PROVE said'[i].tgt = All
    <3>1. i \in 1..Len(said) \/ i = Len(said) + 1
      BY <1>2, <1>5
    <3> QED
      BY <1>1, <1>2, <1>3, <1>5, <2>1, <3>1 DEF AlivesToAll
  <2> QED
    BY <2>1 DEF AlivesToAll
<1>10. UNCHANGED <<home, leaving, index, leaves>>
  BY DEF Say, tables
<1>11. IndexTowardsHome'
  BY <1>10 DEF RouteInv, IndexTowardsHome, Towards
<1>12. ASSUME leaves' = 0 PROVE AllThere' /\ AliveOutwards'
  <2>1. AllThere /\ AliveOutwards
    BY <1>10, <1>12 DEF RouteInv
  <2>2. AllThere'
    <3>1. ASSUME NEW i \in DOMAIN said' PROVE said'[i].kind # "bye"
      <4>1. i \in 1..Len(said) \/ i = Len(said) + 1
        BY <1>2, <1>5
      <4> QED
        BY <1>2, <1>3, <1>5, <2>1, <4>1 DEF AllThere
    <3> QED
      BY <1>10, <2>1, <3>1 DEF AllThere
  <2>3. ASSUME NEW l \in Links, NEW k \in DOMAIN link'[l],
               l[2] \in Routers, said'[link'[l][k].msg].kind = "alive"
        PROVE  Via(l[2], l[1]) = Towards(l[2], said[link[l][k].msg].src)'
    <3>1. link[l] \in Seq(Copies(Len(said)))
      BY <1>2
    <3>2. CASE k \in DOMAIN link[l]
      <4>1. link'[l][k] = link[l][k]
        <5>1. link'[l] = link[l] \/ link'[l] = Append(link[l], c)
          BY <1>1, <1>4 DEF TypeOK
        <5>2. Append(link[l], c)[k] = link[l][k]
          BY <3>1, <3>2
        <5> QED
          BY <5>1, <5>2
      <4> QED
        BY <1>1, <1>2, <1>5, <1>10, <2>1, <2>3, <3>2, <4>1, OutwardsKept
    <3>3. CASE k \notin DOMAIN link[l]
      <4>1. l = p
        BY <1>1, <1>4, <3>3 DEF TypeOK
      <4>2. link'[l] = Append(link[l], c)
        BY <1>1, <1>4, <4>1 DEF TypeOK
      <4>3. k = Len(link[l]) + 1 /\ link'[l][k] = c
        BY <3>1, <3>3, <4>2
      <4>4. said'[link'[l][k].msg].src = e
        BY <1>3, <1>5, <4>3 DEF c
      <4>5. l[1] = e /\ l[2] = home[e]
        BY <4>1 DEF p
      <4>6. Via(home[e], e) = e
        BY <1>1, RoutingAssumption DEF Via
      <4>7. Towards(home[e], e)' = e
        BY <1>10 DEF Towards
      <4>8. Towards(l[2], said[link[l][k].msg].src)' = Towards(l[2], e)'
        BY <4>4
      <4> QED
        BY <4>5, <4>6, <4>7, <4>8, <1>10 DEF Towards
    <3> QED
      BY <3>2, <3>3
  <2> QED
    BY <2>2, <2>3 DEF AliveOutwards
<1> QED
  BY <1>8, <1>9, <1>11, <1>12 DEF RouteInv

(* Copies were taken out of the connections, or nothing was.               *)
OnlyDropped ==
    \A l \in Links : \A k \in DOMAIN link'[l] : \E j \in DOMAIN link[l] :
        link'[l][k] = link[l][j]

(* Steps that take copies out, while nobody leaves.                        *)
LEMMA DropInv ==
    ASSUME RouteInv, TypeOK', said' = said,
           leaves' = 0 => /\ leaves = 0 /\ UNCHANGED <<home, index>>
                          /\ \A r \in Routers : leaving[r] = {} => leaving'[r] = {}
                          /\ OnlyDropped
    PROVE  RouteInv'
<1>1. TypeOK /\ AlivesToAll
  BY DEF RouteInv
<1>2. AlivesToAll'
  BY <1>1 DEF AlivesToAll
<1>3. ASSUME leaves' = 0 PROVE AllThere' /\ AliveOutwards'
  <2>1. AllThere /\ AliveOutwards /\ home' = home
    BY <1>3 DEF RouteInv
  <2>2. AllThere'
    BY <1>3, <2>1 DEF AllThere
  <2>3. ASSUME NEW l \in Links, NEW k \in DOMAIN link'[l],
               l[2] \in Routers, said'[link'[l][k].msg].kind = "alive"
        PROVE  Via(l[2], l[1]) = Towards(l[2], said[link[l][k].msg].src)'
    <3>1. PICK j \in DOMAIN link[l] : link'[l][k] = link[l][j]
      BY <1>3 DEF OnlyDropped
    <3> QED
      BY <1>1, <2>1, <2>3, <3>1, OutwardsKept
  <2> QED
    BY <2>2, <2>3 DEF AliveOutwards
<1>4. IndexTowardsHome'
  BY DEF RouteInv, IndexTowardsHome, Towards
<1> QED
  BY <1>2, <1>3, <1>4 DEF RouteInv

(* What stays of a connection when its oldest message is fetched.          *)
LEMMA TailFacts ==
    ASSUME NEW S, NEW s \in Seq(S), s # <<>>
    PROVE  /\ Tail(s) \in Seq(S) /\ Head(s) \in S
           /\ \A i \in DOMAIN Tail(s) : \E j \in DOMAIN s : Tail(s)[i] = s[j]
<1>1. /\ Tail(s) \in Seq(S) /\ Head(s) \in S /\ Len(s) \in Nat /\ Len(Tail(s)) = Len(s) - 1
      /\ DOMAIN s = 1..Len(s) /\ DOMAIN Tail(s) = 1..(Len(s) - 1)
  OBVIOUS
<1>2. ASSUME NEW i \in DOMAIN Tail(s) PROVE Tail(s)[i] = s[i + 1] /\ i + 1 \in DOMAIN s
  BY <1>1
<1> QED
  BY <1>1, <1>2

(* An endpoint that receives.                                              *)
LEMMA ReceiveInv ==
    ASSUME RouteInv, NEW e \in Endpoints, Receive(e)
    PROVE  RouteInv'
<1> DEFINE p == <<home[e], e>>
           m == Head(link[p]).msg
<1>1. TypeOK /\ p \in Links
  BY LinkFacts DEF RouteInv, TypeOK, Receive
<1>2. link[p] \in Seq(Copies(Len(said))) /\ link[p] # <<>> /\ Len(said) \in 0..MaxSays
  <2>1. link[p] \in Seq(Copies(Len(said))) /\ Len(said) \in Nat
    BY <1>1, TypeFacts
  <2>2. Len(said) <= MaxSays
    BY <1>1 DEF TypeOK
  <2> QED
    BY <2>1, <2>2, RoutingAssumption DEF Receive
<1>3. /\ Tail(link[p]) \in Seq(Copies(Len(said))) /\ Head(link[p]) \in Copies(Len(said))
      /\ \A i \in DOMAIN Tail(link[p]) : \E j \in DOMAIN link[p] : Tail(link[p])[i] = link[p][j]
  BY <1>2, TailFacts
<1>4. m \in 1..MaxSays
  BY <1>2, <1>3, RoutingAssumption DEF Copies
<1>5. /\ link' = [link EXCEPT ![p] = Tail(@)]
      /\ got' = [got EXCEPT ![e][m] = @ + 1]
  BY DEF Receive
<1> HIDE DEF p, m
<1>6. got' \in [Endpoints -> [1..MaxSays -> Nat]]
  <2>1. got \in [Endpoints -> [1..MaxSays -> Nat]]
    BY <1>1 DEF TypeOK
  <2>2. got[e][m] + 1 \in Nat
    <3>1. got[e] \in [1..MaxSays -> Nat]
      BY <2>1
    <3>2. got[e][m] \in Nat
      BY <1>4, <3>1
    <3> QED
      BY <3>2
  <2>3. [got[e] EXCEPT ![m] = @ + 1] \in [1..MaxSays -> Nat]
    BY <1>4, <2>1, <2>2
  <2> QED
    BY <1>5, <2>1, <2>3
<1>7. DOMAIN link' = Links /\ \A l \in Links : link'[l] = IF l = p THEN Tail(link[p]) ELSE link[l]
  BY <1>1, <1>5 DEF TypeOK
<1>8. UNCHANGED <<home, ends, leaving, index, recent, said, leaves, heard>>
  BY DEF Receive, tables
<1>9. TypeOK'
  <2>1. \A l \in Links : link'[l] \in Seq(Copies(Len(said)))
    BY <1>1, <1>3, <1>7, TypeFacts
  <2> QED
    BY <1>1, <1>6, <1>7, <1>8, <2>1 DEF TypeOK, Copies
<1>10. OnlyDropped
  BY <1>3, <1>7 DEF OnlyDropped
<1> QED
  BY <1>8, <1>9, <1>10, DropInv

(* A message that gets too old.                                            *)
LEMMA TooOldInv ==
    ASSUME RouteInv, NEW p \in Links, NEW k \in DOMAIN link[p], TooOld(p[2], p[1], k)
    PROVE  RouteInv'
<1>1. TypeOK /\ <<p[1], p[2]>> = p
  BY LinkFacts DEF RouteInv
<1>2. link[p] \in Seq(Copies(Len(said)))
  BY <1>1, TypeFacts
<1>3. /\ WithoutAt(link[p], k) \in Seq(Copies(Len(said)))
      /\ \A i \in DOMAIN WithoutAt(link[p], k) :
            \E j \in DOMAIN link[p] : WithoutAt(link[p], k)[i] = link[p][j]
  BY <1>2, WithoutFacts
<1>4. link' = [link EXCEPT ![p] = WithoutAt(@, k)]
  BY <1>1 DEF TooOld
<1>5. /\ DOMAIN link' = Links
      /\ \A l \in Links : link'[l] = IF l = p THEN WithoutAt(link[p], k) ELSE link[l]
  BY <1>1, <1>4 DEF TypeOK
<1>6. UNCHANGED <<home, ends, leaving, index, recent, said, got, leaves, heard>>
  BY DEF TooOld, tables
<1>7. TypeOK'
  <2>1. \A l \in Links : link'[l] \in Seq(Copies(Len(said)))
    BY <1>1, <1>3, <1>5, TypeFacts
  <2> QED
    BY <1>1, <1>5, <1>6, <2>1 DEF TypeOK, Copies
<1>8. OnlyDropped
  BY <1>3, <1>5 DEF OnlyDropped
<1> QED
  BY <1>6, <1>7, <1>8, DropInv

(* The maintenance of a router.                                            *)
LEMMA MaintainInv ==
    ASSUME RouteInv, NEW r \in Routers, Maintain(r)
    PROVE  RouteInv'
<1>1. TypeOK
  BY DEF RouteInv
<1>2. PICK unusable \in SUBSET {e \in ends[r] : home[e] # r} :
          LET gone == leaving[r] \cup unusable
          IN  /\ ends' = [ends EXCEPT ![r] = @ \ gone]
              /\ recent' = [recent EXCEPT ![r] = @ \cup gone]
              /\ home' = [e \in Endpoints |->
                             IF e \in gone /\ home[e] = r THEN Off ELSE home[e]]
              /\ link' = [l \in Links |->
                             IF l \in (gone \X {r}) \cup ({r} \X gone)
                             THEN <<>> ELSE link[l]]
  BY DEF Maintain
<1> DEFINE gone == leaving[r] \cup unusable
<1>3. gone \subseteq Endpoints
  BY <1>1, <1>2 DEF TypeOK
<1>4. /\ leaving' = [leaving EXCEPT ![r] = {}]
      /\ UNCHANGED <<index, said, got, leaves, heard>>
  BY DEF Maintain
<1>5. /\ DOMAIN link' = Links
      /\ \A l \in Links : link'[l] = <<>> \/ link'[l] = link[l]
  BY <1>2
<1>6. TypeOK'
  <2>1. \A l \in Links : link'[l] \in Seq(Copies(Len(said)))
    <3>1. <<>> \in Seq(Copies(Len(said)))
      OBVIOUS
    <3> QED
      BY <1>1, <1>5, <3>1, TypeFacts
  <2>2. home' \in [Endpoints -> Routers \cup {Off}]
    BY <1>1, <1>2 DEF TypeOK
  <2>3. ends' \in [Routers -> SUBSET Endpoints] /\ recent' \in [Routers -> SUBSET Endpoints]
    BY <1>1, <1>2, <1>3 DEF TypeOK
  <2>4. \A s \in Routers : leaving'[s] \subseteq ends'[s]
    <3>1. ASSUME NEW s \in Routers PROVE leaving'[s] \subseteq ends'[s]
      <4>1. CASE s = r
        BY <1>1, <1>4, <4>1 DEF TypeOK
      <4>2. CASE s # r
        BY <1>1, <1>2, <1>4, <4>2 DEF TypeOK
      <4> QED
        BY <4>1, <4>2
    <3> QED
      BY <3>1
  <2> QED
    BY <1>1, <1>4, <1>5, <2>1, <2>2, <2>3, <2>4 DEF TypeOK, Copies
<1>7. OnlyDropped
  <2>1. DOMAIN <<>> = {}
    OBVIOUS
  <2> QED
    BY <1>5, <2>1 DEF OnlyDropped
<1>8. ASSUME leaves' = 0
      PROVE /\ leaves = 0 /\ UNCHANGED <<home, index>>
            /\ \A s \in Routers : leaving[s] = {} => leaving'[s] = {}
  <2>1. leaves = 0 /\ leaving[r] = {}
    BY <1>4, <1>8 DEF RouteInv, AllThere
  <2>2. \A e \in gone : home[e] # r
    BY <1>2, <2>1
  <2>3. home' = home
    BY <1>1, <1>2, <2>2 DEF TypeOK
  <2> QED
    BY <1>1, <1>4, <2>1, <2>3 DEF TypeOK
<1> QED
  BY <1>4, <1>6, <1>7, <1>8, DropInv

(* An entry of a table expires.                                            *)
LEMMA ExpireInv ==
    ASSUME RouteInv, NEW r \in Routers, NEW e \in Endpoints, Expire(r, e) \/ Outdate(r, e)
    PROVE  RouteInv'
<1>1. TypeOK
  BY DEF RouteInv
<1>2. UNCHANGED <<home, ends, leaving, link, said, got, leaves, heard>>
  BY DEF Expire, Outdate
<1>3. TypeOK'
  <2>1. /\ index' \in [Routers -> [Endpoints -> Routers \cup Endpoints \cup {None}]]
        /\ recent' \in [Routers -> SUBSET Endpoints]
    <3>1. CASE Expire(r, e)
      BY <1>1, <3>1 DEF TypeOK, Expire
    <3>2. CASE Outdate(r, e)
      BY <1>1, <3>2 DEF TypeOK, Outdate
    <3> QED
      BY <3>1, <3>2
  <2> QED
    BY <1>1, <1>2, <2>1 DEF TypeOK
<1>4. leaves' = 0 => index' = index
  <2>1. leaves = 0 => home[e] # Off
    BY RoutingAssumption DEF RouteInv, AllThere
  <2> QED
    BY <1>2, <2>1 DEF Expire, Outdate
<1>5. OnlyDropped
  BY <1>2 DEF OnlyDropped
<1> QED
  BY <1>2, <1>3, <1>4, <1>5, DropInv

(* An endpoint that joins has left before.                                 *)
LEMMA JoinInv ==
    ASSUME RouteInv, NEW e \in Endpoints, NEW r \in Routers, Join(e, r)
    PROVE  RouteInv'
<1>1. TypeOK
  BY DEF RouteInv
<1>2. leaves' = leaves /\ leaves # 0 /\ said' = said
  BY RoutingAssumption DEF RouteInv, AllThere, Join
<1>3. /\ DOMAIN link' = Links
      /\ \A l \in Links : link'[l] = <<>> \/ link'[l] = link[l]
  BY <1>1 DEF TypeOK, Join
<1>4. \A l \in Links : link'[l] \in Seq(Copies(Len(said)))
  <2>1. <<>> \in Seq(Copies(Len(said)))
    OBVIOUS
  <2> QED
    BY <1>1, <1>3, <2>1, TypeFacts
<1>5. /\ home' \in [Endpoints -> Routers \cup {Off}]
      /\ ends' \in [Routers -> SUBSET Endpoints]
      /\ recent' \in [Routers -> SUBSET Endpoints]
  BY <1>1 DEF TypeOK, Join
<1>6. \A s \in Routers : leaving'[s] \subseteq ends'[s]
  BY <1>1 DEF TypeOK, Join
<1>7. TypeOK'
  BY <1>1, <1>2, <1>3, <1>4, <1>5, <1>6 DEF TypeOK, Copies, Join
<1> QED
  BY <1>2, <1>7, DropInv

(* An endpoint that leaves, with a bye-bye or without.                     *)
LEMMA LeaveInv ==
    ASSUME RouteInv, NEW e \in Endpoints, Leave(e)
    PROVE  RouteInv'
<1> DEFINE m == [src |-> e, tgt |-> All, kind |-> "bye", known |-> TRUE]
           c == [msg |-> Len(said) + 1, hops |-> 0]
           p == <<e, home[e]>>
<1>1. TypeOK /\ AlivesToAll
  BY DEF RouteInv
<1>2. /\ Len(said) \in Nat /\ said \in Seq(Message) /\ DOMAIN said = 1..Len(said)
      /\ Len(said) <= MaxSays
      /\ \A l \in Links : link[l] \in Seq(Copies(Len(said)))
  BY <1>1, TypeFacts DEF TypeOK
<1>3. leaves' \in 0..MaxLeaves /\ leaves' # 0 /\ home' \in [Endpoints -> Routers \cup {Off}]
      /\ UNCHANGED <<ends, leaving, index, recent, got, heard>>
  <2>1. leaves \in 0..MaxLeaves /\ leaves < MaxLeaves /\ leaves' = leaves + 1 /\ MaxLeaves \in Nat
    BY <1>1, RoutingAssumption DEF TypeOK, Leave
  <2>2. home' \in [Endpoints -> Routers \cup {Off}]
    BY <1>1 DEF TypeOK, Leave
  <2> QED
    BY <2>1, <2>2 DEF Leave, tables
<1>4. CASE said' = said
  <2>1. /\ DOMAIN link' = Links
        /\ \A l \in Links : link'[l] = link[l] \/ link'[l] = <<>>
    <3>1. said' # Append(said, m)
      <4>1. Len(Append(said, m)) = Len(said) + 1
        BY <1>2
      <4>2. \A n \in Nat : n # n + 1
        OBVIOUS
      <4> HIDE DEF m
      <4> QED
        BY <1>2, <1>4, <4>1, <4>2, Zenon
    <3>2. link' = [link EXCEPT ![<<home[e], e>>] = <<>>]
      BY <3>1 DEF Leave
    <3> QED
      BY <1>1, <3>2 DEF TypeOK
  <2>2. \A l \in Links : link'[l] \in Seq(Copies(Len(said)))
    <3>1. <<>> \in Seq(Copies(Len(said)))
      OBVIOUS
    <3> QED
      BY <1>2, <2>1, <3>1
  <2>3. TypeOK'
    BY <1>1, <1>3, <1>4, <2>1, <2>2 DEF TypeOK, Copies
  <2> QED
    BY <1>3, <1>4, <2>3, DropInv
<1>5. CASE said' # said
  <2>1. /\ Len(said) + 1 <= MaxSays
        /\ said' = Append(said, m)
        /\ link' = [link EXCEPT ![<<home[e], e>>] = <<>>, ![p] = Append(@, c)]
    <3>1. /\ Len(said) < MaxSays
          /\ said' = Append(said, m)
          /\ link' = [link EXCEPT ![<<home[e], e>>] = <<>>, ![p] = Append(@, c)]
      BY <1>5 DEF Leave
    <3>2. Len(said) + 1 <= MaxSays
      BY <1>2, <3>1, RoutingAssumption
    <3> QED
      BY <3>1, <3>2
  <2>2. m \in Message /\ m.kind # "alive"
    BY DEF Message
  <2> HIDE DEF m
  <2>3. /\ said' \in Seq(Message) /\ Len(said') = Len(said) + 1
        /\ \A i \in 1..Len(said) : said'[i] = said[i]
        /\ said'[Len(said) + 1] = m
    BY <1>2, <2>1, <2>2
  <2>4. c \in Copies(Len(said) + 1)
    BY <1>2, RoutingAssumption DEF Copies
  <2> HIDE DEF c
  <2>5. ASSUME NEW l \in Links PROVE link'[l] \in Seq(Copies(Len(said) + 1))
    <3>1. link[l] \in Seq(Copies(Len(said) + 1)) /\ <<>> \in Seq(Copies(Len(said) + 1))
      BY <1>2, CopiesGrow
    <3>2. /\ Append(link[l], c) \in Seq(Copies(Len(said) + 1))
          /\ Append(<<>>, c) \in Seq(Copies(Len(said) + 1))
      BY <2>4, <3>1
    <3>3. \/ link'[l] = link[l] \/ link'[l] = <<>>
          \/ link'[l] = Append(link[l], c) \/ link'[l] = Append(<<>>, c)
      BY <1>1, <2>1 DEF TypeOK
    <3> QED
      BY <3>1, <3>2, <3>3
  <2>6. TypeOK'
    <3>1. DOMAIN link' = Links
      BY <1>1, <2>1 DEF TypeOK
    <3>2. heard \subseteq 1..Len(said')
      BY <1>1, <1>2, <2>3 DEF TypeOK
    <3>3. \A l \in Links : link'[l] \in Seq([msg : 1..Len(said'), hops : 0..MaxHops])
      BY <2>3, <2>5 DEF Copies
    <3> QED
      BY <1>1, <1>3, <2>1, <2>3, <3>1, <3>2, <3>3 DEF TypeOK
  <2>7. AlivesToAll'
    <3>1. ASSUME NEW i \in DOMAIN said', said'[i].kind = "alive" PROVE said'[i].tgt = All
      <4>1. i \in 1..Len(said) \/ i = Len(said) + 1
        BY <1>2, <2>3
      <4> QED
        BY <1>1, <1>2, <2>2, <2>3, <3>1, <4>1 DEF AlivesToAll
    <3> QED
      BY <3>1 DEF AlivesToAll
  <2> QED
    BY <1>3, <2>6, <2>7 DEF RouteInv, IndexTowardsHome
<1> QED
  BY <1>4, <1>5

(* A router that forwards a message, or drops it.                          *)
LEMMA RouteStep ==
    ASSUME RouteInv, NEW p \in Links, p[2] \in Routers, NEW k \in DOMAIN link[p],
           Route(p[2], p[1], k)
    PROVE  RouteInv'
<1> DEFINE r == p[2]
           c == link[p][k]
           m == said[c.msg]
           via == Via(r, p[1])
           outs == IF TooManyHops(c) \/ Swallowed(r, via, m) THEN {} ELSE Out(r, via, m.tgt)
           d == WithHop(c)
<1>1. /\ TypeOK /\ AlivesToAll /\ <<p[1], p[2]>> = p
      /\ r \in Routers /\ p[1] \in Routers \cup Endpoints
  BY LinkFacts DEF RouteInv
<1>2. /\ link[p] \in Seq(Copies(Len(said))) /\ c \in Copies(Len(said))
      /\ c.msg \in DOMAIN said /\ m \in Message /\ Len(said) \in Nat
  BY <1>1, TypeFacts
<1>3. /\ index' = IndexAfter(r, via, m)
      /\ leaving' = IF m.kind = "bye" /\ p[1] \in ends[r]
                    THEN [leaving EXCEPT ![r] = @ \cup {p[1]}] ELSE leaving
      /\ link' = [x \in Links |->
                     IF x = p THEN WithoutAt(link[x], k)
                     ELSE IF x[1] = r /\ x[2] \in outs THEN Append(link[x], d)
                     ELSE link[x]]
      /\ heard' = IF m.kind = "bye" /\ ~Swallowed(r, via, m) THEN heard \cup {c.msg} ELSE heard
      /\ UNCHANGED <<home, ends, recent, said, got, leaves>>
  BY <1>1 DEF Route
<1>4. via \in Routers \cup Endpoints
  BY <1>1 DEF Via
<1>5. ~TooManyHops(c) => d \in Copies(Len(said)) /\ d.msg = c.msg
  <2>1. c = [msg |-> c.msg, hops |-> c.hops] /\ c.msg \in 1..Len(said) /\ c.hops \in 0..MaxHops
    BY <1>2 DEF Copies
  <2> HIDE DEF c
  <2>2. d = [msg |-> c.msg, hops |-> c.hops + 1]
    BY <2>1 DEF WithHop
  <2>3. ASSUME ~TooManyHops(c) PROVE c.hops + 1 \in 0..MaxHops
    BY <2>1, <2>3, RoutingAssumption DEF TooManyHops
  <2> HIDE DEF d
  <2> QED
    BY <2>1, <2>2, <2>3 DEF Copies
<1>6. outs # {} => ~TooManyHops(c)
  OBVIOUS
<1>7. \A x \in Links : \/ x = p /\ link'[x] = WithoutAt(link[p], k)
                       \/ link'[x] = link[x]
                       \/ x # p /\ x[1] = r /\ x[2] \in outs /\ link'[x] = Append(link[x], d)
  BY <1>3
<1> HIDE DEF c, m, via, outs, d
<1>8. TypeOK'
  <2>1. \A x \in Links : link'[x] \in Seq(Copies(Len(said)))
    <3>1. WithoutAt(link[p], k) \in Seq(Copies(Len(said)))
      BY <1>2, WithoutFacts
    <3>2. ASSUME NEW x \in Links, outs # {} PROVE Append(link[x], d) \in Seq(Copies(Len(said)))
      BY <1>1, <1>5, <1>6, <3>2, TypeFacts
    <3> QED
      BY <1>1, <1>7, <3>1, <3>2, TypeFacts
  <2>2. index' \in [Routers -> [Endpoints -> Routers \cup Endpoints \cup {None}]]
    <3>1. m.src \in Endpoints
      BY <1>2 DEF Message
    <3>2. \/ index' = index
          \/ index' = [index EXCEPT ![r][m.src] = via]
          \/ index' = [index EXCEPT ![r][m.src] = None]
      BY <1>3 DEF IndexAfter
    <3>3. ASSUME NEW v \in Routers \cup Endpoints \cup {None}, NEW e \in Endpoints
          PROVE  [index EXCEPT ![r][e] = v]
                    \in [Routers -> [Endpoints -> Routers \cup Endpoints \cup {None}]]
      BY <1>1 DEF TypeOK
    <3>4. index \in [Routers -> [Endpoints -> Routers \cup Endpoints \cup {None}]]
      BY <1>1 DEF TypeOK
    <3>5. [index EXCEPT ![r][m.src] = via]
             \in [Routers -> [Endpoints -> Routers \cup Endpoints \cup {None}]]
      BY <1>4, <3>1, <3>3
    <3>6. [index EXCEPT ![r][m.src] = None]
             \in [Routers -> [Endpoints -> Routers \cup Endpoints \cup {None}]]
      BY <3>1, <3>3
    <3> QED
      BY <3>2, <3>4, <3>5, <3>6
  <2>3. /\ leaving' \in [Routers -> SUBSET Endpoints]
        /\ \A s \in Routers : leaving'[s] \subseteq ends'[s]
    BY <1>1, <1>3 DEF TypeOK
  <2>4. heard' \subseteq 1..Len(said')
    BY <1>1, <1>2, <1>3 DEF TypeOK
  <2>5. DOMAIN link' = Links
    BY <1>3
  <2> QED
    BY <1>1, <1>3, <2>1, <2>2, <2>3, <2>4, <2>5 DEF TypeOK, Copies
<1>9. AlivesToAll'
  BY <1>1, <1>3 DEF AlivesToAll
<1>10. ASSUME leaves' = 0 PROVE AllThere /\ AliveOutwards /\ leaves = 0
  BY <1>3, <1>10 DEF RouteInv
<1>11. ASSUME leaves' = 0 PROVE AllThere'
  <2>1. AllThere /\ m.kind # "bye"
    BY <1>2, <1>10, <1>11 DEF AllThere, m
  <2> QED
    BY <1>3, <2>1 DEF AllThere
<1>12. ASSUME leaves' = 0, m.kind = "alive" PROVE via = Towards(r, m.src)
  BY <1>1, <1>10, <1>12 DEF AliveOutwards, c, m, via
<1>13. ASSUME leaves' = 0 PROVE AliveOutwards'
  <2>1. ASSUME NEW x \in Links, NEW i \in DOMAIN link'[x],
               x[2] \in Routers, said'[link'[x][i].msg].kind = "alive"
        PROVE  Via(x[2], x[1]) = Towards(x[2], said[link[x][i].msg].src)'
    <3>1. CASE \E j \in DOMAIN link[x] : link'[x][i] = link[x][j]
      <4>1. \A n \in DOMAIN said : said'[n] = said[n]
        BY <1>3
      <4> QED
        BY <1>1, <1>3, <1>10, <1>13, <2>1, <3>1, <4>1, OutwardsKept
    <3>2. CASE ~ \E j \in DOMAIN link[x] : link'[x][i] = link[x][j]
      <4>1. x # p \/ link'[x] # WithoutAt(link[p], k)
        BY <1>2, <2>1, <3>2, WithoutFacts
      <4>2. x[1] = r /\ x[2] \in outs /\ link'[x] = Append(link[x], d)
        BY <1>7, <2>1, <3>2, <4>1
      <4>3. link'[x][i] = d
        <5>1. link[x] \in Seq(Copies(Len(said)))
          BY <1>1, TypeFacts
        <5>2. /\ i \in 1..(Len(link[x]) + 1)
              /\ Len(link[x]) \in Nat /\ DOMAIN link[x] = 1..Len(link[x])
              /\ link'[x][Len(link[x]) + 1] = d
              /\ \A j \in 1..Len(link[x]) : link'[x][j] = link[x][j]
          BY <1>5, <1>6, <2>1, <4>2, <5>1
        <5>3. i \notin 1..Len(link[x])
          BY <3>2, <5>2
        <5>4. i = Len(link[x]) + 1
          BY <5>2, <5>3
        <5> QED
          BY <5>2, <5>4
      <4>4. PICK e \in Endpoints : e = m.src
        BY <1>2 DEF Message
      <4>5. said'[link'[x][i].msg] = m
        BY <1>3, <1>5, <1>6, <4>2, <4>3 DEF m
      <4>6. m.kind = "alive" /\ m.tgt = All
        BY <1>1, <1>2, <2>1, <4>5 DEF AlivesToAll, m
      <4>7. via = Towards(r, e)
        BY <1>12, <1>13, <4>4, <4>6
      <4>8. x[2] \in Flood(r, via)
        <5>1. x[2] \notin ends[r]
          BY <1>1, <2>1, RoutingAssumption DEF TypeOK
        <5> QED
          BY <4>2, <4>6, <5>1 DEF outs, Out
      <4>9. Via(x[2], x[1]) = Towards(x[2], e)
        BY <1>1, <1>10, <1>13, <4>2, <4>7, <4>8, AwayStep DEF AllThere
      <4>10. Towards(x[2], e)' = Towards(x[2], e)
        BY <1>3 DEF Towards
      <4>11. Towards(x[2], said[link[x][i].msg].src)' = Towards(x[2], e)'
        BY <4>4, <4>5
      <4> QED
        BY <4>9, <4>10, <4>11
    <3> QED
      BY <3>1, <3>2
  <2> QED
    BY <2>1 DEF AliveOutwards
<1>14. IndexTowardsHome'
  <2>1. ASSUME leaves' = 0, NEW s \in Routers, NEW e \in Endpoints, index'[s][e] # None
        PROVE  index'[s][e] = Towards(s, e)'
    <3>1. Towards(s, e)' = Towards(s, e)
      BY <1>3 DEF Towards
    <3>2. index[s][e] # None => index[s][e] = Towards(s, e)
      BY <1>10, <2>1 DEF RouteInv, IndexTowardsHome
    <3>3. \/ index'[s][e] = index[s][e]
          \/ m.kind = "alive" /\ s = r /\ e = m.src /\ index'[s][e] = via
      <4>1. m.src \in Endpoints
        BY <1>2 DEF Message
      <4>2. \/ index' = index
            \/ m.kind = "alive" /\ index' = [index EXCEPT ![r][m.src] = via]
            \/ index' = [index EXCEPT ![r][m.src] = None]
        BY <1>3 DEF IndexAfter
      <4>3. \/ index' = index
            \/ m.kind = "alive" /\ index'[s] = IF s = r THEN [index[r] EXCEPT ![m.src] = via] ELSE index[s]
            \/ index'[s] = IF s = r THEN [index[r] EXCEPT ![m.src] = None] ELSE index[s]
        BY <1>1, <4>1, <4>2 DEF TypeOK
      <4>4. index[r] \in [Endpoints -> Routers \cup Endpoints \cup {None}]
        BY <1>1 DEF TypeOK
      <4> QED
        BY <2>1, <4>1, <4>3, <4>4
    <3> QED
      BY <1>12, <2>1, <3>1, <3>2, <3>3
  <2> QED
    BY <2>1 DEF IndexTowardsHome
<1> QED
  BY <1>8, <1>9, <1>11, <1>13, <1>14, <1>3 DEF RouteInv

(* The initial states.                                                     *)
LEMMA InitInv == Init => RouteInv
<1> SUFFICES ASSUME Init PROVE RouteInv
  OBVIOUS
<1>1. said = <<>> /\ Len(said) = 0 /\ DOMAIN said = {}
  BY DEF Init
<1>2. \A l \in Links : link[l] = <<>> /\ DOMAIN link[l] = {}
  BY DEF Init
<1>3. TypeOK
  <2>1. /\ home \in [Endpoints -> Routers \cup {Off}]
        /\ ends \in [Routers -> SUBSET Endpoints]
        /\ leaving \in [Routers -> SUBSET Endpoints]
        /\ \A r \in Routers : leaving[r] \subseteq ends[r]
        /\ index \in [Routers -> [Endpoints -> Routers \cup Endpoints \cup {None}]]
        /\ recent \in [Routers -> SUBSET Endpoints]
        /\ got \in [Endpoints -> [1..MaxSays -> Nat]]
        /\ heard \subseteq 1..Len(said)
    BY RoutingAssumption DEF Init
  <2>2. DOMAIN link = Links
    BY DEF Init
  <2>3. leaves \in 0..MaxLeaves /\ Len(said) <= MaxSays
    BY <1>1, RoutingAssumption DEF Init
  <2>4. said \in Seq(Message)
    BY <1>1
  <2>5. \A l \in Links : link[l] \in Seq([msg : 1..Len(said), hops : 0..MaxHops])
    <3> DEFINE C == [msg : 1..Len(said), hops : 0..MaxHops]
    <3>1. <<>> \in Seq(C)
      OBVIOUS
    <3> QED
      BY <1>2, <3>1
  <2> QED
    BY <2>1, <2>2, <2>3, <2>4, <2>5 DEF TypeOK
<1>4. AllThere
  BY <1>1, RoutingAssumption DEF Init, AllThere
<1>5. IndexTowardsHome
  BY DEF Init, IndexTowardsHome
<1> QED
  BY <1>1, <1>2, <1>3, <1>4, <1>5 DEF RouteInv, AliveOutwards, AlivesToAll

(* The invariant that both theorems follow from.                           *)
LEMMA RouteCorrect == Spec => []RouteInv
<1>1. RouteInv /\ [Next]_vars => RouteInv'
  <2> SUFFICES ASSUME RouteInv, [Next]_vars PROVE RouteInv'
    OBVIOUS
  <2>1. CASE RouteAny
    BY <2>1, RouteStep DEF RouteAny
  <2>2. CASE TooOldAny
    BY <2>2, TooOldInv DEF TooOldAny
  <2>3. CASE UNCHANGED vars
    <3>1. TypeOK' /\ OnlyDropped
      BY <2>3 DEF RouteInv, TypeOK, OnlyDropped, vars, tables
    <3> QED
      BY <2>3, <3>1, DropInv DEF vars, tables
  <2> QED
    BY <2>1, <2>2, <2>3, SayInv, ReceiveInv, LeaveInv, JoinInv, MaintainInv, ExpireInv DEF Next
<1> QED
  BY InitInv, <1>1, PTL DEF Spec

(* All variables keep their types, for any tree of routers: no copy makes  *)
(* more hops than the limit of _do_route_message.                          *)
THEOREM TypeCorrect == Spec => []TypeOK
<1>1. RouteInv => TypeOK
  BY DEF RouteInv
<1> QED
  BY RouteCorrect, <1>1, PTL

(* While nobody leaves, every entry that _handle_special makes in an index *)
(* points to the node towards the endpoint, for any tree of routers, in    *)
(* whatever order messages are forwarded, refused and dropped.             *)
THEOREM IndexCorrect == Spec => []IndexTowardsHome
<1>1. RouteInv => IndexTowardsHome
  BY DEF RouteInv
<1> QED
  BY RouteCorrect, <1>1, PTL
-----------------------------------------------------------------------------
(* The endpoints that a message on its way from a node to a neighbour may  *)
(* still come to, if it is not sent back.                                  *)
Beyond(x, y) == IF y \in Routers THEN {f \in Endpoints : Towards(y, f) # Via(y, x)}
                ELSE {y}

(* An endpoint that the k-th copy in a connection may come to, when it is  *)
(* one of the message i.                                                   *)
Ahead(f, i, l, k) == /\ link[l][k].msg = i
                     /\ f \in Beyond(l[1], l[2])

Straight(i) == said[i].tgt = All \/ said[i].known

(* One copy at most can still come to an endpoint, none if one has.        *)
OneAhead(f, i) ==
    \A l, x \in Links : \A k \in DOMAIN link[l], j \in DOMAIN link[x] :
        Ahead(f, i, l, k) /\ Ahead(f, i, x, j) => l = x /\ k = j
NoneAhead(f, i) == \A l \in Links : \A k \in DOMAIN link[l] : ~Ahead(f, i, l, k)

Once(f, i) ==
    /\ OneAhead(f, i)
    /\ got[f][i] \in {0, 1}
    /\ got[f][i] = 1 => NoneAhead(f, i)

(* Connections are used between neighbours.                                *)
HomeLinks ==
    /\ \A e \in Endpoints : e \in ends[home[e]]
    /\ \A r \in Routers, e \in Endpoints :
          link[<<r, e>>] # <<>> \/ link[<<e, r>>] # <<>> => home[e] = r

(* Messages come to their targets, and to no others.                       *)
ToTargets ==
    /\ \A i \in DOMAIN said : said[i].tgt # said[i].src
    /\ \A l \in Links : \A k \in DOMAIN link[l] :
          l[2] \in Endpoints => said[link[l][k].msg].tgt \in {l[2], All}
GotTargets ==
    \A e \in Endpoints : \A i \in 1..MaxSays :
        got[e][i] # 0 => i \in DOMAIN said /\ said[i].tgt \in {e, All}

(* What is known of a target stays known, and the target is ahead.         *)
KnownAhead ==
    \A i \in DOMAIN said :
        said[i].tgt # All /\ said[i].known =>
            /\ \A r \in Routers : index[r][said[i].tgt] # None
            /\ \A l \in Links : \A k \in DOMAIN link[l] :
                  link[l][k].msg = i => said[i].tgt \in Beyond(l[1], l[2])

(* Broadcasts do not come back.                                            *)
NotBack ==
    \A i \in DOMAIN said : said[i].tgt = All =>
        got[said[i].src][i] = 0 /\ NoneAhead(said[i].src, i)

OnceInv == leaves = 0 =>
    /\ HomeLinks /\ ToTargets /\ GotTargets /\ KnownAhead /\ NotBack
    /\ \A f \in Endpoints : \A i \in DOMAIN said : Straight(i) => Once(f, i)

(* From a router above the one of the endpoint, the way is through the     *)
(* child that is above it as well.                                         *)
LEMMA ChildTowards ==
    ASSUME NEW q \in Routers, NEW r \in Up(q), r # q
    PROVE  \E c \in Children(r) : c \in Up(q)
<1> SUFFICES ASSUME \A c \in Children(r) : c \notin Up(q) PROVE FALSE
  OBVIOUS
<1> DEFINE S == Up(q) \ {r}
<1>1. S \in SUBSET Routers /\ q \in S
  BY UpClosed
<1>2. ASSUME NEW x \in S PROVE Parent[x] \in S
  <2>1. x \in Up(q) /\ x # r /\ x \in Routers /\ Parent[x] \in Up(q)
    BY UpClosed
  <2> QED
    BY <2>1 DEF Children
<1>3. r \notin S
  OBVIOUS
<1> HIDE DEF S
<1> QED
  BY <1>1, <1>2, <1>3, UpLeast

(* Towards, by where the endpoint is.                                      *)
LEMMA TowardsCases ==
    ASSUME NEW e \in Endpoints, home[e] \in Routers, NEW r \in Routers
    PROVE  /\ Towards(r, e) = r <=> r \notin Up(home[e])
           /\ \A c \in Children(r) : Towards(r, e) = c <=> c \in Up(home[e])
           /\ \A f \in Endpoints : Towards(r, e) = f <=> f = e /\ home[e] = r
           /\ Towards(r, e) \in {r, e} \cup Children(r)
<1> DEFINE q == home[e]
<1>1. e \notin Routers /\ Children(r) \subseteq Routers \ {r}
  BY RoutingAssumption DEF Children
<1>2. q \in Up(q)
  BY UpClosed
<1>3. CASE q = r
  <2>1. Towards(r, e) = e
    BY <1>3 DEF Towards
  <2>2. \A c \in Children(r) : c \notin Up(q)
    BY <1>3, TreeAssumption DEF Children, HasParent
  <2> QED
    BY <1>1, <1>2, <1>3, <2>1, <2>2
<1>4. CASE q # r /\ r \notin Up(q)
  <2>1. Towards(r, e) = r
    BY <1>4 DEF Towards
  <2>2. \A c \in Children(r) : c \notin Up(q)
    BY <1>4, UpClosed DEF Children
  <2>3. \A f \in Endpoints : f # r
    BY RoutingAssumption
  <2> QED
    BY <1>1, <1>4, <2>1, <2>2, <2>3
<1>5. CASE q # r /\ r \in Up(q)
  <2>1. \E c \in Children(r) : c \in Up(q)
    BY <1>5, ChildTowards
  <2>2. Towards(r, e) \in Children(r) /\ Towards(r, e) \in Up(q)
    BY <1>5, <2>1 DEF Towards
  <2>3. \A c \in Children(r) : c \in Up(q) => c = Towards(r, e)
    BY <2>2, OneChild
  <2>4. \A f \in Endpoints : f \notin Routers
    BY RoutingAssumption
  <2> QED
    BY <1>1, <1>5, <2>2, <2>3, <2>4
<1> QED
  BY <1>3, <1>4, <1>5

(* The nodes that a router may send to.                                    *)
Neighbours(r) == Children(r) \cup ParentOf(r) \cup {e \in Endpoints : home[e] = r}

(* What is beyond the connection to a neighbour is what is reached through *)
(* it.                                                                     *)
LEMMA NeighbourBeyond ==
    ASSUME \A e \in Endpoints : home[e] \in Routers, NEW r \in Routers,
           NEW n \in Neighbours(r)
    PROVE  /\ Beyond(r, n) = {f \in Endpoints : Towards(r, f) = Via(r, n)}
           /\ Via(r, n) = IF n \in ParentOf(r) THEN r ELSE n
<1>1. CASE n \in Children(r)
  <2>1. n \in Routers /\ Parent[n] = r /\ n # r
    BY <1>1 DEF Children
  <2>2. n \notin Up(r) /\ Parent[r] \in Up(r)
    BY <2>1, TreeAssumption, UpClosed DEF HasParent
  <2>3. Via(n, r) = n /\ Via(r, n) = n /\ n \notin ParentOf(r)
    BY <2>1, <2>2 DEF Via, HasParent, ParentOf
  <2>4. \A f \in Endpoints : Towards(n, f) # n <=> Towards(r, f) = n
    BY <1>1, <2>1, TowardsCases
  <2> QED
    BY <2>1, <2>3, <2>4 DEF Beyond
<1>2. CASE n \in ParentOf(r)
  <2>1. HasParent(r) /\ n = Parent[r] /\ n \in Routers /\ n # r /\ r \in Children(n)
    BY <1>2, RoutingAssumption DEF ParentOf, HasParent, Children
  <2>2. r \notin Up(n) /\ Parent[n] \in Up(n)
    BY <2>1, TreeAssumption, UpClosed
  <2>3. Via(n, r) = r /\ Via(r, n) = r
    BY <2>1, <2>2 DEF Via
  <2>4. \A f \in Endpoints : Towards(n, f) # r <=> Towards(r, f) = r
    BY <2>1, TowardsCases
  <2> QED
    BY <1>2, <2>1, <2>3, <2>4 DEF Beyond
<1>3. CASE n \in Endpoints /\ home[n] = r
  <2>1. n \notin Routers /\ n \notin ParentOf(r) /\ Parent[r] \in Routers
    BY <1>3, RoutingAssumption DEF ParentOf
  <2>2. Via(r, n) = n
    BY <2>1 DEF Via
  <2>3. \A f \in Endpoints : Towards(r, f) = n <=> f = n
    BY <1>3, TowardsCases
  <2> QED
    BY <1>3, <2>1, <2>2, <2>3 DEF Beyond
<1> QED
  BY <1>1, <1>2, <1>3 DEF Neighbours

(* Neighbours are told apart by Via.                                       *)
LEMMA ViaInjective ==
    ASSUME \A e \in Endpoints : home[e] \in Routers, NEW r \in Routers,
           NEW n \in Neighbours(r), NEW x \in Neighbours(r), Via(r, n) = Via(r, x)
    PROVE  n = x
<1>1. \A y \in Neighbours(r) : Via(r, y) = IF y \in ParentOf(r) THEN r ELSE y
  BY NeighbourBeyond
<1>2. \A y \in Neighbours(r) : y # r
  BY RoutingAssumption DEF Neighbours, Children, ParentOf, HasParent
<1>3. \A y, z \in ParentOf(r) : y = z
  BY DEF ParentOf
<1> QED
  BY <1>1, <1>2, <1>3

(* A router's parent is not one of its children.                           *)
LEMMA ChildNotParent ==
    ASSUME NEW r \in Routers, NEW n \in Children(r)
    PROVE  n \notin ParentOf(r)
<1>1. n \in Routers /\ Parent[n] = r /\ n # r
  BY DEF Children
<1>2. n \notin Up(r) /\ Parent[r] \in Up(r)
  BY <1>1, TreeAssumption, UpClosed DEF HasParent
<1> QED
  BY <1>2 DEF ParentOf

(* Where a message is sent.                                                *)
LEMMA OutNeighbours ==
    ASSUME TypeOK, AllThere, NEW r \in Routers, NEW via, NEW t \in Endpoints \cup {All},
           leaves = 0, IndexTowardsHome, NEW n \in Out(r, via, t)
    PROVE  /\ n \in Neighbours(r)
           /\ n \in Endpoints => t \in {n, All}
           /\ t = All => Via(r, n) # via
<1>1. \A x : CanSend(r, x) => x \in Neighbours(r)
  BY DEF CanSend, Neighbours, TypeOK
<1>2. \A x \in Flood(r, via) : x \in Children(r) \cup ParentOf(r)
  BY DEF Flood
<1>3. Children(r) \cup ParentOf(r) \subseteq Routers
  BY RoutingAssumption DEF Children, ParentOf
<1>4. All \notin Endpoints
  BY RoutingAssumption
<1>5. n \in Neighbours(r)
  BY <1>1, <1>2 DEF Out, Neighbours
<1>6. Via(r, n) = IF n \in ParentOf(r) THEN r ELSE n
  BY <1>5, NeighbourBeyond DEF AllThere
<1>7. CASE t = All
  <2>1. CASE n \in Flood(r, via)
    <3>1. CASE n \in Children(r) /\ n # via
      BY <1>5, <1>6, <1>7, <3>1, ChildNotParent
    <3>2. CASE n \in ParentOf(r) /\ via # r
      BY <1>5, <1>6, <1>7, <3>2
    <3>3. n \in {x \in Children(r) : x # via} \/ (via # r /\ n \in ParentOf(r))
      BY <2>1 DEF Flood
    <3> QED
      BY <3>1, <3>2, <3>3
  <2>2. CASE n \in ends[r] /\ n # via
    <3>1. n \in Endpoints /\ n \notin Routers
      BY <2>2, RoutingAssumption DEF TypeOK
    <3> QED
      BY <1>3, <1>5, <1>6, <1>7, <2>2, <3>1
  <2> QED
    BY <1>7, <2>1, <2>2 DEF Out
<1>8. CASE t # All
  <2>1. ASSUME n \in Endpoints PROVE n = t
    <3>1. n \notin Children(r) \cup ParentOf(r)
      BY <1>3, <2>1, RoutingAssumption
    <3>2. n = t \/ n = index[r][t]
      BY <1>2, <1>8, <3>1 DEF Out
    <3>3. CASE n = index[r][t]
      <4>1. index[r][t] # None
        BY <2>1, <3>3, RoutingAssumption
      <4>2. n = Towards(r, t)
        BY <1>8, <3>3, <4>1 DEF IndexTowardsHome
      <4> QED
        BY <1>8, <2>1, <4>2, TowardsCases DEF AllThere
    <3> QED
      BY <3>2, <3>3
  <2> QED
    BY <1>5, <1>8, <2>1
<1> QED
  BY <1>7, <1>8

(* A message to a known target is sent towards it only.                    *)
LEMMA KnownOut ==
    ASSUME TypeOK, AllThere, NEW r \in Routers, NEW via, NEW t \in Endpoints,
           leaves = 0, IndexTowardsHome, index[r][t] # None, t \in ends[home[t]],
           NEW n \in Out(r, via, t)
    PROVE  Via(r, n) = Towards(r, t)
<1> DEFINE w == Towards(r, t)
<1>1. index[r][t] = w /\ home[t] \in Routers /\ t # All
  BY RoutingAssumption DEF IndexTowardsHome, AllThere
<1>2. \/ w = r
      \/ w = t /\ home[t] = r
      \/ w \in Children(r)
  BY <1>1, TowardsCases
<1>3. n \in Neighbours(r)
  BY OutNeighbours
<1>4. Via(r, n) = IF n \in ParentOf(r) THEN r ELSE n
  BY <1>3, NeighbourBeyond DEF AllThere
<1>5. CASE w = r
  BY <1>1, <1>4, <1>5 DEF Out
<1>6. CASE w # r
  <2>1. CanSend(r, w)
    BY <1>2, <1>6 DEF CanSend
  <2>2. n = w
    BY <1>1, <1>6, <2>1 DEF Out
  <2>3. w \notin ParentOf(r)
    <3>1. t \notin ParentOf(r)
      BY RoutingAssumption DEF ParentOf
    <3> QED
      BY <1>2, <1>6, <3>1, ChildNotParent
  <2> QED
    BY <1>4, <2>2, <2>3
<1> QED
  BY <1>5, <1>6
-----------------------------------------------------------------------------
(* The place that the i-th copy had before the k-th was taken out.         *)
Place(k, i) == IF i < k THEN i ELSE i + 1

(* What is in a connection was in it before, but for the k-th copy.        *)
Kept(s, t, k) == \A i \in DOMAIN t : Place(k, i) \in DOMAIN s /\ t[i] = s[Place(k, i)]

(* Taking one copy out, any or the oldest, all, or none.                   *)
LEMMA KeptFacts ==
    ASSUME NEW S, NEW s \in Seq(S)
    PROVE  /\ \A k \in DOMAIN s : Kept(s, WithoutAt(s, k), k)
           /\ s # <<>> => Kept(s, Tail(s), 1)
           /\ Kept(s, <<>>, 1)
           /\ Kept(s, s, Len(s) + 1)
<1>1. Len(s) \in Nat /\ DOMAIN s = 1..Len(s)
  OBVIOUS
<1>2. ASSUME NEW k \in DOMAIN s PROVE Kept(s, WithoutAt(s, k), k)
  <2> DEFINE x == SubSeq(s, 1, k - 1)
             y == SubSeq(s, k + 1, Len(s))
  <2>1. k \in 1..Len(s)
    BY <1>1
  <2>2. x \in Seq(S) /\ Len(x) = k - 1 /\ \A i \in 1..(k - 1) : x[i] = s[i]
    BY <1>1, <2>1
  <2>3. y \in Seq(S) /\ Len(y) = Len(s) - k /\ \A i \in 1..(Len(s) - k) : y[i] = s[k + i]
    BY <1>1, <2>1
  <2>4. WithoutAt(s, k) = x \o y
    BY DEF WithoutAt
  <2> HIDE DEF x, y
  <2>5. x \o y \in Seq(S) /\ Len(x \o y) = Len(s) - 1 /\ DOMAIN (x \o y) = 1..(Len(s) - 1)
    <3>1. x \in Seq(S) /\ y \in Seq(S) /\ Len(x) + Len(y) = Len(s) - 1
      BY <1>1, <2>1, <2>2, <2>3
    <3>2. x \o y \in Seq(S) /\ Len(x \o y) = Len(x) + Len(y)
      BY <3>1
    <3>3. DOMAIN (x \o y) = 1..Len(x \o y)
      BY <3>2
    <3> QED
      BY <3>1, <3>2, <3>3
  <2>6. ASSUME NEW i \in 1..(Len(s) - 1)
        PROVE  Place(k, i) \in 1..Len(s) /\ (x \o y)[i] = s[Place(k, i)]
    <3>1. CASE i < k
      <4>1. (x \o y)[i] = x[i] /\ i \in 1..(k - 1)
        BY <1>1, <2>1, <2>2, <2>3, <3>1
      <4> QED
        BY <1>1, <2>1, <2>2, <3>1, <4>1 DEF Place
    <3>2. CASE i > k - 1
      <4>1. (x \o y)[i] = y[i - (k - 1)] /\ i - (k - 1) \in 1..(Len(s) - k)
        BY <1>1, <2>1, <2>2, <2>3, <3>2
      <4>2. y[i - (k - 1)] = s[k + (i - (k - 1))] /\ k + (i - (k - 1)) = i + 1
        BY <1>1, <2>1, <2>3, <4>1
      <4>3. Place(k, i) = i + 1 /\ i + 1 \in 1..Len(s)
        BY <1>1, <3>2 DEF Place
      <4> QED
        BY <4>1, <4>2, <4>3
    <3>3. i < k \/ i > k - 1
      BY <1>1, <2>1
    <3> QED
      BY <3>1, <3>2, <3>3
  <2> QED
    BY <1>1, <2>4, <2>5, <2>6 DEF Kept
<1>3. ASSUME s # <<>> PROVE Kept(s, Tail(s), 1)
  <2>1. DOMAIN Tail(s) = 1..(Len(s) - 1) /\ \A i \in 1..(Len(s) - 1) : Tail(s)[i] = s[i + 1]
    BY <1>1, <1>3
  <2>2. \A i \in 1..(Len(s) - 1) : Place(1, i) = i + 1 /\ i + 1 \in 1..Len(s)
    BY <1>1 DEF Place
  <2> QED
    BY <1>1, <2>1, <2>2 DEF Kept
<1>4. Kept(s, <<>>, 1)
  BY DEF Kept
<1>5. Kept(s, s, Len(s) + 1)
  BY <1>1 DEF Kept, Place
<1> QED
  BY <1>2, <1>3, <1>4, <1>5

(* Different copies had different places, none that of the one taken out.  *)
LEMMA PlaceFacts ==
    ASSUME NEW k \in Nat, NEW i \in Nat
    PROVE  Place(k, i) # k /\ \A j \in Nat : Place(k, i) = Place(k, j) => i = j
BY DEF Place

(* What is beyond a connection depends on where the endpoints are only.    *)
LEMMA BeyondSame ==
    ASSUME home' = home, NEW x, NEW y
    PROVE  Beyond(x, y)' = Beyond(x, y)
<1>1. \A f \in Endpoints : Towards(y, f)' = Towards(y, f)
  BY DEF Towards
<1> QED
  BY <1>1 DEF Beyond

(* Copies are only taken out of the connections.                           *)
OnlyTaken == \A l \in Links : \E k \in Nat : Kept(link[l], link'[l], k)

(* A copy that is still there is ahead of the same endpoints.              *)
LEMMA AheadKept ==
    ASSUME TypeOK, TypeOK', home' = home, OnlyTaken, NEW f, NEW i
    PROVE  /\ OneAhead(f, i) => OneAhead(f, i)'
           /\ NoneAhead(f, i) => NoneAhead(f, i)'
<1>1. \A l \in Links : DOMAIN link[l] \subseteq Nat /\ DOMAIN link'[l] \subseteq Nat
  <2>1. ASSUME NEW l \in Links PROVE DOMAIN link[l] \subseteq Nat
    BY TypeFacts
  <2>2. ASSUME NEW l \in Links PROVE DOMAIN link'[l] \subseteq Nat
    BY DEF TypeOK
  <2> QED
    BY <2>1, <2>2
<1>2. ASSUME NEW l \in Links, NEW n \in Nat, Kept(link[l], link'[l], n), NEW k \in DOMAIN link'[l],
             Ahead(f, i, l, k)'
      PROVE  Place(n, k) \in DOMAIN link[l] /\ Ahead(f, i, l, Place(n, k))
  BY <1>2, BeyondSame DEF Kept, Ahead
<1>3. ASSUME OneAhead(f, i), NEW l \in Links, NEW x \in Links,
             NEW k \in DOMAIN link'[l], NEW j \in DOMAIN link'[x],
             Ahead(f, i, l, k)', Ahead(f, i, x, j)'
      PROVE  l = x /\ k = j
  <2>1. PICK n \in Nat : Kept(link[l], link'[l], n)
    BY DEF OnlyTaken
  <2>2. PICK o \in Nat : Kept(link[x], link'[x], o)
    BY DEF OnlyTaken
  <2>3. l = x
    BY <1>2, <1>3, <2>1, <2>2 DEF OneAhead
  <2>4. Place(n, k) = Place(n, j)
    BY <1>2, <1>3, <2>1, <2>3 DEF OneAhead
  <2>5. k \in Nat /\ j \in Nat
    BY <1>1
  <2> QED
    BY <2>3, <2>4, <2>5, PlaceFacts
<1>4. ASSUME NoneAhead(f, i), NEW l \in Links, NEW k \in DOMAIN link'[l], Ahead(f, i, l, k)'
      PROVE  FALSE
  <2>1. PICK n \in Nat : Kept(link[l], link'[l], n)
    BY DEF OnlyTaken
  <2> QED
    BY <1>2, <1>4, <2>1 DEF NoneAhead
<1>5. OneAhead(f, i) => OneAhead(f, i)'
  BY <1>3 DEF OneAhead
<1>6. NoneAhead(f, i) => NoneAhead(f, i)'
  BY <1>4 DEF NoneAhead
<1> QED
  BY <1>5, <1>6

(* What holds of the copies that are still there.                          *)
LEMMA TakenParts ==
    ASSUME RouteInv, TypeOK', OnceInv, leaves = 0, UNCHANGED <<home, said, index>>,
           \A e \in Endpoints : e \in ends[home[e]] => e \in ends'[home[e]], OnlyTaken
    PROVE  HomeLinks' /\ ToTargets' /\ KnownAhead'
<1>1. TypeOK /\ HomeLinks /\ ToTargets /\ KnownAhead
  BY DEF RouteInv, OnceInv
<1>2. ASSUME NEW l \in Links, NEW k \in DOMAIN link'[l]
      PROVE  \E j \in DOMAIN link[l] : link'[l][k] = link[l][j]
  BY DEF OnlyTaken, Kept
<1>3. HomeLinks'
  <2>1. ASSUME NEW l \in Links, link'[l] # <<>> PROVE link[l] # <<>>
    <3>1. link'[l] \in Seq([msg : 1..Len(said'), hops : 0..MaxHops])
      BY DEF TypeOK
    <3>2. 1 \in DOMAIN link'[l]
      BY <2>1, <3>1
    <3>3. PICK j \in DOMAIN link[l] : TRUE
      BY <1>2, <3>2
    <3>4. DOMAIN <<>> = {}
      OBVIOUS
    <3> QED
      BY <3>3, <3>4
  <2>2. \A r \in Routers, e \in Endpoints : <<r, e>> \in Links /\ <<e, r>> \in Links
    BY LinkFacts
  <2> QED
    BY <1>1, <2>1, <2>2 DEF HomeLinks
<1>4. ToTargets'
  BY <1>1, <1>2 DEF ToTargets
<1>5. KnownAhead'
  <2>1. ASSUME NEW i \in DOMAIN said, said[i].tgt # All, said[i].known
        PROVE  /\ \A r \in Routers : index[r][said[i].tgt] # None
               /\ \A l \in Links : \A k \in DOMAIN link'[l] :
                     link'[l][k].msg = i => said[i].tgt \in Beyond(l[1], l[2])
    BY <1>1, <1>2, <2>1 DEF KnownAhead
  <2> QED
    BY <2>1, BeyondSame DEF KnownAhead
<1> QED
  BY <1>3, <1>4, <1>5

(* Steps that take copies out, without giving them to an endpoint.         *)
LEMMA DropOnce ==
    ASSUME RouteInv, TypeOK', OnceInv,
           leaves' = 0 => /\ leaves = 0 /\ UNCHANGED <<home, said, index, got>>
                          /\ \A e \in Endpoints : e \in ends[home[e]] => e \in ends'[home[e]]
                          /\ OnlyTaken
    PROVE  OnceInv'
<1> SUFFICES ASSUME leaves' = 0
             PROVE  /\ (HomeLinks /\ ToTargets /\ GotTargets /\ KnownAhead /\ NotBack)'
                    /\ \A f \in Endpoints : \A i \in DOMAIN said' : Straight(i)' => Once(f, i)'
  BY DEF OnceInv
<1>1. HomeLinks' /\ ToTargets' /\ KnownAhead'
  BY TakenParts
<1>2. TypeOK /\ GotTargets /\ NotBack
  BY DEF RouteInv, OnceInv
<1>3. GotTargets'
  BY <1>2 DEF GotTargets
<1>4. \A f, i : NoneAhead(f, i) => NoneAhead(f, i)'
  BY <1>2, AheadKept
<1>5. NotBack'
  BY <1>2, <1>4 DEF NotBack
<1>6. ASSUME NEW f \in Endpoints, NEW i \in DOMAIN said', Straight(i)' PROVE Once(f, i)'
  <2>1. Once(f, i)
    BY <1>6 DEF OnceInv, Straight
  <2>2. OneAhead(f, i)'
    BY <1>2, <2>1, AheadKept DEF Once
  <2> QED
    BY <1>4, <2>1, <2>2 DEF Once
<1> QED
  BY <1>1, <1>3, <1>5, <1>6

(* The maintenance, a message that gets too old, an entry that expires.    *)
LEMMA MaintainOnce ==
    ASSUME RouteInv, RouteInv', OnceInv, NEW r \in Routers, Maintain(r)
    PROVE  OnceInv'
<1>1. TypeOK /\ TypeOK'
  BY DEF RouteInv
<1>2. PICK unusable \in SUBSET {e \in ends[r] : home[e] # r} :
          LET gone == leaving[r] \cup unusable
          IN  /\ ends' = [ends EXCEPT ![r] = @ \ gone]
              /\ home' = [e \in Endpoints |->
                             IF e \in gone /\ home[e] = r THEN Off ELSE home[e]]
              /\ link' = [l \in Links |->
                             IF l \in (gone \X {r}) \cup ({r} \X gone)
                             THEN <<>> ELSE link[l]]
  BY DEF Maintain
<1>3. UNCHANGED <<index, said, got, leaves>>
  BY DEF Maintain
<1>4. OnlyTaken
  <2>1. ASSUME NEW l \in Links PROVE \E k \in Nat : Kept(link[l], link'[l], k)
    <3>1. link[l] \in Seq(Copies(Len(said))) /\ Len(link[l]) + 1 \in Nat
      BY <1>1, TypeFacts
    <3>2. link'[l] = <<>> \/ link'[l] = link[l]
      BY <1>2
    <3>3. Kept(link[l], <<>>, 1) /\ Kept(link[l], link[l], Len(link[l]) + 1)
      BY <3>1, KeptFacts
    <3>4. CASE link'[l] = <<>>
      BY <3>3, <3>4
    <3>5. CASE link'[l] = link[l]
      BY <3>1, <3>3, <3>5
    <3> QED
      BY <3>2, <3>4, <3>5
  <2> QED
    BY <2>1 DEF OnlyTaken
<1>5. ASSUME leaves' = 0
      PROVE  leaves = 0 /\ home' = home /\ \A e \in Endpoints : e \in ends[home[e]] => e \in ends'[home[e]]
  <2>1. leaves = 0 /\ leaving[r] = {}
    BY <1>3, <1>5 DEF RouteInv, AllThere
  <2>2. home' = home
    BY <1>1, <1>2, <2>1 DEF TypeOK
  <2>3. \A e \in Endpoints : home[e] \in Routers
    BY <2>1 DEF RouteInv, AllThere
  <2>4. ASSUME NEW e \in Endpoints, e \in ends[home[e]] PROVE e \in ends'[home[e]]
    <3>1. ends'[home[e]] = IF home[e] = r THEN ends[r] \ (leaving[r] \cup unusable) ELSE ends[home[e]]
      BY <1>1, <1>2, <2>3 DEF TypeOK
    <3> QED
      BY <1>2, <2>1, <2>4, <3>1
  <2> QED
    BY <2>1, <2>2, <2>4
<1> QED
  BY <1>1, <1>3, <1>4, <1>5, DropOnce

(* A message that gets too old.                                            *)
LEMMA TooOldOnce ==
    ASSUME RouteInv, RouteInv', OnceInv, NEW p \in Links, NEW k \in DOMAIN link[p],
           TooOld(p[2], p[1], k)
    PROVE  OnceInv'
<1>1. TypeOK /\ TypeOK' /\ <<p[1], p[2]>> = p
  BY LinkFacts DEF RouteInv
<1>2. UNCHANGED <<home, ends, index, said, got, leaves>>
  BY DEF TooOld, tables
<1>3. link' = [link EXCEPT ![p] = WithoutAt(@, k)]
  BY <1>1 DEF TooOld
<1>4. ASSUME NEW l \in Links PROVE \E n \in Nat : Kept(link[l], link'[l], n)
  <2>1. link[l] \in Seq(Copies(Len(said))) /\ Len(link[l]) + 1 \in Nat
    BY <1>1, TypeFacts
  <2>2. CASE l = p
    <3>1. Kept(link[p], WithoutAt(link[p], k), k) /\ k \in Nat
      BY <2>1, <2>2, KeptFacts
    <3>2. link'[l] = WithoutAt(link[p], k)
      BY <1>1, <1>3, <2>2 DEF TypeOK
    <3> QED
      BY <2>2, <3>1, <3>2
  <2>3. CASE l # p
    <3>1. Kept(link[l], link[l], Len(link[l]) + 1)
      BY <2>1, KeptFacts
    <3>2. link'[l] = link[l]
      BY <1>1, <1>3, <2>3 DEF TypeOK
    <3> QED
      BY <2>1, <3>1, <3>2
  <2> QED
    BY <2>2, <2>3
<1>5. OnlyTaken
  BY <1>4 DEF OnlyTaken
<1> QED
  BY <1>1, <1>2, <1>5, DropOnce

(* Nothing happens to the connections.                                     *)
LEMMA SameOnce ==
    ASSUME RouteInv, RouteInv', OnceInv,
           leaves' = 0 => leaves = 0 /\ UNCHANGED <<home, said, index, got, ends, link>>
    PROVE  OnceInv'
<1>1. TypeOK /\ TypeOK'
  BY DEF RouteInv
<1>2. ASSUME link' = link PROVE OnlyTaken
  <2>1. ASSUME NEW l \in Links PROVE \E n \in Nat : Kept(link[l], link[l], n)
    <3>1. link[l] \in Seq(Copies(Len(said))) /\ Len(link[l]) + 1 \in Nat
      BY <1>1, TypeFacts
    <3>2. Kept(link[l], link[l], Len(link[l]) + 1)
      BY <3>1, KeptFacts
    <3> QED
      BY <3>1, <3>2
  <2> QED
    BY <1>2, <2>1 DEF OnlyTaken
<1> QED
  BY <1>1, <1>2, DropOnce

(* An endpoint that receives: it was ahead of the copy, so that no other   *)
(* one can come, and none has.                                             *)
LEMMA ReceiveOnce ==
    ASSUME RouteInv, RouteInv', OnceInv, NEW e \in Endpoints, Receive(e)
    PROVE  OnceInv'
<1> SUFFICES ASSUME leaves' = 0
             PROVE  /\ (HomeLinks /\ ToTargets /\ GotTargets /\ KnownAhead /\ NotBack)'
                    /\ \A f \in Endpoints : \A i \in DOMAIN said' : Straight(i)' => Once(f, i)'
  BY DEF OnceInv
<1> DEFINE p == <<home[e], e>>
           m == Head(link[p]).msg
<1>1. TypeOK /\ TypeOK' /\ UNCHANGED <<home, ends, index, said, leaves>> /\ leaves = 0
  BY DEF RouteInv, Receive, tables
<1>2. p \in Links /\ p[2] = e /\ e \notin Routers /\ home[e] \in Routers
  BY <1>1, LinkFacts, RoutingAssumption DEF RouteInv, AllThere
<1>3. /\ link' = [link EXCEPT ![p] = Tail(@)]
      /\ got' = [got EXCEPT ![e][m] = @ + 1]
      /\ link[p] # <<>>
  BY DEF Receive
<1>4. /\ link[p] \in Seq(Copies(Len(said))) /\ 1 \in DOMAIN link[p] /\ link[p][1].msg = m
      /\ m \in DOMAIN said
  <2>1. link[p] \in Seq(Copies(Len(said)))
    BY <1>1, <1>2, TypeFacts
  <2>2. 1 \in DOMAIN link[p] /\ link[p][1] = Head(link[p])
    BY <1>3, <2>1
  <2> QED
    BY <1>1, <1>2, <2>1, <2>2, TypeFacts
<1> HIDE DEF p, m
<1>5. \A l \in Links : link'[l] = IF l = p THEN Tail(link[p]) ELSE link[l]
  BY <1>1, <1>3 DEF TypeOK
<1>6. Kept(link[p], link'[p], 1)
  BY <1>2, <1>3, <1>4, <1>5, KeptFacts
<1>7. OnlyTaken
  <2>1. ASSUME NEW l \in Links, l # p PROVE \E n \in Nat : Kept(link[l], link'[l], n)
    <3>1. link[l] \in Seq(Copies(Len(said))) /\ Len(link[l]) + 1 \in Nat
      BY <1>1, TypeFacts
    <3>2. Kept(link[l], link[l], Len(link[l]) + 1)
      BY <3>1, KeptFacts
    <3> QED
      BY <1>5, <2>1, <3>1, <3>2
  <2> QED
    BY <1>6, <2>1 DEF OnlyTaken
<1>8. HomeLinks' /\ ToTargets' /\ KnownAhead'
  BY <1>1, <1>7, TakenParts
<1>9. \A f \in Endpoints : \A i \in 1..MaxSays :
          got'[f][i] = IF f = e /\ i = m THEN got[e][m] + 1 ELSE got[f][i]
  BY <1>1, <1>3 DEF TypeOK
<1>10. GotTargets /\ NotBack /\ ToTargets
  BY <1>1 DEF OnceInv
<1>11. said[m].tgt \in {e, All}
  BY <1>2, <1>4, <1>10 DEF ToTargets
<1>12. DOMAIN said = 1..Len(said) /\ DOMAIN said \subseteq 1..MaxSays
  <2>1. DOMAIN said = 1..Len(said) /\ Len(said) \in Nat
    BY <1>1, TypeFacts
  <2>2. Len(said) <= MaxSays /\ MaxSays \in Nat
    BY <1>1, RoutingAssumption DEF TypeOK
  <2> QED
    BY <2>1, <2>2
<1>13. GotTargets'
  BY <1>1, <1>4, <1>9, <1>10, <1>11 DEF GotTargets
<1>14. Ahead(e, m, p, 1)
  BY <1>2, <1>4 DEF Ahead, Beyond
<1>15. ~NoneAhead(e, m)
  BY <1>2, <1>4, <1>14 DEF NoneAhead
<1>16. \A f, i : NoneAhead(f, i) => NoneAhead(f, i)'
  BY <1>1, <1>7, AheadKept
<1>17. NotBack'
  <2>1. ASSUME NEW i \in DOMAIN said, said[i].tgt = All
        PROVE  got'[said[i].src][i] = 0 /\ NoneAhead(said[i].src, i)'
    <3>1. got[said[i].src][i] = 0 /\ NoneAhead(said[i].src, i)
      BY <1>10, <2>1 DEF NotBack
    <3>2. said[i] \in Message /\ i \in 1..MaxSays
      BY <1>1, <1>12, <2>1 DEF TypeOK
    <3>3. PICK f \in Endpoints : f = said[i].src
      BY <3>2 DEF Message
    <3>4. ~(f = e /\ i = m) /\ NoneAhead(f, i)'
      BY <1>15, <1>16, <3>1, <3>3
    <3>5. got'[f][i] = got[f][i]
      BY <1>9, <3>2, <3>4
    <3>6. NoneAhead(said[i].src, i)' <=> NoneAhead(f, i)'
      BY <1>1, <3>3 DEF NoneAhead, Ahead
    <3> QED
      BY <3>1, <3>3, <3>4, <3>5, <3>6
  <2> QED
    BY <1>1, <2>1 DEF NotBack
<1>18. ASSUME NEW f \in Endpoints, NEW i \in DOMAIN said', Straight(i)' PROVE Once(f, i)'
  <2>1. Once(f, i) /\ i \in DOMAIN said
    BY <1>1, <1>18 DEF OnceInv, Straight
  <2>2. OneAhead(f, i)'
    BY <1>1, <1>7, <2>1, AheadKept DEF Once
  <2>3. CASE f = e /\ i = m
    <3>1. got[e][m] = 0
      BY <1>15, <2>1, <2>3 DEF Once
    <3>2. got'[e][m] = 1
      BY <1>9, <1>12, <2>1, <2>3, <3>1
    <3>3. ASSUME NEW l \in Links, NEW k \in DOMAIN link'[l], Ahead(f, i, l, k)' PROVE FALSE
      <4>1. PICK n \in Nat : Kept(link[l], link'[l], n) /\ (l = p => n = 1)
        <5>1. CASE l = p
          BY <1>6, <5>1
        <5>2. CASE l # p
          BY <1>7, <5>2 DEF OnlyTaken
        <5> QED
          BY <5>1, <5>2
      <4>2. Place(n, k) \in DOMAIN link[l] /\ Ahead(f, i, l, Place(n, k))
        BY <1>1, <3>3, <4>1, BeyondSame DEF Ahead, Kept
      <4>3. l = p /\ Place(n, k) = 1
        BY <1>2, <1>4, <1>14, <2>1, <2>3, <4>2 DEF Once, OneAhead
      <4>4. k \in Nat
        BY <1>1 DEF TypeOK
      <4> QED
        BY <4>1, <4>3, <4>4, PlaceFacts
    <3>4. NoneAhead(f, i)'
      BY <3>3 DEF NoneAhead
    <3>5. got'[f][i] = 1
      BY <2>3, <3>2
    <3> QED
      BY <2>2, <3>4, <3>5 DEF Once
  <2>4. CASE ~(f = e /\ i = m)
    <3>1. got'[f][i] = got[f][i]
      BY <1>9, <1>12, <2>1, <2>4
    <3> QED
      BY <1>16, <2>1, <2>2, <3>1 DEF Once
  <2> QED
    BY <2>3, <2>4
<1> QED
  BY <1>8, <1>13, <1>17, <1>18

(* Where the copies are after an endpoint said something: where they were, *)
(* and one in the connection to its router.                                *)
LEMMA SayPlaces ==
    ASSUME TypeOK, NEW p \in Links, NEW c, link' = [link EXCEPT ![p] = Append(@, c)],
           NEW l \in Links, NEW k \in DOMAIN link'[l]
    PROVE  \/ k \in DOMAIN link[l] /\ link'[l][k] = link[l][k] /\ link[l][k].msg \in DOMAIN said
           \/ l = p /\ k = Len(link[p]) + 1 /\ link'[l][k] = c
<1>1. link[l] \in Seq(Copies(Len(said)))
  BY TypeFacts
<1>2. CASE l = p
  <2>1. link'[l] = Append(link[l], c)
    BY <1>2 DEF TypeOK
  <2>2. /\ DOMAIN link'[l] = 1..(Len(link[l]) + 1) /\ DOMAIN link[l] = 1..Len(link[l])
        /\ Len(link[l]) \in Nat
        /\ \A i \in 1..Len(link[l]) : link'[l][i] = link[l][i]
        /\ link'[l][Len(link[l]) + 1] = c
    BY <1>1, <2>1
  <2>3. k \in 1..Len(link[l]) \/ k = Len(link[l]) + 1
    BY <2>2
  <2> QED
    BY <1>2, <2>2, <2>3, TypeFacts
<1>3. CASE l # p
  <2>1. link'[l] = link[l]
    BY <1>3 DEF TypeOK
  <2> QED
    BY <2>1, TypeFacts
<1> QED
  BY <1>2, <1>3

(* An endpoint that says something: its message has one copy, which has    *)
(* all the others ahead of it.                                             *)
LEMMA SayOnce ==
    ASSUME RouteInv, RouteInv', OnceInv, NEW e \in Endpoints, NEW t \in Endpoints \cup {All},
           NEW kind \in {"alive", "data"}, Say(e, t, kind)
    PROVE  OnceInv'
<1> SUFFICES ASSUME leaves' = 0
             PROVE  /\ (HomeLinks /\ ToTargets /\ GotTargets /\ KnownAhead /\ NotBack)'
                    /\ \A f \in Endpoints : \A i \in DOMAIN said' : Straight(i)' => Once(f, i)'
  BY DEF OnceInv
<1> DEFINE m == [src |-> e, tgt |-> t, kind |-> kind, known |-> Known(t)]
           n == Len(said) + 1
           c == [msg |-> n, hops |-> 0]
           p == <<e, home[e]>>
<1>1. TypeOK /\ TypeOK' /\ UNCHANGED <<home, ends, index, got, leaves>> /\ leaves = 0
  BY DEF RouteInv, Say, tables
<1>2. AllThere /\ home[e] \in Routers /\ p \in Links /\ p[1] = e /\ p[2] = home[e]
  BY <1>1, LinkFacts DEF RouteInv, AllThere
<1>3. /\ said \in Seq(Message) /\ Len(said) \in Nat /\ DOMAIN said = 1..Len(said)
      /\ n \in 1..MaxSays /\ DOMAIN said \subseteq 1..MaxSays /\ n \notin DOMAIN said
  <2>1. said \in Seq(Message) /\ Len(said) \in Nat /\ DOMAIN said = 1..Len(said)
    BY <1>1, TypeFacts
  <2>2. Len(said) < MaxSays /\ MaxSays \in Nat
    BY RoutingAssumption DEF Say
  <2> QED
    BY <2>1, <2>2
<1>4. /\ said' = Append(said, m) /\ t # e
      /\ link' = [link EXCEPT ![p] = Append(@, c)]
  BY DEF Say
<1>5. m.src = e /\ m.tgt = t /\ m.known = Known(t) /\ c.msg = n
  OBVIOUS
<1> HIDE DEF m, c, n, p
<1>6. /\ DOMAIN said' = DOMAIN said \cup {n} /\ said'[n] = m
      /\ \A i \in DOMAIN said : said'[i] = said[i]
  <2>1. n = Len(said) + 1
    BY DEF n
  <2> QED
    BY <1>3, <1>4, <2>1
<1>7. \A l \in Links : \A k \in DOMAIN link'[l] :
          \/ k \in DOMAIN link[l] /\ link'[l][k] = link[l][k] /\ link[l][k].msg \in DOMAIN said
          \/ l = p /\ k = Len(link[p]) + 1 /\ link'[l][k] = c
  BY <1>1, <1>2, <1>4, SayPlaces
<1>8. HomeLinks /\ ToTargets /\ GotTargets /\ KnownAhead /\ NotBack
  BY <1>1 DEF OnceInv
<1>9. \A f \in Endpoints : f \in Beyond(p[1], p[2]) <=> f # e
  <2>1. Via(home[e], e) = e
    BY <1>2, RoutingAssumption DEF Via, HasParent
  <2>2. ASSUME NEW f \in Endpoints PROVE Towards(home[e], f) = e <=> f = e
    BY <1>2, TowardsCases DEF AllThere
  <2> QED
    BY <1>2, <2>1, <2>2 DEF Beyond
<1>10. HomeLinks'
  <2>1. \A l \in Links : l # p => link'[l] = link[l]
    BY <1>1, <1>4 DEF TypeOK
  <2>2. \A r \in Routers, f \in Endpoints : <<r, f>> \in Links /\ <<f, r>> \in Links
    BY LinkFacts
  <2>3. ASSUME NEW r \in Routers, NEW f \in Endpoints, link'[<<r, f>>] # <<>> \/ link'[<<f, r>>] # <<>>
        PROVE  home[f] = r
    <3>1. CASE <<f, r>> = p
      BY <1>2, <3>1
    <3>2. CASE <<r, f>> = p
      BY <1>2, <3>2, RoutingAssumption
    <3>3. CASE <<f, r>> # p /\ <<r, f>> # p
      BY <1>8, <2>1, <2>2, <2>3, <3>3 DEF HomeLinks
    <3> QED
      BY <3>1, <3>2, <3>3
  <2> QED
    BY <1>1, <1>8, <2>3 DEF HomeLinks
<1>11. ToTargets'
  <2>1. \A i \in DOMAIN said' : said'[i].tgt # said'[i].src
    BY <1>4, <1>5, <1>6, <1>8 DEF ToTargets
  <2>2. ASSUME NEW l \in Links, NEW k \in DOMAIN link'[l], l[2] \in Endpoints
        PROVE  said'[link'[l][k].msg].tgt \in {l[2], All}
    <3>1. l # p
      BY <1>2, <2>2, RoutingAssumption
    <3> QED
      BY <1>6, <1>7, <1>8, <2>2, <3>1 DEF ToTargets
  <2> QED
    BY <2>1, <2>2 DEF ToTargets
<1>12. GotTargets'
  BY <1>1, <1>6, <1>8 DEF GotTargets
<1>13. \A f \in Endpoints : got[f][n] = 0
  BY <1>3, <1>8 DEF GotTargets
<1>14. ASSUME NEW l \in Links, NEW k \in DOMAIN link'[l], NEW f, NEW i \in DOMAIN said, Ahead(f, i, l, k)'
       PROVE  k \in DOMAIN link[l] /\ Ahead(f, i, l, k)
  BY <1>1, <1>3, <1>5, <1>7, <1>14, BeyondSame DEF Ahead
<1>15. ASSUME NEW l \in Links, NEW k \in DOMAIN link'[l], link'[l][k].msg = n
       PROVE  l = p /\ k = Len(link[p]) + 1
  BY <1>3, <1>7, <1>15
<1>16. ASSUME NEW i \in DOMAIN said', said'[i].tgt # All, said'[i].known
       PROVE  /\ \A r \in Routers : index[r][said'[i].tgt] # None
              /\ \A l \in Links : \A k \in DOMAIN link'[l] :
                    link'[l][k].msg = i => said'[i].tgt \in Beyond(l[1], l[2])
  <2>1. CASE i \in DOMAIN said
    <3>1. \A l \in Links : \A k \in DOMAIN link'[l] : link'[l][k].msg = i =>
              k \in DOMAIN link[l] /\ link[l][k].msg = i
      BY <1>3, <1>5, <1>7, <2>1
    <3> QED
      BY <1>6, <1>8, <1>16, <2>1, <3>1 DEF KnownAhead
  <2>2. CASE i = n
    <3>1. t # All /\ Known(t) /\ t \in Endpoints /\ said'[i].tgt = t
      BY <1>5, <1>6, <1>16, <2>2
    <3>2. \A r \in Routers : index[r][t] # None
      BY <3>1 DEF Known
    <3>3. t \in Beyond(p[1], p[2])
      BY <1>4, <1>9, <3>1
    <3> QED
      BY <1>15, <2>2, <3>1, <3>2, <3>3
  <2> QED
    BY <1>6, <2>1, <2>2
<1>17. KnownAhead'
  BY <1>1, <1>16, BeyondSame DEF KnownAhead
<1>18. ASSUME NEW i \in DOMAIN said', said'[i].tgt = All
       PROVE  got[said'[i].src][i] = 0 /\ NoneAhead(said[i].src, i)'
  <2>1. CASE i \in DOMAIN said
    <3>1. got[said[i].src][i] = 0 /\ NoneAhead(said[i].src, i) /\ said'[i].src = said[i].src
      BY <1>6, <1>8, <1>18, <2>1 DEF NotBack
    <3>2. PICK f : f = said[i].src
      OBVIOUS
    <3>3. NoneAhead(f, i)'
      BY <1>14, <2>1, <3>1, <3>2 DEF NoneAhead
    <3> QED
      BY <3>1, <3>2, <3>3 DEF NoneAhead, Ahead
  <2>2. CASE i = n
    <3>1. said'[i].src = e
      BY <1>5, <1>6, <2>2
    <3>2. ASSUME NEW l \in Links, NEW k \in DOMAIN link'[l], Ahead(e, i, l, k)' PROVE FALSE
      <4>1. link'[l][k].msg = n /\ e \in Beyond(l[1], l[2])
        BY <1>1, <2>2, <3>2, BeyondSame DEF Ahead
      <4> QED
        BY <1>9, <1>15, <4>1
    <3>3. NoneAhead(e, i)'
      BY <3>2 DEF NoneAhead
    <3> QED
      BY <1>13, <2>2, <3>1, <3>3 DEF NoneAhead, Ahead
  <2> QED
    BY <1>6, <2>1, <2>2
<1>19. NotBack'
  BY <1>1, <1>18 DEF NotBack
<1>20. ASSUME NEW f \in Endpoints, NEW i \in DOMAIN said', Straight(i)' PROVE Once(f, i)'
  <2>1. CASE i \in DOMAIN said
    <3>1. Once(f, i)
      BY <1>1, <1>6, <1>20, <2>1 DEF OnceInv, Straight
    <3>2. OneAhead(f, i)' /\ (NoneAhead(f, i) => NoneAhead(f, i)')
      BY <1>14, <2>1, <3>1 DEF Once, OneAhead, NoneAhead
    <3> QED
      BY <1>1, <3>1, <3>2 DEF Once
  <2>2. CASE i = n
    <3>1. OneAhead(f, i)'
      BY <1>15, <2>2 DEF OneAhead, Ahead
    <3> QED
      BY <1>1, <1>13, <2>2, <3>1 DEF Once
  <2> QED
    BY <1>6, <2>1, <2>2
<1> QED
  BY <1>10, <1>11, <1>12, <1>17, <1>19, <1>20

(* Where the copies are after a router forwarded the k-th message of a     *)
(* connection: where they were, and one at the end of each connection that *)
(* it was sent to.                                                         *)
Sent(r, outs, d, l, j) == /\ l[1] = r /\ l[2] \in outs
                          /\ j = Len(link[l]) + 1
                          /\ link'[l][j] = d

RoutePlaces(p, k, outs, d) ==
    \A l \in Links : \E n \in Nat : \A j \in DOMAIN link'[l] :
        \/ /\ Place(n, j) \in DOMAIN link[l]
           /\ link'[l][j] = link[l][Place(n, j)]
           /\ l = p => n = k
        \/ l # p /\ Sent(p[2], outs, d, l, j)

LEMMA RouteMoves ==
    ASSUME TypeOK, NEW p \in Links, NEW k \in DOMAIN link[p], NEW outs, NEW d,
           link' = [x \in Links |->
                       IF x = p THEN WithoutAt(link[x], k)
                       ELSE IF x[1] = p[2] /\ x[2] \in outs THEN Append(link[x], d)
                       ELSE link[x]]
    PROVE  RoutePlaces(p, k, outs, d)
<1>1. ASSUME NEW l \in Links
      PROVE \E n \in Nat : \A j \in DOMAIN link'[l] :
                \/ /\ Place(n, j) \in DOMAIN link[l]
                   /\ link'[l][j] = link[l][Place(n, j)]
                   /\ l = p => n = k
                \/ l # p /\ Sent(p[2], outs, d, l, j)
  <2>1. /\ link[l] \in Seq(Copies(Len(said))) /\ Len(link[l]) + 1 \in Nat
        /\ DOMAIN link[l] = 1..Len(link[l])
    <3>1. link[l] \in Seq(Copies(Len(said)))
      BY TypeFacts
    <3> QED
      BY <3>1
  <2>2. CASE l = p
    <3>1. Kept(link[p], WithoutAt(link[p], k), k) /\ k \in Nat
      BY <2>1, <2>2, KeptFacts
    <3>2. link'[l] = WithoutAt(link[p], k)
      BY <2>2
    <3> QED
      BY <2>2, <3>1, <3>2 DEF Kept
  <2>3. Kept(link[l], link[l], Len(link[l]) + 1)
    BY <2>1, KeptFacts
  <2>4. CASE l # p /\ l[1] = p[2] /\ l[2] \in outs
    <3>1. link'[l] = Append(link[l], d)
      BY <2>4
    <3>2. /\ DOMAIN link'[l] = 1..(Len(link[l]) + 1)
          /\ \A j \in 1..Len(link[l]) : link'[l][j] = link[l][j]
          /\ link'[l][Len(link[l]) + 1] = d
      BY <2>1, <3>1
    <3>3. ASSUME NEW j \in DOMAIN link'[l]
          PROVE  \/ /\ Place(Len(link[l]) + 1, j) \in DOMAIN link[l]
                    /\ link'[l][j] = link[l][Place(Len(link[l]) + 1, j)]
                 \/ Sent(p[2], outs, d, l, j)
      <4>1. CASE j = Len(link[l]) + 1
        BY <2>4, <3>2, <4>1 DEF Sent
      <4>2. CASE j # Len(link[l]) + 1
        <5>1. j \in 1..Len(link[l]) /\ j < Len(link[l]) + 1
          BY <2>1, <3>2, <4>2
        <5> QED
          BY <2>1, <3>2, <5>1 DEF Place
      <4> QED
        BY <4>1, <4>2
    <3> QED
      BY <2>1, <2>4, <3>3
  <2>5. CASE l # p /\ ~(l[1] = p[2] /\ l[2] \in outs)
    <3>1. link'[l] = link[l]
      BY <2>5
    <3> QED
      BY <2>1, <2>3, <2>5, <3>1 DEF Kept
  <2> QED
    BY <2>2, <2>4, <2>5
<1> QED
  BY <1>1 DEF RoutePlaces

(* A router that forwards a message: what is ahead of the copies that it   *)
(* sends was ahead of the one that it takes, and is divided among them.    *)
LEMMA RouteOnce ==
    ASSUME RouteInv, RouteInv', OnceInv, NEW p \in Links, p[2] \in Routers,
           NEW k \in DOMAIN link[p], Route(p[2], p[1], k)
    PROVE  OnceInv'
<1> SUFFICES ASSUME leaves' = 0
             PROVE  /\ (HomeLinks /\ ToTargets /\ GotTargets /\ KnownAhead /\ NotBack)'
                    /\ \A f \in Endpoints : \A i \in DOMAIN said' : Straight(i)' => Once(f, i)'
  BY DEF OnceInv
<1> DEFINE r == p[2]
           c == link[p][k]
           m == said[c.msg]
           via == Via(r, p[1])
           outs == IF TooManyHops(c) \/ Swallowed(r, via, m) THEN {} ELSE Out(r, via, m.tgt)
           d == WithHop(c)
<1>1. /\ TypeOK /\ TypeOK' /\ <<p[1], p[2]>> = p
      /\ r \in Routers /\ p[1] \in Routers \cup Endpoints
  BY LinkFacts DEF RouteInv
<1>2. /\ c \in Copies(Len(said)) /\ c.msg \in DOMAIN said /\ m \in Message
  BY <1>1, TypeFacts
<1>3. /\ index' = IndexAfter(r, via, m)
      /\ link' = [x \in Links |->
                     IF x = p THEN WithoutAt(link[x], k)
                     ELSE IF x[1] = r /\ x[2] \in outs THEN Append(link[x], d)
                     ELSE link[x]]
      /\ UNCHANGED <<home, ends, said, got, leaves>>
  BY <1>1 DEF Route
<1>4. leaves = 0 /\ AllThere /\ IndexTowardsHome
  BY <1>3 DEF RouteInv
<1>5. HomeLinks /\ ToTargets /\ GotTargets /\ KnownAhead /\ NotBack
  BY <1>4 DEF OnceInv
<1>6. d.msg = c.msg
  <2>1. c = [msg |-> c.msg, hops |-> c.hops]
    BY <1>2 DEF Copies
  <2> HIDE DEF c
  <2>2. d = [msg |-> c.msg, hops |-> c.hops + 1]
    BY <2>1 DEF WithHop
  <2> HIDE DEF d
  <2> QED
    BY <2>2
<1>7. outs \subseteq Out(r, via, m.tgt) /\ m.tgt \in Endpoints \cup {All} /\ m.kind # "bye"
  BY <1>2, <1>4 DEF Message, AllThere
<1>8. via \in Routers \cup Endpoints
  BY <1>1 DEF Via
<1>9. Beyond(p[1], p[2]) = {f \in Endpoints : Towards(r, f) # via}
  BY <1>1 DEF Beyond
<1>10. RoutePlaces(p, k, outs, d)
  BY <1>1, <1>3, RouteMoves
<1> HIDE DEF m, via, outs, d
<1>11. ASSUME NEW n \in outs
       PROVE  /\ n \in Neighbours(r)
              /\ n \in Endpoints => m.tgt \in {n, All}
              /\ m.tgt = All => Via(r, n) # via
  BY <1>1, <1>4, <1>7, <1>11, OutNeighbours
<1>12. ASSUME NEW n \in outs, m.tgt # All, m.known
       PROVE  m.tgt \in Endpoints /\ Via(r, n) = Towards(r, m.tgt) /\ Towards(r, m.tgt) # via
  <2>1. PICK t \in Endpoints : t = m.tgt
    BY <1>7, <1>12
  <2>2. index[r][t] # None /\ t \in Beyond(p[1], p[2])
    BY <1>1, <1>2, <1>5, <1>12, <2>1 DEF KnownAhead, m
  <2>3. t \in ends[home[t]]
    BY <1>5 DEF HomeLinks
  <2>4. Via(r, n) = Towards(r, t)
    BY <1>1, <1>4, <1>7, <1>12, <2>1, <2>2, <2>3, KnownOut
  <2> QED
    BY <1>9, <2>1, <2>2, <2>4
<1>13. ASSUME NEW n \in outs, m.tgt = All \/ m.known
       PROVE  Beyond(r, n) \subseteq Beyond(p[1], p[2])
  <2>1. Via(r, n) # via
    BY <1>11, <1>12, <1>13
  <2>2. Beyond(r, n) = {f \in Endpoints : Towards(r, f) = Via(r, n)}
    BY <1>1, <1>4, <1>11, NeighbourBeyond DEF AllThere
  <2> QED
    BY <1>9, <2>1, <2>2
<1>14. ASSUME NEW l \in Links, NEW j \in DOMAIN link'[l]
       PROVE  (\E o \in DOMAIN link[l] : link'[l][j] = link[l][o]) \/ Sent(r, outs, d, l, j)
  BY <1>10 DEF RoutePlaces
<1>15. HomeLinks'
  <2>1. ASSUME NEW l \in Links, link'[l] # <<>>
        PROVE  link[l] # <<>> \/ (l[1] = r /\ l[2] \in outs)
    <3>1. link'[l] \in Seq([msg : 1..Len(said'), hops : 0..MaxHops])
      BY <1>1 DEF TypeOK
    <3>2. 1 \in DOMAIN link'[l]
      BY <2>1, <3>1
    <3>3. DOMAIN <<>> = {}
      OBVIOUS
    <3> QED
      BY <1>14, <3>2, <3>3 DEF Sent
  <2>2. \A q \in Routers, f \in Endpoints : <<q, f>> \in Links /\ <<f, q>> \in Links
    BY LinkFacts
  <2>3. ASSUME NEW f \in Endpoints, f \in outs PROVE home[f] = r
    <3>1. f \notin Children(r) /\ f \notin ParentOf(r)
      BY <1>1, RoutingAssumption DEF Children, ParentOf
    <3> QED
      BY <1>11, <2>3, <3>1 DEF Neighbours
  <2>4. ASSUME NEW q \in Routers, NEW f \in Endpoints, link'[<<q, f>>] # <<>> \/ link'[<<f, q>>] # <<>>
        PROVE  home[f] = q
    <3>1. f # r
      BY <1>1, RoutingAssumption
    <3>2. CASE link'[<<q, f>>] # <<>>
      BY <1>5, <2>1, <2>2, <2>3, <3>2 DEF HomeLinks
    <3>3. CASE link'[<<f, q>>] # <<>>
      BY <1>5, <2>1, <2>2, <3>1, <3>3 DEF HomeLinks
    <3> QED
      BY <2>4, <3>2, <3>3
  <2> QED
    BY <1>3, <1>5, <2>4 DEF HomeLinks
<1>16. ToTargets'
  <2>1. ASSUME NEW l \in Links, NEW j \in DOMAIN link'[l], l[2] \in Endpoints
        PROVE  said[link'[l][j].msg].tgt \in {l[2], All}
    <3>1. CASE \E o \in DOMAIN link[l] : link'[l][j] = link[l][o]
      BY <1>5, <2>1, <3>1 DEF ToTargets
    <3>2. CASE Sent(r, outs, d, l, j)
      BY <1>6, <1>11, <2>1, <3>2 DEF Sent, m
    <3> QED
      BY <1>14, <3>1, <3>2
  <2> QED
    BY <1>3, <1>5, <2>1 DEF ToTargets
<1>17. GotTargets'
  BY <1>3, <1>5 DEF GotTargets
<1>18. ASSUME NEW i \in DOMAIN said, said[i].tgt # All, said[i].known
       PROVE  /\ \A q \in Routers : index'[q][said[i].tgt] # None
              /\ \A l \in Links : \A j \in DOMAIN link'[l] :
                    link'[l][j].msg = i => said[i].tgt \in Beyond(l[1], l[2])
  <2>1. ASSUME NEW q \in Routers, NEW e \in Endpoints, index[q][e] # None
        PROVE  index'[q][e] # None
    <3>1. m.src \in Endpoints /\ via # None
      BY <1>2, <1>8, RoutingAssumption DEF Message
    <3>2. index' = index \/ index' = [index EXCEPT ![r][m.src] = via]
      BY <1>3, <1>7 DEF IndexAfter
    <3>3. /\ index \in [Routers -> [Endpoints -> Routers \cup Endpoints \cup {None}]]
      BY <1>1 DEF TypeOK
    <3> QED
      BY <2>1, <3>1, <3>2, <3>3, <1>1
  <2>2. PICK t \in Endpoints : t = said[i].tgt
    <3>1. said[i] \in Message
      BY <1>1, <1>18 DEF TypeOK
    <3> QED
      BY <1>18, <3>1 DEF Message
  <2>3. /\ \A q \in Routers : index[q][t] # None
        /\ \A l \in Links : \A j \in DOMAIN link[l] : link[l][j].msg = i => t \in Beyond(l[1], l[2])
    BY <1>5, <1>18, <2>2 DEF KnownAhead
  <2>4. ASSUME NEW l \in Links, NEW j \in DOMAIN link'[l], link'[l][j].msg = i
        PROVE  t \in Beyond(l[1], l[2])
    <3>1. CASE \E o \in DOMAIN link[l] : link'[l][j] = link[l][o]
      BY <2>3, <2>4, <3>1
    <3>2. CASE Sent(r, outs, d, l, j)
      <4>1. i = c.msg /\ l[1] = r /\ l[2] \in outs
        BY <1>6, <2>4, <3>2 DEF Sent
      <4>2. m.tgt = t /\ m.tgt # All /\ m.known
        BY <1>18, <2>2, <4>1 DEF m
      <4>3. Via(r, l[2]) = Towards(r, t)
        BY <1>12, <4>1, <4>2
      <4>4. Beyond(r, l[2]) = {f \in Endpoints : Towards(r, f) = Via(r, l[2])}
        BY <1>1, <1>4, <1>11, <4>1, NeighbourBeyond DEF AllThere
      <4> QED
        BY <4>1, <4>3, <4>4
    <3> QED
      BY <1>14, <3>1, <3>2
  <2> QED
    BY <2>1, <2>2, <2>3, <2>4
<1>19. KnownAhead'
  <2>1. said' = said /\ home' = home
    BY <1>3
  <2> QED
    BY <1>18, <2>1, BeyondSame DEF KnownAhead
<1>20. ASSUME NEW i \in DOMAIN said, Straight(i), NEW f, NEW l \in Links, NEW j \in DOMAIN link'[l],
              Sent(r, outs, d, l, j), Ahead(f, i, l, j)'
       PROVE  Ahead(f, i, p, k) /\ f \in Beyond(r, l[2])
  <2>1. i = c.msg /\ f \in Beyond(l[1], l[2]) /\ l[1] = r /\ l[2] \in outs
    BY <1>3, <1>6, <1>20, BeyondSame DEF Ahead, Sent
  <2>2. m.tgt = All \/ m.known
    BY <1>20, <2>1 DEF Straight, m
  <2> QED
    BY <1>13, <2>1, <2>2 DEF Ahead
<1>21. ASSUME NEW l \in Links, NEW n \in Nat, NEW j \in DOMAIN link'[l], NEW f, NEW i,
              link'[l][j] = link[l][Place(n, j)], Ahead(f, i, l, j)'
       PROVE  Ahead(f, i, l, Place(n, j))
  BY <1>3, <1>21, BeyondSame DEF Ahead
<1>22. ASSUME NEW i \in DOMAIN said, Straight(i), NEW f, NoneAhead(f, i)
       PROVE  NoneAhead(f, i)'
  <2>1. ASSUME NEW l \in Links, NEW j \in DOMAIN link'[l], Ahead(f, i, l, j)'
        PROVE  FALSE
    <3>1. PICK n \in Nat :
              \/ /\ Place(n, j) \in DOMAIN link[l]
                 /\ link'[l][j] = link[l][Place(n, j)]
              \/ Sent(r, outs, d, l, j)
      BY <1>10 DEF RoutePlaces
    <3> QED
      BY <1>20, <1>21, <1>22, <2>1, <3>1 DEF NoneAhead
  <2> QED
    BY <2>1 DEF NoneAhead
<1>23. NotBack'
  <2>1. ASSUME NEW i \in DOMAIN said, said[i].tgt = All
        PROVE  got[said[i].src][i] = 0 /\ NoneAhead(said[i].src, i)'
    <3>1. got[said[i].src][i] = 0 /\ NoneAhead(said[i].src, i) /\ Straight(i)
      BY <1>5, <2>1 DEF NotBack, Straight
    <3>2. PICK f : f = said[i].src
      OBVIOUS
    <3>3. NoneAhead(f, i)'
      BY <1>22, <3>1, <3>2
    <3>4. NoneAhead(said[i].src, i)' <=> NoneAhead(f, i)'
      BY <1>3, <3>2 DEF NoneAhead, Ahead
    <3> QED
      BY <3>1, <3>3, <3>4
  <2> QED
    BY <1>3, <2>1 DEF NotBack
<1>24. ASSUME NEW f \in Endpoints, NEW i \in DOMAIN said, Straight(i), OneAhead(f, i),
              NEW l \in Links, NEW x \in Links, NEW j \in DOMAIN link'[l], NEW o \in DOMAIN link'[x],
              Ahead(f, i, l, j)', Ahead(f, i, x, o)'
       PROVE  l = x /\ j = o
  <2> DEFINE Old(y, n, q) == /\ Place(n, q) \in DOMAIN link[y]
                             /\ link'[y][q] = link[y][Place(n, q)]
                             /\ y = p => n = k
  <2>1. ASSUME NEW y \in Links PROVE DOMAIN link'[y] \subseteq Nat
    <3>1. link'[y] \in Seq([msg : 1..Len(said'), hops : 0..MaxHops])
      BY <1>1 DEF TypeOK
    <3>2. Len(link'[y]) \in Nat /\ DOMAIN link'[y] = 1..Len(link'[y])
      BY <3>1
    <3> QED
      BY <3>2
  <2>2. ASSUME NEW y \in Links, NEW z \in Links, NEW n \in Nat, NEW q \in DOMAIN link'[y],
               NEW w \in DOMAIN link'[z], Old(y, n, q), Sent(r, outs, d, z, w),
               Ahead(f, i, y, q)', Ahead(f, i, z, w)'
        PROVE  FALSE
    <3>1. Ahead(f, i, p, k)
      BY <1>20, <1>24, <2>2
    <3>2. Ahead(f, i, y, Place(n, q))
      BY <1>21, <2>2
    <3>3. y = p /\ Place(n, q) = k
      BY <1>24, <2>2, <3>1, <3>2 DEF OneAhead
    <3> QED
      BY <2>1, <2>2, <3>3, PlaceFacts
  <2>3. PICK n \in Nat : \A q \in DOMAIN link'[l] : Old(l, n, q) \/ Sent(r, outs, d, l, q)
    BY <1>10 DEF RoutePlaces
  <2>4. PICK h \in Nat : \A q \in DOMAIN link'[x] : Old(x, h, q) \/ Sent(r, outs, d, x, q)
    BY <1>10 DEF RoutePlaces
  <2>5. CASE Sent(r, outs, d, l, j) /\ Sent(r, outs, d, x, o)
    <3>1. l[1] = r /\ x[1] = r /\ l[2] \in Neighbours(r) /\ x[2] \in Neighbours(r)
      BY <1>11, <2>5 DEF Sent
    <3>2. f \in Beyond(r, l[2]) /\ f \in Beyond(r, x[2])
      BY <1>20, <1>24, <2>5
    <3>3. Via(r, l[2]) = Via(r, x[2])
      BY <1>1, <1>4, <3>1, <3>2, NeighbourBeyond DEF AllThere
    <3>4. l[2] = x[2]
      BY <1>1, <1>4, <3>1, <3>3, ViaInjective DEF AllThere
    <3>5. l = <<l[1], l[2]>> /\ x = <<x[1], x[2]>>
      BY LinkFacts
    <3>6. l = x
      BY <3>1, <3>4, <3>5
    <3> QED
      BY <2>5, <3>6 DEF Sent
  <2>6. CASE Old(l, n, j) /\ Old(x, h, o)
    <3>1. l = x
      BY <1>21, <1>24, <2>6 DEF OneAhead
    <3>2. Old(x, n, o)
      BY <1>24, <2>2, <2>3, <2>6, <3>1
    <3>3. Place(n, j) = Place(n, o)
      BY <1>21, <1>24, <2>6, <3>1, <3>2 DEF OneAhead
    <3> QED
      BY <2>1, <3>1, <3>3, PlaceFacts
  <2> HIDE DEF Old
  <2>7. Old(l, n, j) \/ Sent(r, outs, d, l, j)
    BY <2>3
  <2>8. Old(x, h, o) \/ Sent(r, outs, d, x, o)
    BY <2>4
  <2> QED
    BY <1>24, <2>2, <2>5, <2>6, <2>7, <2>8
<1>25. ASSUME NEW f \in Endpoints, NEW i \in DOMAIN said', Straight(i)' PROVE Once(f, i)'
  <2>1. Once(f, i) /\ i \in DOMAIN said /\ Straight(i)
    BY <1>3, <1>4, <1>25 DEF OnceInv, Straight
  <2>2. OneAhead(f, i)'
    BY <1>24, <2>1 DEF Once, OneAhead
  <2> QED
    BY <1>3, <1>22, <2>1, <2>2 DEF Once
<1> QED
  BY <1>15, <1>16, <1>17, <1>19, <1>23, <1>25

(* The initial states.                                                     *)
LEMMA InitOnce == Init => OnceInv
<1> SUFFICES ASSUME Init PROVE OnceInv
  OBVIOUS
<1>1. /\ said = <<>> /\ DOMAIN said = {}
      /\ \A l \in Links : link[l] = <<>> /\ DOMAIN link[l] = {}
      /\ got = [e \in Endpoints |-> [m \in 1..MaxSays |-> 0]]
  BY DEF Init
<1>2. HomeLinks
  <2>1. \A e \in Endpoints : e \in ends[home[e]]
    BY RoutingAssumption DEF Init
  <2>2. \A r \in Routers, e \in Endpoints : <<r, e>> \in Links /\ <<e, r>> \in Links
    BY LinkFacts
  <2> QED
    BY <1>1, <2>1, <2>2 DEF HomeLinks
<1> QED
  BY <1>1, <1>2 DEF OnceInv, ToTargets, GotTargets, KnownAhead, NotBack

(* Every step.                                                             *)
LEMMA StepOnce ==
    ASSUME RouteInv, RouteInv', OnceInv, [Next]_vars
    PROVE  OnceInv'
<1>1. CASE RouteAny
  BY <1>1, RouteOnce DEF RouteAny
<1>2. CASE TooOldAny
  BY <1>2, TooOldOnce DEF TooOldAny
<1>3. CASE \E e \in Endpoints : Leave(e) \/ \E r \in Routers : Join(e, r)
  <2>1. leaves' # 0
    <3>1. ASSUME NEW e \in Endpoints, Leave(e) PROVE leaves' # 0
      BY <3>1 DEF Leave, RouteInv, TypeOK
    <3>2. ASSUME NEW e \in Endpoints, NEW r \in Routers, Join(e, r) PROVE leaves' # 0
      BY <3>2, RoutingAssumption DEF RouteInv, AllThere, Join
    <3> QED
      BY <1>3, <3>1, <3>2
  <2> QED
    BY <2>1 DEF OnceInv
<1>4. CASE \E r \in Routers : \E e \in Endpoints : Expire(r, e) \/ Outdate(r, e)
  <2>1. PICK r \in Routers, e \in Endpoints : Expire(r, e) \/ Outdate(r, e)
    BY <1>4
  <2>2. UNCHANGED <<home, said, got, ends, link, leaves>>
    BY <2>1 DEF Expire, Outdate
  <2>3. leaves = 0 => index' = index
    BY <2>1, RoutingAssumption DEF RouteInv, AllThere, Expire, Outdate
  <2> QED
    BY <2>2, <2>3, SameOnce
<1>5. CASE UNCHANGED vars
  BY <1>5, SameOnce DEF vars, tables
<1> QED
  BY <1>1, <1>2, <1>3, <1>4, <1>5, SayOnce, ReceiveOnce, MaintainOnce DEF Next

(* While nobody leaves, _do_route_message brings a broadcast to every      *)
(* endpoint at most once and never back to its source, a targeted message  *)
(* to its target only, and at most once if all routers knew the target;    *)
(* for any tree of routers and in whatever order messages are forwarded.   *)
THEOREM OnceCorrect == Spec => []AtMostOnce
<1>1. RouteInv /\ OnceInv => AtMostOnce
  <2> SUFFICES ASSUME RouteInv, OnceInv, leaves = 0, NEW e \in Endpoints,
                      NEW m \in 1..Len(said), got[e][m] > 0
               PROVE  /\ said[m].tgt \in {e, All}
                      /\ said[m].src # e
                      /\ said[m].known => got[e][m] = 1
    BY DEF AtMostOnce
  <2>1. TypeOK /\ ToTargets /\ GotTargets /\ NotBack
    BY DEF RouteInv, OnceInv
  <2>2. m \in DOMAIN said /\ m \in 1..MaxSays
    <3>1. Len(said) \in Nat /\ DOMAIN said = 1..Len(said) /\ Len(said) <= MaxSays
      BY <2>1, TypeFacts DEF TypeOK
    <3> QED
      BY <3>1, RoutingAssumption
  <2>3. got[e][m] # 0
    OBVIOUS
  <2>4. said[m].tgt \in {e, All}
    BY <2>1, <2>2, <2>3 DEF GotTargets
  <2>5. said[m].src # e
    BY <2>1, <2>2, <2>3, <2>4 DEF ToTargets, NotBack
  <2>6. said[m].known => got[e][m] = 1
    BY <2>2, <2>3 DEF OnceInv, Straight, Once
  <2> QED
    BY <2>4, <2>5, <2>6
<1>2. RouteInv /\ RouteInv' /\ OnceInv /\ [Next]_vars => OnceInv'
  BY StepOnce
<1> QED
  BY RouteCorrect, InitOnce, <1>1, <1>2, PTL DEF Spec
-----------------------------------------------------------------------------
(* What an endpoint said at its first router is forgotten.  Its stillAlive *)
(* and bye-bye go up from there one router after the other, which are at   *)
(* these connections and at this height.                                   *)
UpLinks(e) == {<<e, Start[e]>>}
              \cup {<<c, Parent[c]>> : c \in {x \in Up(Start[e]) : HasParent(x)}}
Height(e, x) == Cardinality(Up(Start[e]) \ Up(x))

(* Connections through which a router hears of more than its parent does.  *)
Upwards(l) == l[2] \in Routers /\ Via(l[2], l[1]) # l[2]

(* The stillAlive and bye-byes of an endpoint, and where they are.         *)
Word(e, i) == said[i].src = e /\ said[i].kind # "data"
ByeAt(e, m, l, k) == l \in UpLinks(e) /\ k \in DOMAIN link[l] /\ link[l][k].msg = m
AliveAt(e, l, k) == /\ l \in UpLinks(e) /\ k \in DOMAIN link[l]
                    /\ Word(e, link[l][k].msg) /\ said[link[l][k].msg].kind = "alive"

(* The bye-bye that was the last word of an endpoint.                      *)
Farewell(e, m) ==
    /\ m \in DOMAIN said /\ said[m].src = e /\ said[m].kind = "bye"
    /\ \A n \in DOMAIN said : said[n].src = e => n <= m

(* All that the endpoint said it said where it was first.                  *)
FirstStay(e) == leaves = 0 \/ (leaves = 1 /\ \E m : Farewell(e, m))

(* On their way up its words have made one hop at each router.             *)
GoesUp(e) ==
    \A l \in Links : \A k \in DOMAIN link[l] :
        Upwards(l) /\ Word(e, link[l][k].msg)
            => l \in UpLinks(e) /\ link[l][k].hops = Height(e, l[2])

(* Entries that do not point to the parent are above the endpoint.         *)
Down(e, x) == index[x][e] \notin {None, x}
IndexUp(e) == \A x \in Routers :
                 Down(e, x) => x \in Up(Start[e]) /\ Height(e, x) <= MaxHops

(* The bye-bye is at one place at most, not at the first router any more   *)
(* when it was heard there, and no stillAlive comes after it, ...          *)
OneBye(e, m) ==
    \A l, x \in Links : \A k, j : ByeAt(e, m, l, k) /\ ByeAt(e, m, x, j) => l = x /\ k = j
NotHeard(e, m) == \A k : ByeAt(e, m, <<e, Start[e]>>, k) => m \notin heard
InTurn(e, m) ==
    \A l \in Links : \A k, j : ByeAt(e, m, l, k) /\ AliveAt(e, l, j) => j < k

(* ... and it is still to come to each router that has, or is to have, an  *)
(* entry for the endpoint, unless it was lost at once.                     *)
Live(e, m) == m \in heard \/ \E l \in Links : \E k : ByeAt(e, m, l, k)
Below(e, m, x) == \E l \in Links : \E k : ByeAt(e, m, l, k) /\ x \in Up(l[2])
ToForget(e, x) == Down(e, x) \/ \E l \in Links : l[2] = x /\ \E k : AliveAt(e, l, k)
Follows(e, m) == Live(e, m) => \A x \in Up(Start[e]) : ToForget(e, x) => Below(e, m, x)

Forgets(e) ==
    FirstStay(e) =>
        /\ GoesUp(e) /\ IndexUp(e)
        /\ \A m : Farewell(e, m) =>
              OneBye(e, m) /\ NotHeard(e, m) /\ InTurn(e, m) /\ Follows(e, m)

ByeInv == /\ leaves = 0 => home = Start
          /\ \A m \in DOMAIN said : said[m].kind = "bye" => said[m].tgt = All
          /\ \A e \in Endpoints : Forgets(e)

(* Who is above another router is above its parent, and not below it.      *)
LEMMA UpStrict ==
    ASSUME NEW q \in Routers, NEW x \in Up(q), x # q
    PROVE  x \in Up(Parent[q]) /\ HasParent(q) /\ q \notin Up(x)
<1>1. Parent[q] \in Routers /\ x \in Up(Parent[q])
  BY RoutingAssumption, UpStep
<1>2. HasParent(q)
  <2>1. SUFFICES ASSUME Parent[q] = q PROVE FALSE
    BY DEF HasParent
  <2>2. {q} \in SUBSET Routers /\ \A y \in {q} : Parent[y] \in {q}
    BY <2>1
  <2>3. Up(q) \subseteq {q}
    BY <2>2, UpLeast
  <2> QED
    BY <2>3
<1>3. q \notin Up(Parent[q]) /\ Up(x) \subseteq Up(Parent[q])
  BY <1>1, <1>2, TreeAssumption, UpStep
<1> QED
  BY <1>1, <1>2, <1>3

(* The connections on the way up are between neighbours, one at each       *)
(* router.                                                                 *)
LEMMA UpLinkFacts ==
    ASSUME NEW e \in Endpoints, NEW l \in UpLinks(e)
    PROVE  /\ l \in Links /\ Upwards(l) /\ l[2] \in Up(Start[e]) /\ l[2] \in Routers
           /\ l[1] \in Endpoints => l = <<e, Start[e]>>
           /\ \A x \in UpLinks(e) : x[2] = l[2] => x = l
           /\ Start[e] \in Routers
<1> DEFINE s == Start[e]
<1>1. s \in Routers /\ s \in Up(s) /\ e \notin Routers /\ s \notin Endpoints
  BY RoutingAssumption, UpClosed
<1>2. ASSUME NEW c \in Up(s), HasParent(c)
      PROVE  /\ c \in Routers /\ Parent[c] \in Routers /\ Parent[c] \in Up(s) /\ c # Parent[c]
             /\ Parent[c] # s /\ c \in Children(Parent[c])
             /\ <<c, Parent[c]>> \in Links /\ Via(Parent[c], c) # Parent[c]
  <2>1. c \in Routers /\ Parent[c] \in Routers /\ Parent[c] \in Up(s) /\ c # Parent[c]
    BY <1>1, <1>2, UpClosed, RoutingAssumption DEF HasParent
  <2>2. c \notin Up(Parent[c]) /\ Parent[Parent[c]] \in Up(Parent[c])
    BY <1>2, <2>1, TreeAssumption, UpClosed
  <2>3. <<c, Parent[c]>> \in Links
    BY <2>1 DEF Links
  <2>4. Via(Parent[c], c) = c
    BY <2>2 DEF Via
  <2>5. Parent[c] # s
    BY <1>2, <2>2
  <2>6. c \in Children(Parent[c])
    BY <2>1 DEF Children
  <2> QED
    BY <2>1, <2>3, <2>4, <2>5, <2>6
<1>3. <<e, s>> \in Links /\ Via(s, e) # s
  BY <1>1, LinkFacts, RoutingAssumption DEF Via
<1>4. l = <<e, s>> \/ \E c \in Up(s) : HasParent(c) /\ l = <<c, Parent[c]>>
  BY DEF UpLinks
<1>5. l \in Links /\ Upwards(l) /\ l[2] \in Up(s) /\ l[2] \in Routers
  BY <1>1, <1>2, <1>3, <1>4 DEF Upwards
<1>6. l[1] \in Endpoints => l = <<e, s>>
  BY <1>2, <1>4, RoutingAssumption
<1>7. ASSUME NEW x \in UpLinks(e), x[2] = l[2] PROVE x = l
  <2>1. x = <<e, s>> \/ \E c \in Up(s) : HasParent(c) /\ x = <<c, Parent[c]>>
    BY DEF UpLinks
  <2>2. CASE l = <<e, s>> \/ x = <<e, s>>
    BY <1>2, <1>4, <1>7, <2>1, <2>2
  <2>3. CASE l # <<e, s>> /\ x # <<e, s>>
    <3>1. PICK c \in Up(s) : HasParent(c) /\ l = <<c, Parent[c]>>
      BY <1>4, <2>3
    <3>2. PICK d \in Up(s) : HasParent(d) /\ x = <<d, Parent[d]>>
      BY <2>1, <2>3
    <3>3. Parent[c] = Parent[d] /\ Parent[c] \in Routers
      BY <1>2, <1>7, <3>1, <3>2
    <3>4. c = d
      BY <1>1, <1>2, <3>1, <3>2, <3>3, OneChild
    <3> QED
      BY <3>1, <3>2, <3>4
  <2> QED
    BY <2>2, <2>3
<1> QED
  BY <1>1, <1>5, <1>6, <1>7

(* The way up goes on at each router that has a parent.                    *)
LEMMA UpLinkNext ==
    ASSUME NEW e \in Endpoints, NEW r \in Up(Start[e]), HasParent(r)
    PROVE  <<r, Parent[r]>> \in UpLinks(e)
  BY DEF UpLinks

(* The height grows by one from a router to its parent.                    *)
LEMMA HeightFacts ==
    ASSUME NEW e \in Endpoints
    PROVE  /\ Height(e, Start[e]) = 0
           /\ \A x \in Up(Start[e]) : Height(e, x) \in Nat
           /\ \A c \in Up(Start[e]) :
                 HasParent(c) => Height(e, Parent[c]) = Height(e, c) + 1
           /\ \A x \in Up(Start[e]) : \A y \in Up(x) : y # x => Height(e, x) < Height(e, y)
<1> DEFINE s == Start[e]
<1>1. s \in Routers /\ IsFiniteSet(Up(s))
  <2>1. s \in Routers /\ Up(s) \in SUBSET Routers
    BY RoutingAssumption, UpClosed
  <2> QED
    BY <2>1, FS_Subset, RoutingAssumption
<1>2. \A x : IsFiniteSet(Up(s) \ Up(x)) /\ Cardinality(Up(s) \ Up(x)) \in Nat
  <2>1. \A x : Up(s) \ Up(x) \in SUBSET Up(s)
    OBVIOUS
  <2> QED
    BY <1>1, <2>1, FS_Subset, FS_CardinalityType
<1>3. Up(s) \ Up(s) = {}
  OBVIOUS
<1>4. ASSUME NEW c \in Up(s), HasParent(c) PROVE Height(e, Parent[c]) = Height(e, c) + 1
  <2>1. c \in Routers /\ Parent[c] \in Routers
    BY <1>1, UpClosed, RoutingAssumption
  <2>2. Up(c) = {c} \cup Up(Parent[c]) /\ c \notin Up(Parent[c])
    BY <1>4, <2>1, UpStep, TreeAssumption
  <2>3. Up(s) \ Up(Parent[c]) = (Up(s) \ Up(c)) \cup {c} /\ c \notin Up(s) \ Up(c)
    BY <2>2
  <2>4. Cardinality((Up(s) \ Up(c)) \cup {c}) = Cardinality(Up(s) \ Up(c)) + 1
    BY <1>2, <2>3, FS_AddElement
  <2> QED
    BY <2>3, <2>4 DEF Height
<1>5. ASSUME NEW x \in Up(s), NEW y \in Up(x), y # x PROVE Height(e, x) < Height(e, y)
  <2>1. x \in Routers /\ y \in Routers /\ x \notin Up(y) /\ Up(y) \subseteq Up(x)
    BY <1>1, <1>5, UpClosed, UpStep, UpStrict
  <2> DEFINE A == Up(s) \ Up(x)
             B == Up(s) \ Up(y)
  <2>2. A \in SUBSET B /\ x \in B /\ x \notin A
    BY <2>1, UpClosed
  <2>3. IsFiniteSet(B) /\ Cardinality(A) \in Nat /\ Cardinality(B) \in Nat
    BY <1>2
  <2> HIDE DEF A, B
  <2>4. Cardinality(A) <= Cardinality(B) /\ Cardinality(A) # Cardinality(B)
    BY <2>2, <2>3, FS_Subset
  <2>5. Cardinality(A) < Cardinality(B)
    BY <2>3, <2>4
  <2> QED
    BY <2>5 DEF Height, A, B
<1> QED
  BY <1>2, <1>3, <1>4, <1>5, FS_EmptySet DEF Height

(* What is left on the way up of an endpoint's words, in a step that adds  *)
(* none: they keep their order, and are lost only with the connection of   *)
(* the endpoint.                                                           *)
SaidBy(e, i) == said'[i].src = e /\ said'[i].kind # "data"
Remains(e, l) ==
    \E n \in Nat : \A j \in DOMAIN link'[l] :
        \/ Place(n, j) \in DOMAIN link[l] /\ link'[l][j] = link[l][Place(n, j)]
        \/ ~ SaidBy(e, link'[l][j].msg)
Stays(e, l) ==
    \/ l[1] = e /\ link'[l] = <<>>
    \/ \A k \in DOMAIN link[l] :
          Word(e, link[l][k].msg) => \E j \in DOMAIN link'[l] : link'[l][j] = link[l][k]

(* The order of the places.                                                *)
LEMMA PlaceOrder ==
    ASSUME NEW n \in Nat, NEW i \in Nat, NEW j \in Nat
    PROVE  /\ Place(n, i) < Place(n, j) => i < j
           /\ i <= Place(n, i)
BY DEF Place

(* A step that adds no words of the endpoint.                              *)
LEMMA ThinStep ==
    ASSUME TypeOK, TypeOK', NEW e \in Endpoints, Forgets(e), leaves' = leaves,
           \A i \in DOMAIN said : i \in DOMAIN said' /\ said'[i] = said[i],
           \A i \in DOMAIN said' : i \in DOMAIN said \/ said'[i].src # e,
           \A m \in DOMAIN said : m \in heard' /\ m \notin heard => said[m].src # e,
           \A x \in Routers : index'[x][e] \in {index[x][e], None, x},
           \A l \in Links : Upwards(l) => Remains(e, l),
           \A l \in UpLinks(e) : Stays(e, l)
    PROVE  Forgets(e)'
<1> SUFFICES ASSUME FirstStay(e)'
             PROVE  /\ GoesUp(e)' /\ IndexUp(e)'
                    /\ \A m : Farewell(e, m)' =>
                          OneBye(e, m)' /\ NotHeard(e, m)' /\ InTurn(e, m)' /\ Follows(e, m)'
  BY DEF Forgets
<1>1. ASSUME NEW m, Farewell(e, m)' PROVE Farewell(e, m)
  BY <1>1 DEF Farewell
<1>2. /\ GoesUp(e) /\ IndexUp(e)
      /\ \A m : Farewell(e, m) =>
            OneBye(e, m) /\ NotHeard(e, m) /\ InTurn(e, m) /\ Follows(e, m)
  BY <1>1 DEF Forgets, FirstStay
<1>3. \A l \in Links : DOMAIN link[l] \subseteq Nat /\ DOMAIN link'[l] \subseteq Nat
  <2>1. ASSUME NEW l \in Links PROVE DOMAIN link[l] \subseteq Nat
    BY TypeFacts
  <2>2. ASSUME NEW l \in Links PROVE DOMAIN link'[l] \subseteq Nat
    BY DEF TypeOK
  <2> QED
    BY <2>1, <2>2
<1>4. ASSUME NEW l \in Links, Upwards(l)
      PROVE  \E n \in Nat : \A j \in DOMAIN link'[l] : SaidBy(e, link'[l][j].msg) =>
                 Place(n, j) \in DOMAIN link[l] /\ link'[l][j] = link[l][Place(n, j)]
  BY <1>4 DEF Remains
<1>5. ASSUME NEW l \in Links, NEW k \in DOMAIN link[l] PROVE link[l][k].msg \in DOMAIN said
  BY TypeFacts
<1>6. GoesUp(e)'
  <2> SUFFICES ASSUME NEW l \in Links, NEW k \in DOMAIN link'[l], Upwards(l),
                      SaidBy(e, link'[l][k].msg)
               PROVE  l \in UpLinks(e) /\ link'[l][k].hops = Height(e, l[2])
    BY DEF GoesUp, Word, SaidBy
  <2>1. PICK n \in Nat : Place(n, k) \in DOMAIN link[l] /\ link'[l][k] = link[l][Place(n, k)]
    BY <1>4
  <2>2. Word(e, link[l][Place(n, k)].msg)
    BY <1>5, <2>1 DEF Word, SaidBy
  <2> QED
    BY <1>2, <2>1, <2>2 DEF GoesUp
<1>7. \A x \in Routers : Down(e, x)' => Down(e, x)
  BY DEF Down
<1>8. IndexUp(e)'
  BY <1>2, <1>7 DEF IndexUp
<1>9. ASSUME NEW m, Farewell(e, m)'
      PROVE  OneBye(e, m)' /\ NotHeard(e, m)' /\ InTurn(e, m)' /\ Follows(e, m)'
  <2>1. /\ Farewell(e, m) /\ Word(e, m)' /\ Word(e, m) /\ m \in DOMAIN said
        /\ OneBye(e, m) /\ NotHeard(e, m) /\ InTurn(e, m) /\ Follows(e, m)
    BY <1>1, <1>2, <1>9 DEF Farewell, Word
  <2>2. \A l \in UpLinks(e) : l \in Links /\ Upwards(l) /\ l[2] \in Routers
    BY UpLinkFacts
  <2>3. ASSUME NEW l \in Links
        PROVE  \E n \in Nat : \A j : /\ ByeAt(e, m, l, j)' => ByeAt(e, m, l, Place(n, j))
                                     /\ AliveAt(e, l, j)' => AliveAt(e, l, Place(n, j))
    <3>1. CASE l \in UpLinks(e)
      <4>1. PICK n \in Nat : \A j \in DOMAIN link'[l] : SaidBy(e, link'[l][j].msg) =>
                Place(n, j) \in DOMAIN link[l] /\ link'[l][j] = link[l][Place(n, j)]
        BY <1>4, <2>2, <3>1
      <4>2. ASSUME NEW j, ByeAt(e, m, l, j)' PROVE ByeAt(e, m, l, Place(n, j))
        BY <2>1, <4>1, <4>2 DEF ByeAt, Word, SaidBy
      <4>3. ASSUME NEW j, AliveAt(e, l, j)' PROVE AliveAt(e, l, Place(n, j))
        <5>1. j \in DOMAIN link'[l] /\ SaidBy(e, link'[l][j].msg)
              /\ said'[link'[l][j].msg].kind = "alive"
          BY <4>3 DEF AliveAt, Word, SaidBy
        <5>2. Place(n, j) \in DOMAIN link[l] /\ link'[l][j] = link[l][Place(n, j)]
          BY <4>1, <5>1
        <5>3. said'[link'[l][j].msg] = said[link[l][Place(n, j)].msg]
          BY <1>5, <5>2
        <5> QED
          BY <3>1, <5>1, <5>2, <5>3 DEF AliveAt, Word, SaidBy
      <4> QED
        BY <4>2, <4>3
    <3>2. CASE l \notin UpLinks(e)
      BY <3>2 DEF ByeAt, AliveAt
    <3> QED
      BY <3>1, <3>2
  <2>4. \A l : \A j : /\ ByeAt(e, m, l, j)' => j \in Nat /\ l \in Links
                      /\ AliveAt(e, l, j)' => j \in Nat /\ l \in Links
    BY <1>3, <2>2 DEF ByeAt, AliveAt
  <2>5. OneBye(e, m)'
    <3> SUFFICES ASSUME NEW l \in Links, NEW x \in Links, NEW k, NEW j,
                        ByeAt(e, m, l, k)', ByeAt(e, m, x, j)'
                 PROVE  l = x /\ k = j
      BY DEF OneBye
    <3>1. PICK n \in Nat : \A i : ByeAt(e, m, l, i)' => ByeAt(e, m, l, Place(n, i))
      BY <2>3
    <3>2. PICK o \in Nat : \A i : ByeAt(e, m, x, i)' => ByeAt(e, m, x, Place(o, i))
      BY <2>3
    <3>3. l = x
      BY <2>1, <3>1, <3>2 DEF OneBye
    <3>4. Place(n, k) = Place(n, j)
      BY <2>1, <3>1, <3>3 DEF OneBye
    <3> QED
      BY <2>4, <3>3, <3>4, PlaceFacts
  <2>6. NotHeard(e, m)'
    <3> SUFFICES ASSUME NEW k, ByeAt(e, m, <<e, Start[e]>>, k)' PROVE m \notin heard'
      BY DEF NotHeard
    <3>1. <<e, Start[e]>> \in Links
      BY <2>4
    <3>2. PICK n \in Nat : \A i : ByeAt(e, m, <<e, Start[e]>>, i)' =>
                                      ByeAt(e, m, <<e, Start[e]>>, Place(n, i))
      BY <2>3, <3>1
    <3>3. m \notin heard
      BY <2>1, <3>2 DEF NotHeard
    <3> QED
      BY <2>1, <3>3 DEF Farewell
  <2>7. InTurn(e, m)'
    <3> SUFFICES ASSUME NEW l \in Links, NEW k, NEW j, ByeAt(e, m, l, k)', AliveAt(e, l, j)'
                 PROVE  j < k
      BY DEF InTurn
    <3>1. PICK n \in Nat : \A i : /\ ByeAt(e, m, l, i)' => ByeAt(e, m, l, Place(n, i))
                                  /\ AliveAt(e, l, i)' => AliveAt(e, l, Place(n, i))
      BY <2>3
    <3>2. Place(n, j) < Place(n, k) /\ j \in Nat /\ k \in Nat
      BY <2>1, <2>4, <3>1 DEF InTurn
    <3> QED
      BY <3>2, PlaceOrder
  <2>8. Follows(e, m)'
    <3> SUFFICES ASSUME Live(e, m)', NEW x \in Up(Start[e]), ToForget(e, x)'
                 PROVE  Below(e, m, x)'
      BY DEF Follows
    <3>1. Live(e, m)
      BY <2>1, <2>3 DEF Live, Farewell
    <3>2. ToForget(e, x)
      <4>1. Start[e] \in Routers
        BY RoutingAssumption
      <4>2. x \in Routers
        BY <4>1, UpClosed
      <4> QED
        BY <1>7, <2>3, <4>2 DEF ToForget
    <3>3. PICK l, k : l \in Links /\ ByeAt(e, m, l, k) /\ x \in Up(l[2])
      BY <2>1, <3>1, <3>2 DEF Follows, Below
    <3>4. l \in UpLinks(e) /\ k \in DOMAIN link[l] /\ link[l][k].msg = m
      BY <3>3 DEF ByeAt
    <3>5. CASE \E j \in DOMAIN link'[l] : link'[l][j] = link[l][k]
      BY <3>3, <3>4, <3>5 DEF Below, ByeAt
    <3>6. CASE l[1] = e /\ link'[l] = <<>>
      <4>1. l = <<e, Start[e]>>
        BY <3>4, <3>6, UpLinkFacts
      <4>2. m \notin heard'
        BY <2>1, <3>3, <4>1 DEF NotHeard, Farewell
      <4>3. PICK y, j : y \in Links /\ ByeAt(e, m, y, j)'
        BY <4>2, <3>1 DEF Live
      <4>4. y = l
        BY <2>1, <2>3, <3>3, <4>3 DEF OneBye
      <4> QED
        BY <3>6, <4>3, <4>4 DEF ByeAt
    <3> QED
      BY <2>1, <3>4, <3>5, <3>6 DEF Stays
  <2> QED
    BY <2>5, <2>6, <2>7, <2>8
<1> QED
  BY <1>6, <1>8, <1>9

(* A connection that did not change, or that was an endpoint's and closed. *)
LEMMA SameRemains ==
    ASSUME TypeOK, NEW e \in Endpoints, NEW l \in Links,
           link'[l] = link[l] \/ (link'[l] = <<>> /\ l[1] \in Endpoints)
    PROVE  Remains(e, l) /\ (l \in UpLinks(e) => Stays(e, l))
<1>1. link[l] \in Seq(Copies(Len(said))) /\ Len(link[l]) + 1 \in Nat
  <2>1. link[l] \in Seq(Copies(Len(said)))
    BY TypeFacts
  <2> QED
    BY <2>1
<1>2. Kept(link[l], link[l], Len(link[l]) + 1) /\ Kept(link[l], <<>>, 1)
  BY <1>1, KeptFacts
<1>3. Remains(e, l)
  <2>1. \E n \in Nat : Kept(link[l], link'[l], n)
    BY <1>1, <1>2
  <2> QED
    BY <2>1 DEF Remains, Kept
<1>4. ASSUME l \in UpLinks(e) PROVE Stays(e, l)
  <2>1. CASE link'[l] = link[l]
    BY <2>1 DEF Stays
  <2>2. CASE link'[l] = <<>> /\ l[1] \in Endpoints
    <3>1. l[1] = e
      BY <1>4, <2>2, UpLinkFacts
    <3> QED
      BY <2>2, <3>1 DEF Stays
  <2> QED
    BY <2>1, <2>2
<1> QED
  BY <1>3, <1>4

(* Steps in which nothing is said or forwarded.                            *)
LEMMA DropForgets ==
    ASSUME TypeOK, TypeOK', ByeInv, UNCHANGED <<said, leaves, heard>>,
           leaves = 0 => home' = home,
           \A x \in Routers, e \in Endpoints : index'[x][e] \in {index[x][e], None},
           \A l \in Links : l[2] \in Routers =>
               link'[l] = link[l] \/ (link'[l] = <<>> /\ l[1] \in Endpoints)
    PROVE  ByeInv'
<1>1. ASSUME NEW e \in Endpoints PROVE Forgets(e)'
  <2>1. Forgets(e)
    BY DEF ByeInv
  <2>2. \A l \in Links : Upwards(l) => Remains(e, l)
    BY SameRemains DEF Upwards
  <2>3. \A l \in UpLinks(e) : Stays(e, l)
    BY SameRemains, UpLinkFacts
  <2>4. \A x \in Routers : index'[x][e] \in {index[x][e], None, x}
    OBVIOUS
  <2> QED
    BY <2>1, <2>2, <2>3, <2>4, ThinStep
<1> QED
  BY <1>1 DEF ByeInv

(* What is left of a connection when one copy is taken out.                *)
LEMMA WithoutOthers ==
    ASSUME NEW S, NEW s \in Seq(S), NEW k \in DOMAIN s, NEW b \in DOMAIN s, b # k
    PROVE  \E j \in DOMAIN WithoutAt(s, k) : WithoutAt(s, k)[j] = s[b]
<1> DEFINE x == SubSeq(s, 1, k - 1)
           y == SubSeq(s, k + 1, Len(s))
<1>1. k \in 1..Len(s) /\ b \in 1..Len(s) /\ Len(s) \in Nat
  OBVIOUS
<1>2. x \in Seq(S) /\ Len(x) = k - 1 /\ \A i \in 1..(k - 1) : x[i] = s[i]
  BY <1>1
<1>3. y \in Seq(S) /\ Len(y) = Len(s) - k /\ \A i \in 1..(Len(s) - k) : y[i] = s[k + i]
  BY <1>1
<1>4. WithoutAt(s, k) = x \o y
  BY DEF WithoutAt
<1> HIDE DEF x, y
<1>5. DOMAIN (x \o y) = 1..(Len(s) - 1)
  BY <1>1, <1>2, <1>3
<1>6. CASE b < k
  <2>1. b \in 1..(Len(s) - 1) /\ (x \o y)[b] = x[b] /\ x[b] = s[b]
    BY <1>1, <1>2, <1>3, <1>6
  <2> QED
    BY <1>4, <1>5, <2>1
<1>7. CASE b > k
  <2>1. b - 1 \in 1..(Len(s) - 1) /\ b - k \in 1..(Len(s) - k) /\ k + (b - k) = b
    BY <1>1, <1>7
  <2>2. (x \o y)[b - 1] = y[b - k]
    BY <1>1, <1>2, <1>3, <1>7
  <2> QED
    BY <1>3, <1>4, <1>5, <2>1, <2>2
<1> QED
  BY <1>1, <1>6, <1>7

(* What an endpoint says that it is still alive, or bye-bye, is to all, so *)
(* no router refuses it.                                                   *)
LEMMA WordNotRefused ==
    ASSUME RouteInv, ByeInv, NEW e \in Endpoints, NEW l \in Links, NEW k \in DOMAIN link[l],
           Word(e, link[l][k].msg), NEW r, NEW via
    PROVE  ~Refuses(r, via, link[l][k]) /\ said[link[l][k].msg].tgt = All
<1>1. link[l][k].msg \in DOMAIN said /\ said[link[l][k].msg] \in Message
  BY TypeFacts DEF RouteInv
<1>2. said[link[l][k].msg].tgt = All
  BY <1>1 DEF Word, Message, RouteInv, AlivesToAll, ByeInv
<1> QED
  BY <1>2 DEF Refuses, IsRouted

(* A message that gets too old.                                            *)
LEMMA TooOldForgets ==
    ASSUME RouteInv, RouteInv', ByeInv, NEW p \in Links, NEW k \in DOMAIN link[p],
           TooOld(p[2], p[1], k)
    PROVE  ByeInv'
<1>1. TypeOK /\ TypeOK' /\ <<p[1], p[2]>> = p
  BY LinkFacts DEF RouteInv
<1>2. /\ link' = [link EXCEPT ![p] = WithoutAt(@, k)]
      /\ UNCHANGED <<home, index, said, leaves, heard>>
      /\ \A j \in 1..k : Refuses(p[2], Via(p[2], p[1]), link[p][j])
  BY <1>1 DEF TooOld, tables
<1>3. link[p] \in Seq(Copies(Len(said))) /\ k \in 1..k /\ k \in Nat
  <2>1. link[p] \in Seq(Copies(Len(said)))
    BY <1>1, TypeFacts
  <2> QED
    BY <2>1
<1>4. \A l \in Links : link'[l] = IF l = p THEN WithoutAt(link[p], k) ELSE link[l]
  BY <1>1, <1>2 DEF TypeOK
<1>5. ASSUME NEW e \in Endpoints PROVE Forgets(e)'
  <2>1. Forgets(e)
    BY DEF ByeInv
  <2>2. ASSUME NEW l \in Links
        PROVE  Remains(e, l) /\ (l \in UpLinks(e) => Stays(e, l))
    <3>1. CASE l # p
      BY <1>1, <1>4, <3>1, SameRemains
    <3>2. CASE l = p
      <4>1. Kept(link[p], WithoutAt(link[p], k), k)
        BY <1>3, KeptFacts
      <4>2. Remains(e, l)
        BY <1>3, <1>4, <3>2, <4>1 DEF Remains, Kept
      <4>3. ASSUME NEW b \in DOMAIN link[p], Word(e, link[p][b].msg)
            PROVE  \E j \in DOMAIN WithoutAt(link[p], k) : WithoutAt(link[p], k)[j] = link[p][b]
        <5>1. b # k
          <6>1. Refuses(p[2], Via(p[2], p[1]), link[p][k])
            BY <1>2, <1>3
          <6>2. ~Refuses(p[2], Via(p[2], p[1]), link[p][b])
            BY <4>3, WordNotRefused
          <6> QED
            BY <6>1, <6>2
        <5> QED
          BY <1>3, <5>1, WithoutOthers
      <4>4. Stays(e, l)
        BY <1>4, <3>2, <4>3 DEF Stays
      <4> QED
        BY <4>2, <4>4
    <3> QED
      BY <3>1, <3>2
  <2>3. \A l \in UpLinks(e) : Stays(e, l)
    BY <2>2, UpLinkFacts
  <2>4. /\ \A i \in DOMAIN said : i \in DOMAIN said' /\ said'[i] = said[i]
        /\ \A x \in Routers : index'[x][e] \in {index[x][e], None, x}
    BY <1>2
  <2> QED
    BY <1>1, <1>2, <2>1, <2>2, <2>3, <2>4, ThinStep
<1> QED
  BY <1>2, <1>5 DEF ByeInv

(* What an appended copy leaves of a connection.                           *)
LEMMA AppendRemains ==
    ASSUME TypeOK, NEW e, NEW l \in Links, NEW c, link'[l] = Append(link[l], c)
    PROVE  /\ ~ SaidBy(e, c.msg) => Remains(e, l)
           /\ Stays(e, l)
           /\ \A k \in DOMAIN link'[l] :
                 \/ k \in DOMAIN link[l] /\ link'[l][k] = link[l][k]
                 \/ k = Len(link[l]) + 1 /\ link'[l][k] = c
           /\ \A k \in DOMAIN link[l] : k < Len(link[l]) + 1 /\ link'[l][k] = link[l][k]
                                        /\ k \in DOMAIN link'[l]
           /\ Len(link[l]) + 1 \in DOMAIN link'[l] /\ link'[l][Len(link[l]) + 1] = c
<1>1. link[l] \in Seq(Copies(Len(said)))
  BY TypeFacts
<1>2. /\ DOMAIN link'[l] = 1..(Len(link[l]) + 1) /\ DOMAIN link[l] = 1..Len(link[l])
      /\ Len(link[l]) \in Nat /\ Len(link[l]) + 1 \in Nat
      /\ \A i \in 1..Len(link[l]) : link'[l][i] = link[l][i]
      /\ link'[l][Len(link[l]) + 1] = c
  BY <1>1
<1>3. \A k \in 1..(Len(link[l]) + 1) : k \in 1..Len(link[l]) \/ k = Len(link[l]) + 1
  BY <1>2
<1>4. \A k \in 1..Len(link[l]) : Place(Len(link[l]) + 1, k) = k
  BY <1>2 DEF Place
<1>5. ~ SaidBy(e, c.msg) => Remains(e, l)
  BY <1>2, <1>3, <1>4 DEF Remains
<1>6. Stays(e, l)
  BY <1>2 DEF Stays
<1> QED
  BY <1>2, <1>3, <1>5, <1>6

(* What is said is appended.                                               *)
LEMMA SaidMore ==
    ASSUME TypeOK, NEW w, said' = Append(said, w)
    PROVE  /\ Len(said') = Len(said) + 1 /\ said'[Len(said) + 1] = w
           /\ DOMAIN said' = 1..(Len(said) + 1) /\ Len(said) + 1 \notin DOMAIN said
           /\ Len(said) \in Nat /\ DOMAIN said = 1..Len(said)
           /\ \A i \in DOMAIN said : i \in DOMAIN said' /\ said'[i] = said[i]
           /\ \A i \in DOMAIN said' : i \in DOMAIN said \/ i = Len(said) + 1
<1>1. said \in Seq(Message) /\ Len(said) \in Nat /\ DOMAIN said = 1..Len(said)
  BY TypeFacts
<1>2. /\ Len(said') = Len(said) + 1 /\ said'[Len(said) + 1] = w
      /\ DOMAIN said' = 1..(Len(said) + 1)
      /\ \A i \in 1..Len(said) : said'[i] = said[i]
  BY <1>1
<1> QED
  BY <1>1, <1>2

(* An endpoint says something.                                             *)
LEMMA SayForgets ==
    ASSUME RouteInv, RouteInv', ByeInv, NEW f \in Endpoints, NEW t \in Endpoints \cup {All},
           NEW kind \in {"alive", "data"}, Say(f, t, kind)
    PROVE  ByeInv'
<1> DEFINE w == [src |-> f, tgt |-> t, kind |-> kind, known |-> Known(t)]
           n == Len(said) + 1
           c == [msg |-> n, hops |-> 0]
           p == <<f, home[f]>>
<1>1. TypeOK /\ TypeOK' /\ UNCHANGED <<home, index, leaves, heard>>
  BY DEF RouteInv, Say, tables
<1>2. home[f] \in Routers /\ p \in Links /\ p[1] = f /\ p[2] = home[f]
  BY <1>1, LinkFacts DEF TypeOK, Say
<1>3. said' = Append(said, w) /\ link' = [link EXCEPT ![p] = Append(@, c)]
  BY DEF Say
<1>4. w.src = f /\ w.kind # "bye" /\ c.msg = n /\ c.hops = 0
  OBVIOUS
<1> HIDE DEF w, c, p
<1>5. /\ said'[n] = w /\ n \notin DOMAIN said /\ n \in DOMAIN said'
      /\ Len(said) \in Nat /\ DOMAIN said = 1..Len(said)
      /\ \A i \in DOMAIN said : i \in DOMAIN said' /\ said'[i] = said[i]
      /\ \A i \in DOMAIN said' : i \in DOMAIN said \/ i = n
  BY <1>1, <1>3, SaidMore
<1> HIDE DEF n
<1>6. \A l \in Links : link'[l] = IF l = p THEN Append(link[l], c) ELSE link[l]
  BY <1>1, <1>2, <1>3 DEF TypeOK
<1>7. ASSUME NEW e \in Endpoints, e # f PROVE Forgets(e)'
  <2>1. ~ SaidBy(e, c.msg)
    BY <1>4, <1>5, <1>7 DEF SaidBy
  <2>2. ASSUME NEW l \in Links PROVE Remains(e, l) /\ (l \in UpLinks(e) => Stays(e, l))
    BY <1>1, <1>6, <2>1, AppendRemains, SameRemains
  <2>3. \A l \in UpLinks(e) : Stays(e, l)
    BY <2>2, UpLinkFacts
  <2>4. /\ Forgets(e)
        /\ \A i \in DOMAIN said' : i \in DOMAIN said \/ said'[i].src # e
        /\ \A x \in Routers : index'[x][e] \in {index[x][e], None, x}
    BY <1>1, <1>4, <1>5, <1>7 DEF ByeInv
  <2> QED
    BY <1>1, <1>5, <2>2, <2>3, <2>4, ThinStep
<1>8. Forgets(f)'
  <2> SUFFICES ASSUME FirstStay(f)'
               PROVE  /\ GoesUp(f)' /\ IndexUp(f)'
                      /\ \A m : ~ Farewell(f, m)'
    BY DEF Forgets
  <2>1. ASSUME NEW m, Farewell(f, m)' PROVE m # n /\ n <= m /\ m \in DOMAIN said
    BY <1>4, <1>5, <2>1 DEF Farewell
  <2>2. \A m : ~ Farewell(f, m)'
    BY <1>5, <2>1 DEF n
  <2>3. leaves = 0 /\ home[f] = Start[f]
    BY <1>1, <2>2, RoutingAssumption DEF FirstStay, ByeInv
  <2>4. GoesUp(f) /\ IndexUp(f)
    BY <2>3 DEF ByeInv, Forgets, FirstStay
  <2>5. IndexUp(f)'
    BY <1>1, <2>4 DEF IndexUp, Down
  <2>6. ASSUME NEW l \in Links, NEW k \in DOMAIN link'[l], Upwards(l), SaidBy(f, link'[l][k].msg)
        PROVE  l \in UpLinks(f) /\ link'[l][k].hops = Height(f, l[2])
    <3>1. CASE k \in DOMAIN link[l] /\ link'[l][k] = link[l][k]
      <4>1. link[l][k].msg \in DOMAIN said
        BY <1>1, <3>1, TypeFacts
      <4> QED
        BY <1>5, <2>4, <2>6, <3>1, <4>1 DEF GoesUp, Word, SaidBy
    <3>2. CASE l = p /\ link'[l][k] = c
      <4>1. l = <<f, Start[f]>> /\ l[2] = Start[f]
        BY <2>3, <3>2 DEF p
      <4>2. Height(f, l[2]) = 0
        BY <4>1, HeightFacts
      <4> QED
        BY <1>4, <3>2, <4>1, <4>2 DEF UpLinks
    <3>3. CASE l # p
      BY <1>6, <2>6, <3>1, <3>3
    <3>4. CASE l = p
      <4>1. link'[l] = Append(link[l], c)
        BY <1>6, <3>4
      <4>2. \/ k \in DOMAIN link[l] /\ link'[l][k] = link[l][k]
            \/ link'[l][k] = c
        BY <1>1, <2>6, <4>1, AppendRemains
      <4> QED
        BY <3>1, <3>2, <3>4, <4>2
    <3> QED
      BY <3>3, <3>4
  <2>7. GoesUp(f)'
    BY <2>6 DEF GoesUp, Word, SaidBy
  <2> QED
    BY <2>2, <2>5, <2>7
<1>9. \A m \in DOMAIN said' : said'[m].kind = "bye" => said'[m].tgt = All
  BY <1>4, <1>5 DEF ByeInv
<1>10. leaves' = 0 => home' = Start
  BY <1>1 DEF ByeInv
<1> QED
  BY <1>7, <1>8, <1>9, <1>10 DEF ByeInv

(* An endpoint leaves: its bye-bye is the last that is in its connection,  *)
(* and it is below all that it has to come to.                             *)
LEMMA LeaveForgets ==
    ASSUME RouteInv, RouteInv', ByeInv, NEW f \in Endpoints, Leave(f)
    PROVE  ByeInv'
<1> DEFINE w == [src |-> f, tgt |-> All, kind |-> "bye", known |-> TRUE]
           n == Len(said) + 1
           c == [msg |-> n, hops |-> 0]
           p == <<f, home[f]>>
           o == <<home[f], f>>
<1>1. /\ TypeOK /\ TypeOK' /\ UNCHANGED <<index, heard>>
      /\ leaves' = leaves + 1 /\ leaves \in Nat /\ leaves' # 0
  <2>1. leaves \in Nat
    BY RoutingAssumption DEF RouteInv, TypeOK
  <2> QED
    BY <2>1 DEF RouteInv, Leave, tables
<1>2. home[f] \in Routers /\ p \in Links /\ p[1] = f /\ p[2] = home[f]
      /\ o \in Links /\ o # p /\ o[1] \notin Endpoints /\ o[2] \in Endpoints
  BY <1>1, LinkFacts, RoutingAssumption DEF TypeOK, Leave
<1>3. \/ /\ said' = Append(said, w)
         /\ link' = [link EXCEPT ![o] = <<>>, ![p] = Append(@, c)]
      \/ /\ said' = said
         /\ link' = [link EXCEPT ![o] = <<>>]
  BY DEF Leave
<1>4. /\ w.src = f /\ w.kind = "bye" /\ w.tgt = All /\ c.msg = n /\ c.hops = 0
      /\ w \in Message
  BY DEF Message
<1> HIDE DEF w, c, p, o
<1>5. /\ said \in Seq(Message) /\ Len(said) \in Nat /\ DOMAIN said = 1..Len(said)
      /\ heard \subseteq DOMAIN said
      /\ n \notin DOMAIN said /\ n \in Nat /\ \A i \in DOMAIN said : i \in Nat /\ i < n
  BY <1>1, TypeFacts DEF TypeOK
<1>6. \/ said' = said
      \/ /\ said'[n] = w
         /\ \A i \in DOMAIN said : i \in DOMAIN said' /\ said'[i] = said[i]
         /\ \A i \in DOMAIN said' : i \in DOMAIN said \/ i = n
  BY <1>1, <1>3, SaidMore
<1>7. /\ link'[p] = Append(link[p], c) \/ (link'[p] = link[p] /\ said' = said)
      /\ \A l \in Links : l \notin {p, o} => link'[l] = link[l]
      /\ said' = Append(said, w) => link'[p] = Append(link[p], c)
  <2>1. CASE link' = [link EXCEPT ![o] = <<>>, ![p] = Append(@, c)]
    <3>1. \A l \in Links : link'[l] = IF l = p THEN Append(link[l], c)
                                      ELSE IF l = o THEN <<>> ELSE link[l]
      BY <1>1, <1>2, <2>1 DEF TypeOK
    <3> QED
      BY <1>2, <3>1
  <2>2. CASE said' = said /\ link' = [link EXCEPT ![o] = <<>>]
    <3>1. \A l \in Links : link'[l] = IF l = o THEN <<>> ELSE link[l]
      BY <1>1, <1>2, <2>2 DEF TypeOK
    <3>2. said # Append(said, w)
      <4>1. SUFFICES ASSUME said = Append(said, w) PROVE FALSE
        OBVIOUS
      <4>2. said' = Append(said, w)
        BY <2>2, <4>1
      <4>3. DOMAIN said' = 1..(Len(said) + 1) /\ Len(said) + 1 \notin DOMAIN said /\ Len(said) \in Nat
        BY <1>1, <4>2, SaidMore
      <4> QED
        BY <2>2, <4>3
    <3> QED
      BY <1>2, <2>2, <3>1, <3>2
  <2> QED
    BY <1>3, <2>1, <2>2
<1>8. \A m \in DOMAIN said' : said'[m].kind = "bye" => said'[m].tgt = All
  BY <1>4, <1>6 DEF ByeInv
<1>9. ASSUME NEW e \in Endpoints, FirstStay(e)'
      PROVE  /\ GoesUp(e)' /\ IndexUp(e)'
             /\ \A m : Farewell(e, m)' =>
                   OneBye(e, m)' /\ NotHeard(e, m)' /\ InTurn(e, m)' /\ Follows(e, m)'
  <2>1. leaves = 0 /\ \E m : Farewell(e, m)'
    BY <1>1, <1>9 DEF FirstStay
  <2>2. AllThere /\ home = Start /\ GoesUp(e) /\ IndexUp(e)
    BY <2>1 DEF RouteInv, ByeInv, Forgets, FirstStay
  <2>3. ASSUME NEW m, Farewell(e, m)' PROVE m = n /\ e = f /\ said'[n] = w /\ link'[p] = Append(link[p], c)
    <3>1. m \in DOMAIN said' /\ said'[m].src = e /\ said'[m].kind = "bye"
      BY <2>3 DEF Farewell
    <3>2. m \notin DOMAIN said \/ said'[m] # said[m]
      BY <2>2, <3>1 DEF AllThere
    <3> QED
      BY <1>3, <1>4, <1>6, <1>7, <3>1, <3>2
  <2>4. /\ e = f /\ said'[n] = w /\ link'[p] = Append(link[p], c)
        /\ p = <<e, Start[e]>> /\ Start[e] \in Routers /\ p[2] = Start[e]
    BY <2>1, <2>2, <2>3, RoutingAssumption DEF p
  <2>5. ASSUME NEW l \in Links, l[2] \in Routers, NEW k \in DOMAIN link'[l]
        PROVE  \/ /\ k \in DOMAIN link[l] /\ link'[l][k] = link[l][k]
                  /\ link[l][k].msg \in DOMAIN said /\ said'[link'[l][k].msg] = said[link[l][k].msg]
                  /\ link'[l][k].msg # n
                  /\ l = p => k < Len(link[p]) + 1
               \/ l = p /\ k = Len(link[p]) + 1 /\ link'[l][k] = c
    <3>1. l # o
      BY <1>2, <2>5, RoutingAssumption
    <3>2. \/ k \in DOMAIN link[l] /\ link'[l][k] = link[l][k]
                /\ (l = p => k < Len(link[p]) + 1)
          \/ l = p /\ k = Len(link[p]) + 1 /\ link'[l][k] = c
      <4>1. CASE l = p
        <5>1. link'[l] = Append(link[l], c)
          BY <2>4, <4>1
        <5>2. \/ k \in DOMAIN link[l] /\ link'[l][k] = link[l][k] /\ k < Len(link[l]) + 1
              \/ k = Len(link[l]) + 1 /\ link'[l][k] = c
          BY <1>1, <2>5, <5>1, AppendRemains
        <5> QED
          BY <4>1, <5>2
      <4>2. CASE l # p
        BY <1>7, <2>5, <3>1, <4>2
      <4> QED
        BY <4>1, <4>2
    <3>3. CASE k \in DOMAIN link[l] /\ link'[l][k] = link[l][k] /\ (l = p => k < Len(link[p]) + 1)
      <4>1. link[l][k].msg \in DOMAIN said
        BY <1>1, <3>3, TypeFacts
      <4>2. said'[link[l][k].msg] = said[link[l][k].msg]
        BY <1>6, <4>1
      <4> QED
        BY <1>5, <3>3, <4>1, <4>2
    <3> QED
      BY <3>2, <3>3
  <2>6. GoesUp(e)'
    <3> SUFFICES ASSUME NEW l \in Links, NEW k \in DOMAIN link'[l], Upwards(l),
                        SaidBy(e, link'[l][k].msg)
                 PROVE  l \in UpLinks(e) /\ link'[l][k].hops = Height(e, l[2])
      BY DEF GoesUp, Word, SaidBy
    <3>1. CASE /\ k \in DOMAIN link[l] /\ link'[l][k] = link[l][k]
               /\ said'[link'[l][k].msg] = said[link[l][k].msg]
      BY <2>2, <3>1 DEF GoesUp, Word, SaidBy
    <3>2. CASE l = p /\ link'[l][k] = c
      <4>1. Height(e, l[2]) = 0
        BY <2>4, <3>2, HeightFacts
      <4> QED
        BY <1>4, <2>4, <3>2, <4>1 DEF UpLinks
    <3> QED
      BY <2>5, <3>1, <3>2 DEF Upwards
  <2>7. IndexUp(e)'
    BY <1>1, <2>2 DEF IndexUp, Down
  <2>a. PICK b : b = n
    OBVIOUS
  <2>8. ASSUME NEW l, NEW k, ByeAt(e, b, l, k)'
        PROVE  l = p /\ k = Len(link[p]) + 1
    <3>1. l \in UpLinks(e) /\ k \in DOMAIN link'[l] /\ link'[l][k].msg = b
      BY <2>8 DEF ByeAt
    <3>2. l \in Links /\ l[2] \in Routers
      BY <3>1, UpLinkFacts
    <3> QED
      BY <2>5, <2>a, <3>1, <3>2
  <2>9. ASSUME NEW l, NEW k, AliveAt(e, l, k)'
        PROVE  l = p => k < Len(link[p]) + 1
    <3>1. l \in UpLinks(e) /\ k \in DOMAIN link'[l] /\ said'[link'[l][k].msg].kind = "alive"
      BY <2>9 DEF AliveAt
    <3>2. l \in Links /\ l[2] \in Routers
      BY <3>1, UpLinkFacts
    <3> QED
      BY <1>4, <2>4, <2>5, <3>1, <3>2
  <2>10. ASSUME NEW x \in Up(Start[e]) PROVE Below(e, b, x)'
    <3>1. /\ Len(link[p]) + 1 \in DOMAIN link'[p]
          /\ link'[p][Len(link[p]) + 1] = c
      BY <1>1, <1>2, <2>4, AppendRemains
    <3>2. PICK k : k \in DOMAIN link'[<<e, Start[e]>>] /\ link'[<<e, Start[e]>>][k].msg = b
      BY <1>4, <2>4, <2>a, <3>1
    <3>3. ByeAt(e, b, <<e, Start[e]>>, k)'
      BY <3>2 DEF ByeAt, UpLinks
    <3>4. <<e, Start[e]>> \in Links /\ x \in Up(<<e, Start[e]>>[2])
      BY <1>2, <2>4
    <3> QED
      BY <3>3, <3>4 DEF Below
  <2>11. OneBye(e, b)' /\ NotHeard(e, b)' /\ InTurn(e, b)' /\ Follows(e, b)'
    <3>1. OneBye(e, b)'
      BY <2>8 DEF OneBye
    <3>2. NotHeard(e, b)'
      BY <1>1, <1>5, <2>a DEF NotHeard
    <3>3. InTurn(e, b)'
      BY <2>8, <2>9 DEF InTurn
    <3>4. Follows(e, b)'
      BY <2>10 DEF Follows
    <3> QED
      BY <3>1, <3>2, <3>3, <3>4
  <2>12. \A m : Farewell(e, m)' => m = b
    BY <2>3, <2>a
  <2> QED
    BY <2>6, <2>7, <2>11, <2>12
<1> QED
  BY <1>1, <1>8, <1>9 DEF ByeInv, Forgets

(* To the parent a router sends only what did not come from there.         *)
LEMMA OutUp ==
    ASSUME TypeOK, NEW r \in Routers, NEW via
    PROVE  /\ \A n \in Out(r, via, All) :
                 n \in Routers /\ Via(n, r) # n => via # r /\ HasParent(r) /\ n = Parent[r]
           /\ via # r /\ HasParent(r) => Parent[r] \in Out(r, via, All)
<1>1. ends[r] \subseteq Endpoints /\ Endpoints \cap Routers = {}
  BY RoutingAssumption DEF TypeOK
<1>2. \A n \in Children(r) : Via(n, r) = n
  BY DEF Children, Via, HasParent
<1>3. Out(r, via, All) = {e \in ends[r] : CanSend(r, e) /\ e # via} \cup Flood(r, via)
  BY DEF Out
<1> QED
  BY <1>1, <1>2, <1>3 DEF Flood, ParentOf

(* The connections after a copy was forwarded.                             *)
Forwards(p, k, outs, d) ==
    link' = [x \in Links |->
                IF x = p THEN WithoutAt(link[x], k)
                ELSE IF x[1] = p[2] /\ x[2] \in outs THEN Append(link[x], d)
                ELSE link[x]]

LEMMA RouteLinks ==
    ASSUME TypeOK, NEW p \in Links, NEW k \in DOMAIN link[p], NEW outs, NEW d,
           Forwards(p, k, outs, d), NEW l \in Links
    PROVE  /\ \A b \in DOMAIN link[l] :
                 (l = p => b # k) => \E j \in DOMAIN link'[l] : link'[l][j] = link[l][b]
           /\ \E n \in Nat :
                 /\ l = p => n = k
                 /\ \A j \in DOMAIN link'[l] :
                       \/ Place(n, j) \in DOMAIN link[l] /\ link'[l][j] = link[l][Place(n, j)]
                       \/ l # p /\ Sent(p[2], outs, d, l, j)
           /\ l # p /\ l[1] = p[2] /\ l[2] \in outs =>
                 /\ link'[l] = Append(link[l], d)
                 /\ Len(link[l]) + 1 \in DOMAIN link'[l] /\ link'[l][Len(link[l]) + 1] = d
                 /\ \A j \in DOMAIN link'[l] : j # Len(link[l]) + 1 => j < Len(link[l]) + 1
<1>1. link[l] \in Seq(Copies(Len(said))) /\ link[p] \in Seq(Copies(Len(said)))
  BY TypeFacts
<1>2. CASE l = p
  <2>1. link'[l] = WithoutAt(link[l], k)
    BY <1>2 DEF Forwards
  <2>2. \A b \in DOMAIN link[l] : b # k =>
            \E j \in DOMAIN WithoutAt(link[l], k) : WithoutAt(link[l], k)[j] = link[l][b]
    BY <1>1, <1>2, WithoutOthers
  <2>3. Kept(link[l], WithoutAt(link[l], k), k) /\ k \in Nat
    BY <1>1, <1>2, KeptFacts
  <2> QED
    BY <1>2, <2>1, <2>2, <2>3 DEF Kept
<1>3. CASE l # p /\ l[1] = p[2] /\ l[2] \in outs
  <2>1. link'[l] = Append(link[l], d)
    BY <1>3 DEF Forwards
  <2>2. /\ \A j \in DOMAIN link'[l] :
              \/ j \in DOMAIN link[l] /\ link'[l][j] = link[l][j]
              \/ j = Len(link[l]) + 1 /\ link'[l][j] = d
        /\ \A j \in DOMAIN link[l] : j < Len(link[l]) + 1 /\ link'[l][j] = link[l][j]
                                     /\ j \in DOMAIN link'[l]
        /\ Len(link[l]) + 1 \in DOMAIN link'[l] /\ link'[l][Len(link[l]) + 1] = d
    BY <2>1, AppendRemains
  <2>3. \A j \in DOMAIN link[l] : Place(Len(link[l]) + 1, j) = j
    BY <2>2 DEF Place
  <2>4. Len(link[l]) + 1 \in Nat
    BY <1>1
  <2>5. \A b \in DOMAIN link[l] : \E j \in DOMAIN link'[l] : link'[l][j] = link[l][b]
    BY <2>2
  <2>6. \A j \in DOMAIN link'[l] :
           \/ Place(Len(link[l]) + 1, j) \in DOMAIN link[l]
              /\ link'[l][j] = link[l][Place(Len(link[l]) + 1, j)]
           \/ l # p /\ Sent(p[2], outs, d, l, j)
    BY <1>3, <2>2, <2>3 DEF Sent
  <2>7. Len(link[l]) + 1 \in DOMAIN link'[l]
    BY <2>2
  <2>8. \A j \in DOMAIN link'[l] : j # Len(link[l]) + 1 => j < Len(link[l]) + 1
    BY <2>2
  <2> QED
    BY <1>3, <2>1, <2>2, <2>4, <2>5, <2>6, <2>7, <2>8
<1>4. CASE l # p /\ ~(l[1] = p[2] /\ l[2] \in outs)
  <2>1. link'[l] = link[l]
    BY <1>4 DEF Forwards
  <2>2. Kept(link[l], link[l], Len(link[l]) + 1) /\ Len(link[l]) + 1 \in Nat
    BY <1>1, KeptFacts
  <2> QED
    BY <1>4, <2>1, <2>2 DEF Kept
<1> QED
  BY <1>2, <1>3, <1>4

(* A router takes a copy that has no words of an endpoint, or that comes   *)
(* down from its parent.                                                   *)
LEMMA RouteOthers ==
    ASSUME RouteInv, RouteInv', ByeInv, NEW p \in Links, p[2] \in Routers,
           NEW k \in DOMAIN link[p], Route(p[2], p[1], k), NEW e \in Endpoints,
           ~ Word(e, link[p][k].msg) \/ Via(p[2], p[1]) = p[2]
    PROVE  Forgets(e)'
<1> DEFINE r == p[2]
           c == link[p][k]
           w == said[c.msg]
           via == Via(r, p[1])
           outs == IF TooManyHops(c) \/ Swallowed(r, via, w) THEN {} ELSE Out(r, via, w.tgt)
           d == WithHop(c)
<1>1. TypeOK /\ TypeOK' /\ <<p[1], p[2]>> = p /\ r \in Routers
  BY LinkFacts DEF RouteInv
<1>2. /\ c \in Copies(Len(said)) /\ c.msg \in DOMAIN said /\ w \in Message
  BY <1>1, TypeFacts
<1>3. /\ index' = IndexAfter(r, via, w)
      /\ Forwards(p, k, outs, d)
      /\ heard' = IF w.kind = "bye" /\ ~Swallowed(r, via, w)
                  THEN heard \cup {c.msg} ELSE heard
      /\ UNCHANGED <<home, ends, said, got, leaves>>
  BY <1>1 DEF Route, Forwards
<1>4. d.msg = c.msg
  <2>1. c = [msg |-> c.msg, hops |-> c.hops]
    BY <1>2 DEF Copies
  <2> HIDE DEF c
  <2>2. d = [msg |-> c.msg, hops |-> c.hops + 1]
    BY <2>1 DEF WithHop
  <2> HIDE DEF d
  <2> QED
    BY <2>2
<1>5. Word(e, c.msg) => w.src = e /\ w.tgt = All /\ (w.kind = "bye" \/ w.kind = "alive")
  <2>1. ASSUME Word(e, c.msg) PROVE w.src = e /\ w.tgt = All /\ (w.kind = "bye" \/ w.kind = "alive")
    <3>1. said[c.msg].tgt = All
      BY <2>1, WordNotRefused
    <3> QED
      BY <1>2, <2>1, <3>1 DEF Word, Message
  <2> QED
    BY <2>1
<1>6. \A x \in Routers : index'[x][e] \in {index[x][e], None, x}
  <2>1. index \in [Routers -> [Endpoints -> Routers \cup Endpoints \cup {None}]]
    BY <1>1 DEF TypeOK
  <2>2. w.src = e /\ w.kind = "alive" => via = r
    BY DEF Word
  <2>3. w.src \in Endpoints
    BY <1>2 DEF Message
  <2>4. index' = IndexAfter(r, via, w)
    BY <1>3
  <2> HIDE DEF w, via, r
  <2>5. \/ index' = index
        \/ w.kind = "alive" /\ index' = [index EXCEPT ![r][w.src] = via]
        \/ w.kind = "bye" /\ index' = [index EXCEPT ![r][w.src] = None]
    BY <2>4 DEF IndexAfter
  <2> QED
    BY <1>1, <2>1, <2>2, <2>3, <2>5
<1>7. \A m \in DOMAIN said : m \in heard' /\ m \notin heard => said[m].src # e
  <2>1. Word(e, c.msg) => Via(p[2], p[1]) = p[2]
    OBVIOUS
  <2> QED
    BY <1>3, <2>1 DEF Word, Swallowed
<1> HIDE DEF w, via, outs, d, c
<1>8. ASSUME NEW l \in Links, Upwards(l) PROVE Remains(e, l)
  <2>1. PICK n \in Nat : \A j \in DOMAIN link'[l] :
             \/ Place(n, j) \in DOMAIN link[l] /\ link'[l][j] = link[l][Place(n, j)]
             \/ l # p /\ Sent(r, outs, d, l, j)
    BY <1>1, <1>3, RouteLinks
  <2>2. ASSUME NEW j \in DOMAIN link'[l], Sent(r, outs, d, l, j)
        PROVE  ~ SaidBy(e, link'[l][j].msg)
    <3>1. SUFFICES ASSUME Word(e, c.msg) PROVE FALSE
      BY <1>3, <1>4, <2>2 DEF Sent, SaidBy, Word
    <3>2. via = r /\ w.tgt = All
      BY <1>5, <3>1 DEF via, c
    <3>3. l[2] \in Out(r, r, All) /\ l[1] = r
      BY <2>2, <3>2 DEF Sent, outs
    <3> QED
      BY <1>1, <1>8, <3>3, OutUp DEF Upwards
  <2> QED
    BY <2>1, <2>2 DEF Remains
<1>9. ASSUME NEW l \in UpLinks(e) PROVE Stays(e, l)
  <2>1. l \in Links /\ Upwards(l)
    BY UpLinkFacts
  <2>2. \A b \in DOMAIN link[l] :
           (l = p => b # k) => \E j \in DOMAIN link'[l] : link'[l][j] = link[l][b]
    BY <1>1, <1>3, <2>1, RouteLinks
  <2>3. l = p => ~ Word(e, link[p][k].msg)
    BY <2>1 DEF Upwards
  <2> QED
    BY <2>2, <2>3 DEF Stays
<1>10. Forgets(e)
  BY DEF ByeInv
<1> QED
  BY <1>1, <1>3, <1>6, <1>7, <1>8, <1>9, <1>10, ThinStep

(* A router takes a word of an endpoint on its way up: it goes on to the   *)
(* parent, if there is one and the hops allow, and to no other place on    *)
(* the way up.                                                             *)
LEMMA RouteUp ==
    ASSUME RouteInv, RouteInv', ByeInv, NEW p \in Links, p[2] \in Routers,
           NEW k \in DOMAIN link[p], Route(p[2], p[1], k), NEW e \in Endpoints,
           Word(e, link[p][k].msg), Via(p[2], p[1]) # p[2]
    PROVE  Forgets(e)'
<1> SUFFICES ASSUME FirstStay(e)'
             PROVE  /\ GoesUp(e)' /\ IndexUp(e)'
                    /\ \A m : Farewell(e, m)' =>
                          OneBye(e, m)' /\ NotHeard(e, m)' /\ InTurn(e, m)' /\ Follows(e, m)'
  BY DEF Forgets
<1> DEFINE r == p[2]
           s == Start[e]
           via == Via(r, p[1])
           q == <<r, Parent[r]>>
<1>1. TypeOK /\ TypeOK' /\ <<p[1], p[2]>> = p /\ r \in Routers
  BY LinkFacts DEF RouteInv
<1>2. PICK c : c = link[p][k]
  OBVIOUS
<1>3. PICK w : w = said[c.msg]
  OBVIOUS
<1>4. /\ c \in Copies(Len(said)) /\ c.msg \in DOMAIN said /\ w \in Message
  BY <1>1, <1>2, <1>3, TypeFacts
<1>5. w.src = e /\ w.tgt = All /\ (w.kind = "bye" \/ w.kind = "alive")
  <2>1. said[c.msg].tgt = All
    BY <1>2, WordNotRefused
  <2> QED
    BY <1>2, <1>3, <1>4, <2>1 DEF Word, Message
<1>6. ~Swallowed(r, via, w)
  BY DEF Swallowed
<1>7. PICK outs : outs = IF TooManyHops(c) THEN {} ELSE Out(r, via, All)
  OBVIOUS
<1>8. PICK d : d = WithHop(c)
  OBVIOUS
<1>9. /\ index' = IndexAfter(r, via, w)
      /\ Forwards(p, k, outs, d)
      /\ heard' = IF w.kind = "bye" THEN heard \cup {c.msg} ELSE heard
      /\ UNCHANGED <<home, ends, said, got, leaves>>
  BY <1>1, <1>2, <1>3, <1>5, <1>6, <1>7, <1>8 DEF Route, Forwards
<1>10. d.msg = c.msg /\ d.hops = c.hops + 1
  <2>1. c = [msg |-> c.msg, hops |-> c.hops]
    BY <1>4 DEF Copies
  <2>2. d = [msg |-> c.msg, hops |-> c.hops + 1]
    BY <1>8, <2>1 DEF WithHop
  <2> QED
    BY <2>2
<1>11. \A m : Farewell(e, m)' => Farewell(e, m)
  BY <1>9 DEF Farewell
<1>12. /\ GoesUp(e) /\ IndexUp(e)
       /\ \A m : Farewell(e, m) =>
             OneBye(e, m) /\ NotHeard(e, m) /\ InTurn(e, m) /\ Follows(e, m)
  BY <1>9, <1>11 DEF ByeInv, Forgets, FirstStay
<1>13. /\ p \in UpLinks(e) /\ c.hops = Height(e, r) /\ c.hops <= MaxHops
       /\ r \in Up(s) /\ s \in Routers /\ MaxHops \in Nat /\ c.hops \in Nat
  <2>1. p \in UpLinks(e) /\ c.hops = Height(e, r)
    BY <1>2, <1>12 DEF GoesUp, Upwards
  <2>2. c.hops \in 0..MaxHops /\ MaxHops \in Nat
    BY <1>4, RoutingAssumption DEF Copies
  <2> QED
    BY <2>1, <2>2, UpLinkFacts
<1>14. index'[r][e] = (IF w.kind = "alive" THEN via ELSE None)
       /\ \A x \in Routers : x # r => index'[x][e] = index[x][e]
  <2>1. index \in [Routers -> [Endpoints -> Routers \cup Endpoints \cup {None}]]
    BY <1>1 DEF TypeOK
  <2>2. CASE w.kind = "alive"
    <3>1. index' = [index EXCEPT ![r][e] = via]
      BY <1>5, <1>6, <1>9, <2>2 DEF IndexAfter
    <3> QED
      BY <1>1, <2>1, <2>2, <3>1
  <2>3. CASE w.kind = "bye"
    <3>1. index' = [index EXCEPT ![r][e] = None]
      BY <1>5, <1>6, <1>9, <2>3 DEF IndexAfter
    <3> QED
      BY <1>1, <2>1, <2>3, <3>1
  <2> QED
    BY <1>5, <2>2, <2>3
<1> HIDE DEF via
<1>15. ASSUME NEW l \in Links, Upwards(l), l[1] = r, l[2] \in outs
       PROVE  l = q /\ HasParent(r) /\ ~TooManyHops(c)
  <2>1. ~TooManyHops(c) /\ l[2] \in Out(r, via, All) /\ l = <<l[1], l[2]>>
    BY <1>7, <1>15, LinkFacts
  <2>2. HasParent(r) /\ l[2] = Parent[r]
    BY <1>1, <1>15, <2>1, OutUp DEF Upwards
  <2> QED
    BY <1>15, <2>1, <2>2
<1>16. ASSUME HasParent(r)
       PROVE  /\ q \in UpLinks(e) /\ q \in Links /\ Upwards(q) /\ q # p
              /\ q[1] = r /\ q[2] = Parent[r] /\ Parent[r] \in Routers
              /\ Height(e, Parent[r]) = c.hops + 1 /\ r \notin Up(Parent[r])
              /\ q # <<e, s>>
  <2>1. q \in UpLinks(e)
    BY <1>13, <1>16, UpLinkNext
  <2>2. Parent[r] \in Routers /\ Parent[r] # r /\ r # e
    BY <1>1, <1>16, RoutingAssumption DEF HasParent
  <2>3. q # p /\ q # <<e, s>> /\ q[1] = r /\ q[2] = Parent[r]
    BY <2>2
  <2> QED
    BY <1>1, <1>13, <1>16, <2>1, <2>2, <2>3, UpLinkFacts, HeightFacts, TreeAssumption
<1>17. ASSUME HasParent(r), ~TooManyHops(c)
       PROVE  /\ Len(link[q]) + 1 \in DOMAIN link'[q] /\ link'[q][Len(link[q]) + 1] = d
              /\ \A j \in DOMAIN link'[q] : j # Len(link[q]) + 1 => j < Len(link[q]) + 1
  <2>1. Parent[r] \in outs
    BY <1>1, <1>7, <1>17, OutUp DEF via
  <2>2. q \in Links /\ q # p /\ q[1] = p[2] /\ q[2] \in outs
    BY <1>16, <1>17, <2>1
  <2> HIDE DEF q
  <2> QED
    BY <1>1, <1>9, <2>2, RouteLinks
<1>18. ASSUME NEW l \in Links, NEW b \in DOMAIN link[l], l # p \/ b # k
       PROVE  \E j \in DOMAIN link'[l] : link'[l][j] = link[l][b]
  BY <1>1, <1>9, <1>18, RouteLinks
<1>19. ASSUME NEW l \in Links, Upwards(l)
       PROVE  \E n \in Nat :
                 /\ l = p => n = k
                 /\ \A j \in DOMAIN link'[l] :
                       \/ /\ Place(n, j) \in DOMAIN link[l] /\ link'[l][j] = link[l][Place(n, j)]
                          /\ link[l][Place(n, j)].msg \in DOMAIN said
                       \/ /\ l = q /\ HasParent(r) /\ ~TooManyHops(c)
                          /\ j = Len(link[l]) + 1 /\ link'[l][j] = d
  <2>1. PICK n \in Nat :
                 /\ l = p => n = k
                 /\ \A j \in DOMAIN link'[l] :
                       \/ Place(n, j) \in DOMAIN link[l] /\ link'[l][j] = link[l][Place(n, j)]
                       \/ l # p /\ Sent(r, outs, d, l, j)
    BY <1>1, <1>9, RouteLinks
  <2>2. \A i \in DOMAIN link[l] : link[l][i].msg \in DOMAIN said
    BY <1>1, TypeFacts
  <2> QED
    BY <1>15, <1>19, <2>1, <2>2 DEF Sent
<1>20. GoesUp(e)'
  <2> SUFFICES ASSUME NEW l \in Links, NEW j \in DOMAIN link'[l], Upwards(l),
                      SaidBy(e, link'[l][j].msg)
               PROVE  l \in UpLinks(e) /\ link'[l][j].hops = Height(e, l[2])
    BY DEF GoesUp, Word, SaidBy
  <2>1. CASE \E i \in DOMAIN link[l] : link'[l][j] = link[l][i]
    BY <1>9, <1>12, <2>1 DEF GoesUp, Word, SaidBy
  <2>2. CASE l = q /\ HasParent(r) /\ link'[l][j] = d
    BY <1>10, <1>16, <2>2
  <2> QED
    BY <1>19, <2>1, <2>2
<1>21. IndexUp(e)'
  <2>1. \A x \in Routers : index'[x][e] = index[x][e] \/ x = r
    BY <1>14
  <2>2. r \in Up(s) /\ Height(e, r) <= MaxHops
    BY <1>13
  <2> QED
    BY <1>12, <2>1, <2>2 DEF IndexUp, Down
<1> SUFFICES ASSUME NEW m, Farewell(e, m)'
             PROVE  OneBye(e, m)' /\ NotHeard(e, m)' /\ InTurn(e, m)' /\ Follows(e, m)'
  BY <1>20, <1>21
<1>22. /\ Farewell(e, m) /\ m \in DOMAIN said /\ Word(e, m) /\ said[m].kind = "bye"
       /\ OneBye(e, m) /\ NotHeard(e, m) /\ InTurn(e, m) /\ Follows(e, m)
  BY <1>11, <1>12 DEF Farewell, Word
<1>23. \A l \in UpLinks(e) : l \in Links /\ Upwards(l) /\ l[2] \in Routers
  BY UpLinkFacts
<1>24. \A l : \A j : /\ ByeAt(e, m, l, j)' => j \in Nat /\ l \in Links /\ l \in UpLinks(e)
                     /\ AliveAt(e, l, j)' => j \in Nat /\ l \in Links /\ l \in UpLinks(e)
  <2>1. ASSUME NEW l \in Links PROVE DOMAIN link'[l] \subseteq Nat
    <3>1. link'[l] \in Seq([msg : 1..Len(said'), hops : 0..MaxHops])
      BY <1>1 DEF TypeOK
    <3>2. Len(link'[l]) \in Nat /\ DOMAIN link'[l] = 1..Len(link'[l])
      BY <3>1
    <3> QED
      BY <3>2
  <2> QED
    BY <1>23, <2>1 DEF ByeAt, AliveAt
<1>25. ASSUME NEW l \in UpLinks(e)
       PROVE  \E n \in Nat :
                 /\ l = p => n = k
                 /\ \A j : /\ ByeAt(e, m, l, j)' =>
                                 \/ ByeAt(e, m, l, Place(n, j))
                                 \/ c.msg = m /\ l = q /\ j = Len(link[l]) + 1
                           /\ AliveAt(e, l, j)' =>
                                 \/ AliveAt(e, l, Place(n, j))
                                 \/ /\ w.kind = "alive" /\ l = q /\ HasParent(r)
                                    /\ j = Len(link[l]) + 1
  <2>1. PICK n \in Nat :
                 /\ l = p => n = k
                 /\ \A j \in DOMAIN link'[l] :
                       \/ /\ Place(n, j) \in DOMAIN link[l] /\ link'[l][j] = link[l][Place(n, j)]
                          /\ link[l][Place(n, j)].msg \in DOMAIN said
                       \/ /\ l = q /\ HasParent(r) /\ ~TooManyHops(c)
                          /\ j = Len(link[l]) + 1 /\ link'[l][j] = d
    BY <1>19, <1>23
  <2>2. ASSUME NEW j, ByeAt(e, m, l, j)'
        PROVE  ByeAt(e, m, l, Place(n, j)) \/ (c.msg = m /\ l = q /\ j = Len(link[l]) + 1)
    BY <1>10, <2>1, <2>2 DEF ByeAt
  <2>3. ASSUME NEW j, AliveAt(e, l, j)'
        PROVE  \/ AliveAt(e, l, Place(n, j))
               \/ w.kind = "alive" /\ l = q /\ HasParent(r) /\ j = Len(link[l]) + 1
    <3>1. j \in DOMAIN link'[l] /\ said[link'[l][j].msg].src = e
          /\ said[link'[l][j].msg].kind = "alive"
      BY <1>9, <2>3 DEF AliveAt, Word
    <3>2. CASE /\ Place(n, j) \in DOMAIN link[l] /\ link'[l][j] = link[l][Place(n, j)]
      BY <3>1, <3>2 DEF AliveAt, Word
    <3>3. CASE /\ l = q /\ HasParent(r) /\ j = Len(link[l]) + 1 /\ link'[l][j] = d
      BY <1>3, <1>10, <3>1, <3>3
    <3> QED
      BY <2>1, <3>1, <3>2, <3>3
  <2> QED
    BY <2>1, <2>2, <2>3
<1>26. ASSUME NEW x \in Routers, ToForget(e, x)'
       PROVE  \/ ToForget(e, x)
              \/ w.kind = "alive" /\ (x = r \/ (HasParent(r) /\ x = Parent[r]))
  <2>1. CASE Down(e, x)'
    BY <1>14, <2>1 DEF ToForget, Down
  <2>2. CASE \E l \in Links : l[2] = x /\ \E j : AliveAt(e, l, j)'
    BY <1>16, <1>24, <1>25, <2>2 DEF ToForget
  <2> QED
    BY <1>26, <2>1, <2>2 DEF ToForget
<1>27. ASSUME NEW x, NEW l \in Links, NEW b, ByeAt(e, m, l, b), x \in Up(l[2]), l # p \/ b # k
       PROVE  Below(e, m, x)'
  <2>1. l \in UpLinks(e) /\ b \in DOMAIN link[l] /\ link[l][b].msg = m
    BY <1>27 DEF ByeAt
  <2>2. PICK j \in DOMAIN link'[l] : link'[l][j] = link[l][b]
    BY <1>18, <1>27, <2>1
  <2>3. ByeAt(e, m, l, j)'
    BY <2>1, <2>2 DEF ByeAt
  <2> QED
    BY <1>27, <2>3 DEF Below
(* A word that is not the last one: what is up to the bye-bye stays below. *)
<1>28. CASE c.msg # m
  <2>1. m \in heard' => m \in heard
    BY <1>9, <1>28
  <2>2. ASSUME NEW l \in UpLinks(e)
        PROVE  \E n \in Nat : \A j :
                  /\ ByeAt(e, m, l, j)' => ByeAt(e, m, l, Place(n, j))
                  /\ AliveAt(e, l, j)' =>
                        \/ AliveAt(e, l, Place(n, j))
                        \/ w.kind = "alive" /\ l = q /\ HasParent(r)
    BY <1>25, <1>28
  <2>3. ASSUME NEW l \in UpLinks(e), NEW j, ByeAt(e, m, l, j)' PROVE \E b : ByeAt(e, m, l, b)
    BY <2>2, <2>3
  <2>4. Live(e, m)' => Live(e, m)
    BY <1>24, <2>1, <2>3 DEF Live
  <2>5. ASSUME Live(e, m), w.kind = "alive" PROVE Below(e, m, r)
    <3>1. AliveAt(e, p, k)
      BY <1>2, <1>3, <1>13, <2>5 DEF AliveAt
    <3>2. ToForget(e, r)
      BY <3>1 DEF ToForget
    <3> QED
      BY <1>13, <1>22, <2>5, <3>2 DEF Follows
  <2>6. OneBye(e, m)'
    <3> SUFFICES ASSUME NEW l \in Links, NEW x \in Links, NEW i, NEW j,
                        ByeAt(e, m, l, i)', ByeAt(e, m, x, j)'
                 PROVE  l = x /\ i = j
      BY DEF OneBye
    <3>1. l = x
      BY <1>22, <1>24, <2>3 DEF OneBye
    <3>2. PICK n \in Nat : \A o : ByeAt(e, m, l, o)' => ByeAt(e, m, l, Place(n, o))
      BY <1>24, <2>2
    <3>3. Place(n, i) = Place(n, j)
      BY <1>22, <3>1, <3>2 DEF OneBye
    <3> QED
      BY <1>24, <3>1, <3>3, PlaceFacts
  <2>7. NotHeard(e, m)'
    <3> SUFFICES ASSUME NEW j, ByeAt(e, m, <<e, Start[e]>>, j)' PROVE m \notin heard'
      BY DEF NotHeard
    <3>1. \E b : ByeAt(e, m, <<e, Start[e]>>, b)
      BY <1>24, <2>3
    <3> QED
      BY <1>22, <2>1, <3>1 DEF NotHeard
  <2>8. InTurn(e, m)'
    <3> SUFFICES ASSUME NEW l \in Links, NEW i, NEW j, ByeAt(e, m, l, i)', AliveAt(e, l, j)'
                 PROVE  j < i
      BY DEF InTurn
    <3>1. PICK n \in Nat :
             /\ ByeAt(e, m, l, Place(n, i))
             /\ \/ AliveAt(e, l, Place(n, j))
                \/ w.kind = "alive" /\ l = q /\ HasParent(r)
      BY <1>24, <2>2
    <3>2. CASE AliveAt(e, l, Place(n, j))
      <4>1. Place(n, j) < Place(n, i) /\ i \in Nat /\ j \in Nat
        BY <1>22, <1>24, <3>1, <3>2 DEF InTurn
      <4> QED
        BY <4>1, PlaceOrder
    <3>3. CASE w.kind = "alive" /\ l = q /\ HasParent(r)
      <4>1. PICK x, b : x \in Links /\ ByeAt(e, m, x, b) /\ r \in Up(x[2])
        BY <2>5, <3>1, <3>3 DEF Live, Below
      <4>2. x = q
        BY <1>22, <3>1, <3>3, <4>1 DEF OneBye
      <4> QED
        BY <1>16, <3>3, <4>1, <4>2
    <3> QED
      BY <3>1, <3>2, <3>3
  <2>9. Follows(e, m)'
    <3> SUFFICES ASSUME Live(e, m)', NEW x \in Up(Start[e]), ToForget(e, x)'
                 PROVE  Below(e, m, x)'
      BY DEF Follows
    <3>1. x \in Routers /\ Live(e, m)
      BY <1>13, <2>4, UpClosed
    <3>2. Below(e, m, x)
      <4>1. CASE ToForget(e, x)
        BY <1>22, <3>1, <4>1 DEF Follows
      <4>2. CASE w.kind = "alive" /\ x = r
        BY <2>5, <3>1, <4>2
      <4>3. CASE w.kind = "alive" /\ x = Parent[r]
        <5>1. PICK l, b : l \in Links /\ ByeAt(e, m, l, b) /\ r \in Up(l[2])
          BY <2>5, <3>1, <4>3 DEF Below
        <5>2. l[2] \in Routers
          BY <1>23, <5>1 DEF ByeAt
        <5>3. Parent[r] \in Up(l[2])
          BY <5>1, <5>2, UpClosed
        <5> QED
          BY <4>3, <5>1, <5>3 DEF Below
      <4> QED
        BY <1>26, <3>1, <4>1, <4>2, <4>3
    <3>3. PICK l, b : l \in Links /\ ByeAt(e, m, l, b) /\ x \in Up(l[2])
      BY <3>2 DEF Below
    <3>4. l # p \/ b # k
      BY <1>2, <1>28, <3>3 DEF ByeAt
    <3> QED
      BY <1>27, <3>3, <3>4
  <2> QED
    BY <2>6, <2>7, <2>8, <2>9
(* The bye-bye itself: it goes on as long as a router above has an entry   *)
(* or a stillAlive to come.                                                *)
<1>29. CASE c.msg = m
  <2>1. w.kind = "bye" /\ ByeAt(e, m, p, k)
    BY <1>2, <1>3, <1>13, <1>22, <1>29 DEF ByeAt
  <2>2. ASSUME NEW l, NEW j, ByeAt(e, m, l, j)' PROVE l = q /\ j = Len(link[q]) + 1
    <3>1. l \in UpLinks(e) /\ l \in Links /\ j \in Nat
      BY <1>24, <2>2
    <3>2. PICK n \in Nat :
             /\ l = p => n = k
             /\ \/ ByeAt(e, m, l, Place(n, j))
                \/ l = q /\ j = Len(link[l]) + 1
      BY <1>25, <2>2, <3>1
    <3>3. ASSUME ByeAt(e, m, l, Place(n, j)) PROVE FALSE
      <4>1. l = p /\ Place(n, j) = k
        BY <1>22, <2>1, <3>1, <3>3 DEF OneBye
      <4> QED
        BY <3>1, <3>2, <4>1, PlaceFacts
    <3> QED
      BY <3>2, <3>3
  <2>3. ASSUME NEW l, NEW j, AliveAt(e, l, j)'
        PROVE  \E n \in Nat : AliveAt(e, l, Place(n, j)) /\ (l = p => n = k)
    BY <1>24, <1>25, <2>1, <2>3
  <2>4. OneBye(e, m)'
    BY <2>2 DEF OneBye
  <2>5. NotHeard(e, m)'
    <3> SUFFICES ASSUME NEW j, ByeAt(e, m, <<e, Start[e]>>, j)' PROVE FALSE
      BY DEF NotHeard
    <3>1. e = r
      BY <2>2
    <3> QED
      BY <1>1, <3>1, RoutingAssumption
  <2>6. InTurn(e, m)'
    <3> SUFFICES ASSUME NEW l \in Links, NEW i, NEW j, ByeAt(e, m, l, i)', AliveAt(e, l, j)'
                 PROVE  j < i
      BY DEF InTurn
    <3>1. l = q /\ i = Len(link[q]) + 1
      BY <2>2
    <3>2. i \in DOMAIN link'[l] /\ link'[l][i].msg = m /\ j \in DOMAIN link'[l] /\ i # j
      BY <1>9, <1>22 DEF ByeAt, AliveAt
    <3>3. PICK n \in Nat : AliveAt(e, l, Place(n, j))
      BY <2>3
    <3>4. l[1] = r /\ r \notin Endpoints
      BY <1>1, <3>1, RoutingAssumption
    <3>5. HasParent(r) /\ ~TooManyHops(c)
      <4>1. PICK o \in Nat :
                 /\ l = p => o = k
                 /\ \A y \in DOMAIN link'[l] :
                       \/ /\ Place(o, y) \in DOMAIN link[l] /\ link'[l][y] = link[l][Place(o, y)]
                       \/ /\ l = q /\ HasParent(r) /\ ~TooManyHops(c)
        BY <1>19, <1>23, <1>24
      <4>2. ASSUME Place(o, i) \in DOMAIN link[l], link'[l][i] = link[l][Place(o, i)]
            PROVE  FALSE
        <5>1. ByeAt(e, m, l, Place(o, i))
          BY <1>24, <3>2, <4>2 DEF ByeAt
        <5>2. l = p /\ Place(o, i) = k /\ i \in Nat
          BY <1>22, <1>24, <2>1, <5>1 DEF OneBye
        <5> QED
          BY <4>1, <5>2, PlaceFacts
      <4> QED
        BY <3>2, <4>1, <4>2
    <3> QED
      BY <1>17, <3>1, <3>2, <3>5
  <2>7. Follows(e, m)'
    <3> SUFFICES ASSUME NEW x \in Up(Start[e]), ToForget(e, x)'
                 PROVE  Below(e, m, x)'
      BY DEF Follows
    <3>1. x \in Routers /\ x \in Up(s)
      BY <1>13, UpClosed
    <3>2. ToForget(e, x) /\ x # r
      <4>1. ToForget(e, x)
        BY <1>26, <2>1, <3>1
      <4>2. ASSUME x = r PROVE FALSE
        <5>1. ~Down(e, r)'
          BY <1>14, <2>1 DEF Down
        <5>2. PICK l, j : l \in Links /\ l[2] = r /\ AliveAt(e, l, j)'
          BY <4>2, <5>1 DEF ToForget
        <5>3. l = p
          BY <1>13, <1>24, <5>2, UpLinkFacts
        <5>4. AliveAt(e, p, Place(k, j))
          BY <2>3, <5>2, <5>3
        <5>5. Place(k, j) < k
          BY <1>22, <2>1, <5>4 DEF InTurn
        <5>6. Place(k, j) \in DOMAIN link[p] /\ Word(e, link[p][Place(k, j)].msg)
          BY <5>4 DEF AliveAt
        <5>7. k \in Nat /\ Place(k, j) \in 1..k /\ Place(k, j) # k
          <6>1. link[p] \in Seq(Copies(Len(said)))
            BY <1>1, TypeFacts
          <6>2. DOMAIN link[p] = 1..Len(link[p]) /\ Len(link[p]) \in Nat
            BY <6>1
          <6> QED
            BY <5>5, <5>6, <6>2
        <5>8. Refuses(r, via, link[p][Place(k, j)])
          BY <1>1, <5>7 DEF Route, via
        <5> QED
          BY <5>6, <5>8, WordNotRefused
      <4> QED
        BY <4>1, <4>2
    <3>3. Below(e, m, x)
      BY <1>22, <2>1, <3>1, <3>2 DEF Follows, Live
    <3>4. x \in Up(r)
      BY <1>22, <2>1, <3>3 DEF Below, OneBye
    <3>5. HasParent(r) /\ x \in Up(Parent[r])
      BY <1>1, <3>2, <3>4, UpStrict
    <3>6. Height(e, r) < Height(e, x) /\ Height(e, r) \in Nat /\ Height(e, x) \in Nat
      BY <1>13, <3>1, <3>2, <3>4, HeightFacts
    <3>7. Height(e, x) <= MaxHops
      <4>1. CASE Down(e, x)
        BY <1>12, <3>1, <4>1 DEF IndexUp
      <4>2. CASE \E l \in Links : l[2] = x /\ \E j : AliveAt(e, l, j)
        <5>1. PICK l, j : l \in Links /\ l[2] = x /\ AliveAt(e, l, j)
          BY <4>2
        <5>2. j \in DOMAIN link[l] /\ Word(e, link[l][j].msg) /\ Upwards(l)
          BY <1>23, <5>1 DEF AliveAt
        <5>3. link[l][j].hops = Height(e, x)
          BY <1>12, <5>1, <5>2 DEF GoesUp
        <5>4. link[l][j] \in Copies(Len(said))
          BY <1>1, <5>1, <5>2, TypeFacts
        <5>5. link[l][j].hops \in 0..MaxHops
          BY <5>4 DEF Copies
        <5> QED
          BY <1>13, <5>3, <5>5
      <4> QED
        BY <3>2, <4>1, <4>2 DEF ToForget
    <3>8. ~TooManyHops(c)
      BY <1>13, <3>6, <3>7 DEF TooManyHops
    <3>9. PICK j : j = Len(link[q]) + 1
      OBVIOUS
    <3>10. j \in DOMAIN link'[q] /\ link'[q][j].msg = m
      BY <1>10, <1>17, <1>29, <3>5, <3>8, <3>9
    <3>11. q \in UpLinks(e) /\ q \in Links /\ q[2] = Parent[r]
      BY <1>16, <3>5
    <3>12. ByeAt(e, m, q, j)'
      BY <3>10, <3>11 DEF ByeAt
    <3> QED
      BY <3>5, <3>11, <3>12 DEF Below
  <2> QED
    BY <2>4, <2>5, <2>6, <2>7
<1> QED
  BY <1>28, <1>29

(* A router takes a copy.                                                  *)
LEMMA RouteForgets ==
    ASSUME RouteInv, RouteInv', ByeInv, NEW p \in Links, p[2] \in Routers,
           NEW k \in DOMAIN link[p], Route(p[2], p[1], k)
    PROVE  ByeInv'
<1>1. \A e \in Endpoints : Forgets(e)'
  BY RouteOthers, RouteUp
<1>2. UNCHANGED <<home, said, leaves>>
  BY DEF Route
<1> QED
  BY <1>1, <1>2 DEF ByeInv

(* The maintenance of a router; nobody is cut off while all are there.     *)
LEMMA MaintainForgets ==
    ASSUME RouteInv, RouteInv', ByeInv, NEW r \in Routers, Maintain(r)
    PROVE  ByeInv'
<1>1. TypeOK /\ TypeOK' /\ UNCHANGED <<index, said, leaves, heard>>
  BY DEF RouteInv, Maintain
<1>2. PICK unusable \in SUBSET {e \in ends[r] : home[e] # r} :
          LET gone == leaving[r] \cup unusable
          IN  /\ home' = [e \in Endpoints |->
                             IF e \in gone /\ home[e] = r THEN Off ELSE home[e]]
              /\ link' = [l \in Links |->
                             IF l \in (gone \X {r}) \cup ({r} \X gone)
                             THEN <<>> ELSE link[l]]
  BY DEF Maintain
<1>3. PICK gone : gone = leaving[r] \cup unusable
  OBVIOUS
<1>4. gone \subseteq Endpoints
  BY <1>1, <1>3 DEF TypeOK
<1>5. ASSUME leaves = 0 PROVE home' = home
  <2>1. leaving[r] = {}
    BY <1>5 DEF RouteInv, AllThere
  <2>2. \A e \in gone : home[e] # r
    BY <1>3, <2>1
  <2>3. home' = [e \in Endpoints |-> home[e]]
    BY <1>2, <1>3, <2>2
  <2> QED
    BY <1>1, <2>3 DEF TypeOK
<1>6. ASSUME NEW l \in Links, l[2] \in Routers
      PROVE  link'[l] = link[l] \/ (link'[l] = <<>> /\ l[1] \in Endpoints)
  <2>1. link'[l] = IF l \in (gone \X {r}) \cup ({r} \X gone) THEN <<>> ELSE link[l]
    BY <1>2, <1>3
  <2>2. l \in gone \X {r} => l[1] \in Endpoints
    BY <1>4
  <2>3. l \notin {r} \X gone
    BY <1>4, <1>6, RoutingAssumption
  <2> QED
    BY <2>1, <2>2, <2>3
<1> QED
  BY <1>1, <1>5, <1>6, DropForgets

(* The initial states.                                                     *)
LEMMA InitForgets == Init => ByeInv
<1> SUFFICES ASSUME Init PROVE ByeInv
  OBVIOUS
<1>1. /\ home = Start /\ said = <<>> /\ DOMAIN said = {}
      /\ \A l \in Links : DOMAIN link[l] = {}
      /\ \A x \in Routers, e \in Endpoints : index[x][e] = None
  BY DEF Init
<1>2. ASSUME NEW e \in Endpoints PROVE Forgets(e)
  BY <1>1 DEF Forgets, GoesUp, IndexUp, Down, Farewell
<1> QED
  BY <1>1, <1>2 DEF ByeInv

(* Every step.                                                             *)
LEMMA StepForgets ==
    ASSUME RouteInv, RouteInv', ByeInv, [Next]_vars
    PROVE  ByeInv'
<1>1. TypeOK /\ TypeOK'
  BY DEF RouteInv
<1>2. ASSUME NEW e \in Endpoints, Receive(e) PROVE ByeInv'
  <2>0. home[e] \in Routers
    BY <1>1, <1>2 DEF Receive, TypeOK
  <2>1. <<home[e], e>> \in Links
    BY <2>0, LinkFacts
  <2>2. link' = [link EXCEPT ![<<home[e], e>>] = Tail(@)]
        /\ UNCHANGED <<home, index, said, leaves, heard>>
    BY <1>2 DEF Receive, tables
  <2>3. \A l \in Links : l[2] \in Routers => link'[l] = link[l]
    BY <1>1, <2>2, RoutingAssumption DEF TypeOK
  <2> QED
    BY <1>1, <2>2, <2>3, DropForgets
<1>3. ASSUME NEW e \in Endpoints, NEW r \in Routers, Join(e, r) PROVE ByeInv'
  <2>1. /\ link' = [link EXCEPT ![<<e, r>>] = <<>>]
        /\ UNCHANGED <<index, said, leaves, heard>> /\ home[e] = Off
    BY <1>3 DEF Join
  <2>2. leaves # 0
    BY <2>1, RoutingAssumption DEF RouteInv, AllThere
  <2>3. \A l \in Links : link'[l] = link[l] \/ (link'[l] = <<>> /\ l[1] \in Endpoints)
    BY <1>1, <2>1, LinkFacts DEF TypeOK
  <2> QED
    BY <1>1, <2>1, <2>2, <2>3, DropForgets
<1>4. ASSUME NEW r \in Routers, NEW e \in Endpoints, Expire(r, e) \/ Outdate(r, e)
      PROVE  ByeInv'
  <2>1. UNCHANGED <<home, link, said, leaves, heard>>
    BY <1>4 DEF Expire, Outdate
  <2>2. \A x \in Routers, f \in Endpoints : index'[x][f] \in {index[x][f], None}
    BY <1>1, <1>4 DEF Expire, Outdate, TypeOK
  <2> QED
    BY <1>1, <2>1, <2>2, DropForgets
<1>5. CASE UNCHANGED vars
  <2>1. UNCHANGED <<home, index, link, said, leaves, heard>>
    BY <1>5 DEF vars, tables
  <2>2. \A x \in Routers, f \in Endpoints : index'[x][f] \in {index[x][f], None}
    BY <2>1
  <2> QED
    BY <1>1, <2>1, <2>2, DropForgets
<1>6. CASE RouteAny
  BY <1>6, RouteForgets DEF RouteAny
<1>7. CASE TooOldAny
  BY <1>7, TooOldForgets DEF TooOldAny
<1> QED
  BY <1>2, <1>3, <1>4, <1>5, <1>6, <1>7, SayForgets, LeaveForgets, MaintainForgets DEF Next
(* When the endpoint that left said bye-bye last, a router took that up    *)
(* (_handle_special) and nothing is on its way any more, then no index has *)
(* it as a node, but that of a router whose parent told it; for any tree   *)
(* of routers, limit of hops and order in which messages are forwarded.    *)
THEOREM ByeCorrect == Spec => []ByeForgotten
<1>1. RouteInv /\ ByeInv => ByeForgotten
  <2> SUFFICES ASSUME RouteInv, ByeInv, leaves <= 1, NEW e \in Endpoints,
                      \A l \in Links : link[l] = <<>>,
                      NEW m \in 1..Len(said), said[m].src = e, said[m].kind = "bye",
                      \A n \in (m + 1)..Len(said) : said[n].src # e, m \in heard,
                      NEW r \in Routers
               PROVE  index[r][e] \in {None, r}
    BY DEF ByeForgotten
  <2>1. /\ DOMAIN said = 1..Len(said) /\ Len(said) \in Nat /\ leaves \in Nat
        /\ m \in DOMAIN said
    BY TypeFacts, RoutingAssumption DEF RouteInv, TypeOK
  <2>2. leaves # 0
    BY <2>1 DEF RouteInv, AllThere
  <2>3. leaves = 1
    BY <2>1, <2>2
  <2>4. Farewell(e, m)
    <3>1. ASSUME NEW n \in DOMAIN said, said[n].src = e PROVE n <= m
      BY <2>1, <3>1
    <3> QED
      BY <2>1, <3>1 DEF Farewell
  <2>5. IndexUp(e) /\ Follows(e, m)
    BY <2>3, <2>4 DEF ByeInv, Forgets, FirstStay
  <2>6. ASSUME Down(e, r) PROVE FALSE
    <3>1. r \in Up(Start[e]) /\ ToForget(e, r) /\ Live(e, m)
      BY <2>5, <2>6 DEF IndexUp, ToForget, Live
    <3>2. PICK l, k : l \in Links /\ ByeAt(e, m, l, k)
      BY <2>5, <3>1 DEF Follows, Below
    <3>3. k \in DOMAIN link[l] /\ link[l] = <<>>
      BY <3>2 DEF ByeAt
    <3>4. DOMAIN <<>> = {}
      OBVIOUS
    <3> QED
      BY <3>3, <3>4
  <2> QED
    BY <2>6 DEF Down
<1>2. RouteInv /\ RouteInv' /\ ByeInv /\ [Next]_vars => ByeInv'
  BY StepForgets
<1> QED
  BY RouteCorrect, InitForgets, <1>1, <1>2, PTL DEF Spec
=============================================================================
