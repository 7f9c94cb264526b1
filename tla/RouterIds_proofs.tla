-------------------------- MODULE RouterIds_proofs --------------------------
(***************************************************************************)
(* Proofs about RouterIds, for any connections, ids and bounds.            *)
(*                                                                         *)
(* The argument: who has a preconfigured id, and every router, says only   *)
(* that id; an endpoint without one announces nothing before it was        *)
(* assigned an id, which it keeps, and requests nothing after that         *)
(* (UpRight).  What the router sends to a connection with its own id is    *)
(* that id (DownRight), since an assignment goes to a connection that      *)
(* requested one (AssignRight).  So what _handle_pending fetches is an id  *)
(* of the connection or the wish for one, and nothing else.                *)
(*                                                                         *)
(* While the sequence of ids has not wrapped, no id is told twice          *)
(* (UniqueInv); so nobody but a later run of the same program can take a   *)
(* node's entry, or leave it a bye-bye (KeptInv).  A router may forward a  *)
(* bye-bye while it is connected, which marks it only if it was taken for  *)
(* an endpoint.                                                            *)
(***************************************************************************)
EXTENDS RouterIds, FiniteSetTheorems, WellFoundedInduction, TLAPS

Announced == {"annEndptId", "announceId"}

(* What the connection of c is known under, once it is known.              *)
IdOf(c) == IF Kind[c] = "dynamic" THEN ownid[c] ELSE OwnId[c]

(* What a connection with an id may have said, and been told.              *)
RightBatch(c, id, batch) ==
    \A k \in DOMAIN batch :
        /\ batch[k].kind \in Announced => batch[k].id = id /\ id # None
        /\ batch[k].kind = "announceId" => Kind[c] = "router"
        /\ batch[k].kind = "annEndptId" => Kind[c] # "router"
        /\ batch[k].kind = "requestId" =>
              /\ Kind[c] = "dynamic"
              /\ \A j \in DOMAIN batch : batch[j].kind \in Announced => k < j

RightReply(c, batch) ==
    \A k \in DOMAIN batch :
        /\ batch[k].id # None
        /\ Kind[c] # "dynamic" => batch[k].id = OwnId[c]

UpRight == \A c \in Conns : RightBatch(c, IdOf(c), up[c])
DownRight == \A c \in Conns : RightReply(c, down[c])

AssignRight ==
    step = "assign" => idx \in DOMAIN pending /\ Kind[pending[idx]] = "dynamic"

(* Between the rounds nothing is left to fetch.                            *)
UnreadRight == step # "route" => unread = {}

IdsInv == /\ TypeOK
          /\ UpRight
          /\ DownRight
          /\ AssignRight
          /\ UnreadRight
          /\ NodeHoldsItsId
          /\ EndpointsAreLeaves

(* A set of positions that is not empty has a last one.                    *)
LEMMA LastExists ==
    ASSUME NEW n \in Nat, NEW T, T \subseteq 1..n, T # {}
    PROVE  \E i \in T : \A j \in T : j <= i
<1> DEFINE U == {n - i : i \in T}
<1>1. \A i \in T : i \in Nat /\ i <= n /\ n - i \in Nat
  OBVIOUS
<1>2. U \subseteq Nat /\ U # {}
  BY <1>1
<1>3. PICK u \in U : \A v \in U : ~ (<<v, u>> \in OpToRel(<, Nat))
  BY <1>2, NatLessThanWellFounded, WFMin, Zenon
<1>4. \A v \in U : ~ (v < u)
  BY <1>2, <1>3 DEF OpToRel
<1>5. PICK i \in T : u = n - i
  OBVIOUS
<1>6. \A j \in T : n - j \in U
  OBVIOUS
<1>7. \A j \in T : ~ (n - j < n - i)
  BY <1>4, <1>5, <1>6
<1>8. \A j \in T : j <= i
  BY <1>1, <1>7
<1> QED
  BY <1>8

(* What _handle_pending makes of a batch: nothing, a request, or the id    *)
(* of the connection, which is then announced in it.                       *)
LEMMA FetchedFacts ==
    ASSUME NEW c \in Conns, NEW id \in Nat, NEW batch \in Seq(Message),
           RightBatch(c, id, batch)
    PROVE  /\ FetchedId(batch) \in {None, -1, id}
           /\ FetchedId(batch) = -1 => Kind[c] = "dynamic"
           /\ FetchedId(batch) \notin {None, -1} =>
                 \E k \in DOMAIN batch : batch[k].kind \in Announced
<1> DEFINE ann == Announcements(batch)
           last == LastAnnouncement(batch)
           late == {i \in Requests(batch) : i > last}
           base == IF last = 0 THEN None ELSE batch[last].id
<1>1. FetchedId(batch) = IF Cardinality(late) % 2 = 0 THEN base ELSE -base - 1
  BY Zenon DEF FetchedId
<1>2. ann = {k \in DOMAIN batch : batch[k].kind \in Announced}
  BY DEF Announcements, Announced
<1> HIDE DEF late
<1>3. ASSUME late = {} PROVE Cardinality(late) % 2 = 0
  <2>1. Cardinality(late) = 0
    BY <1>3, FS_EmptySet, Zenon
  <2>2. 0 % 2 = 0
    OBVIOUS
  <2> QED
    BY <2>1, <2>2, Zenon
<1>4. CASE ann = {}
  <2>1. last = 0
    BY <1>4 DEF LastAnnouncement
  <2>2. base = 0
    BY <2>1 DEF None
  <2>3. FetchedId(batch) \in {0, -1}
    BY <1>1, <2>2
  <2>4. ASSUME FetchedId(batch) = -1 PROVE Kind[c] = "dynamic"
    <3>1. late # {}
      BY <1>1, <1>3, <2>2, <2>4
    <3>2. PICK k \in DOMAIN batch : batch[k].kind = "requestId"
      BY <3>1 DEF Requests, late
    <3> QED
      BY <3>2 DEF RightBatch
  <2> QED
    BY <2>3, <2>4 DEF None
<1>5. CASE ann # {}
  <2>1. ann \subseteq 1..Len(batch)
    BY <1>2
  <2>2. \E i \in ann : \A j \in ann : j <= i
    BY <1>5, <2>1, LastExists
  <2>3. last \in ann
    <3>1. last = CHOOSE i \in ann : \A j \in ann : j <= i
      BY <1>5 DEF LastAnnouncement
    <3> QED
      BY <2>2, <3>1, Zenon
  <2> HIDE DEF last, ann
  <2>4. last \in DOMAIN batch /\ last \in Nat \ {0} /\ batch[last].kind \in Announced
    BY <1>2, <2>3
  <2>5. base = id /\ id # None
    BY <2>4 DEF RightBatch
  <2>6. late = {}
    <3>1. \A i \in Requests(batch) : i \in Nat /\ i < last
      BY <2>4 DEF RightBatch, Requests
    <3> QED
      BY <2>4, <3>1 DEF late
  <2>7. FetchedId(batch) = id
    BY <1>1, <1>3, <2>5, <2>6
  <2> QED
    BY <2>4, <2>5, <2>7 DEF None
<1> QED
  BY <1>4, <1>5

(* The bye-byes of a batch are finitely many.                              *)
LEMMA ByesFinite ==
    ASSUME NEW batch \in Seq(Message)
    PROVE  Cardinality(Byes(batch)) \in Nat
<1>1. Len(batch) \in Nat /\ Byes(batch) \subseteq 1..Len(batch)
  BY DEF Byes
<1>2. IsFiniteSet(1..Len(batch))
  BY <1>1, FS_Interval
<1>3. IsFiniteSet(Byes(batch))
  BY <1>1, <1>2, FS_Subset
<1> QED
  BY <1>3, FS_CardinalityType

(* A bye-bye is a message.                                                 *)
LEMMA ByeType == Bye \in Message /\ Bye.kind = "byeBye"
  BY DEF Bye, Msg, Message, MsgKinds, None

(* What _handle_pending leaves in a connection are the bye-byes.           *)
LEMMA RefusedFacts ==
    ASSUME NEW batch \in Seq(Message)
    PROVE  /\ RefusedAtPending(batch) \in Seq(Message)
           /\ \A k \in DOMAIN RefusedAtPending(batch) :
                 RefusedAtPending(batch)[k].kind = "byeBye"
           /\ Byes(batch) = {} => RefusedAtPending(batch) = <<>>
<1> DEFINE n == Cardinality(Byes(batch))
<1>1. n \in Nat /\ RefusedAtPending(batch) = [k \in 1..n |-> Bye]
  BY ByesFinite, Zenon DEF RefusedAtPending
<1>2. Byes(batch) = {} => n = 0
  BY FS_EmptySet, Zenon
<1> HIDE DEF n
<1> QED
  BY <1>1, <1>2, ByeType

(* A subsequence is a sequence of the same kind.                           *)
LEMMA SubsequenceType ==
    ASSUME NEW S, NEW s \in Seq(S), NEW t \in Subsequences(s)
    PROVE  t \in Seq(S)
<1>1. PICK n \in 0..Len(s) : t \in {[k \in 1..n |-> s[f[k]]] : f \in Increasing(n, Len(s))}
  BY DEF Subsequences
<1>2. PICK f \in Increasing(n, Len(s)) : t = [k \in 1..n |-> s[f[k]]]
  BY <1>1
<1>3. n \in Nat /\ \A k \in 1..n : f[k] \in 1..Len(s)
  BY <1>2 DEF Increasing
<1>4. \A k \in 1..n : s[f[k]] \in S
  BY <1>3
<1> QED
  BY <1>2, <1>3, <1>4

(* A batch that is right stays so when the beginning of it is kept.        *)
LEMMA RightPrefix ==
    ASSUME NEW c \in Conns, NEW id \in Nat, NEW batch \in Seq(Message),
           NEW n \in 0..Len(batch), RightBatch(c, id, batch)
    PROVE  /\ SubSeq(batch, 1, n) \in Seq(Message)
           /\ RightBatch(c, id, SubSeq(batch, 1, n))
<1> DEFINE b == SubSeq(batch, 1, n)
<1>1. /\ b \in Seq(Message) /\ DOMAIN b = 1..n /\ 1..n \subseteq DOMAIN batch
      /\ \A k \in DOMAIN b : b[k] = batch[k]
  OBVIOUS
<1> HIDE DEF b
<1>2. RightBatch(c, id, b)
  BY <1>1 DEF RightBatch
<1> QED
  BY <1>1, <1>2 DEF b

(* A batch that is right stays so when a message that is right follows.    *)
LEMMA RightAppend ==
    ASSUME NEW c \in Conns, NEW id \in Nat, NEW batch \in Seq(Message),
           NEW m \in Message, RightBatch(c, id, batch),
           RightBatch(c, id, <<m>>),
           m.kind = "requestId" =>
              \A k \in DOMAIN batch : batch[k].kind \notin Announced
    PROVE  RightBatch(c, id, Append(batch, m))
<1> DEFINE b == Append(batch, m)
           n == Len(batch) + 1
<1>1. /\ DOMAIN b = DOMAIN batch \cup {n} /\ b[n] = m
      /\ \A k \in DOMAIN batch : b[k] = batch[k] /\ k < n /\ k # n
  OBVIOUS
<1>2. /\ m.kind \in Announced => m.id = id /\ id # None
      /\ m.kind = "announceId" => Kind[c] = "router"
      /\ m.kind = "annEndptId" => Kind[c] # "router"
      /\ m.kind = "requestId" => Kind[c] = "dynamic"
  <2>1. 1 \in DOMAIN <<m>> /\ <<m>>[1] = m
    OBVIOUS
  <2> QED
    BY <2>1 DEF RightBatch
<1> HIDE DEF b, n
<1>3. ASSUME NEW k \in DOMAIN b
      PROVE  /\ b[k].kind \in Announced => b[k].id = id /\ id # None
             /\ b[k].kind = "announceId" => Kind[c] = "router"
             /\ b[k].kind = "annEndptId" => Kind[c] # "router"
             /\ b[k].kind = "requestId" => Kind[c] = "dynamic"
  BY <1>1, <1>2, <1>3 DEF RightBatch
<1>4. ASSUME NEW k \in DOMAIN b, b[k].kind = "requestId",
             NEW j \in DOMAIN b, b[j].kind \in Announced
      PROVE  k < j
  <2>1. "requestId" \notin Announced
    BY DEF Announced
  <2>2. CASE k = n
    <3>1. j \in DOMAIN batch
      BY <1>1, <1>4, <2>1, <2>2
    <3> QED
      BY <1>1, <1>4, <2>2, <3>1
  <2>3. CASE k # n
    BY <1>1, <1>4, <2>3 DEF RightBatch
  <2> QED
    BY <2>2, <2>3
<1> QED
  BY <1>3, <1>4 DEF RightBatch, b

(* Ids are natural numbers.                                                *)
LEMMA IdType == ASSUME TypeOK, NEW c \in Conns PROVE IdOf(c) \in Nat
  BY IdAssumption DEF TypeOK, IdOf

(* What _handle_pending does to the connection that it looks at: what is   *)
(* left of its batch is typed and right.                                   *)
LEMMA PendingFacts ==
    ASSUME IdsInv, idx \in 1..Len(pending), NEW c, c = pending[idx]
    PROVE  /\ c \in Conns /\ up[c] \in Seq(Message)
           /\ FetchedId(up[c]) \in {None, -1, IdOf(c)}
           /\ FetchedId(up[c]) = -1 => Kind[c] = "dynamic"
           /\ FetchedId(up[c]) \notin {None, -1} =>
                 \E k \in DOMAIN up[c] : up[c][k].kind \in Announced
           /\ RefusedAtPending(up[c]) \in Seq(Message)
           /\ RightBatch(c, IdOf(c), RefusedAtPending(up[c]))
<1>1. c \in Conns /\ up[c] \in Seq(Message)
  BY DEF IdsInv, TypeOK
<1>2. IdOf(c) \in Nat
  BY <1>1, IdType DEF IdsInv
<1>3. RightBatch(c, IdOf(c), up[c])
  BY <1>1 DEF IdsInv, UpRight
<1>4. RightBatch(c, IdOf(c), RefusedAtPending(up[c]))
  BY <1>1, RefusedFacts DEF RightBatch, Announced
<1> QED
  BY <1>1, <1>2, <1>3, <1>4, FetchedFacts, RefusedFacts

(* The initial states.                                                     *)
LEMMA InitInv == Init => IdsInv
<1> SUFFICES ASSUME Init PROVE IdsInv
  OBVIOUS
<1>1. TypeOK
  BY IdAssumption DEF Init, TypeOK, None
<1>2. UpRight /\ DownRight
  BY DEF Init, UpRight, DownRight, RightBatch, RightReply
<1>3. AssignRight /\ UnreadRight /\ NodeHoldsItsId /\ EndpointsAreLeaves
  BY DEF Init, AssignRight, UnreadRight, NodeHoldsItsId, EndpointsAreLeaves
<1> QED
  BY <1>1, <1>2, <1>3 DEF IdsInv

(* Every step keeps the types.                                             *)
LEMMA StepType == IdsInv /\ [Next]_vars => TypeOK'
<1> SUFFICES ASSUME IdsInv, [Next]_vars PROVE TypeOK'
  OBVIOUS
<1>a. TypeOK /\ UnreadRight
  BY DEF IdsInv
<1>1. ASSUME NEW c \in Conns, Connect(c) PROVE TypeOK'
  BY <1>a, <1>1 DEF TypeOK, Connect, control
<1>2. ASSUME NEW c \in Conns, Ask(c) PROVE TypeOK'
  <2>1. PICK m \in Message : up' = [up EXCEPT ![c] = Append(@, m)]
    <3>1. Msg("requestId", None) \in Message
      BY DEF Msg, Message, MsgKinds, None
    <3>2. Msg("annEndptId", OwnId[c]) \in Message /\ Msg("announceId", OwnId[c]) \in Message
      BY IdAssumption DEF Msg, Message, MsgKinds
    <3> QED
      BY <1>2, <3>1, <3>2, IdAssumption DEF Ask, SendUp
  <2>2. up' \in [Conns -> Seq(Message)]
    BY <1>a, <2>1 DEF TypeOK
  <2>3. asks' \in [Conns -> Nat] /\ \A d \in Conns : asks'[d] <= MaxAsks[d]
    <3>1. /\ asks \in [Conns -> Nat] /\ \A d \in Conns : asks[d] <= MaxAsks[d]
          /\ asks' = [asks EXCEPT ![c] = asks[c] + 1] /\ asks[c] < MaxAsks[c]
          /\ asks[c] \in Nat /\ MaxAsks[c] \in Nat
      BY <1>a, <1>2, IdAssumption DEF TypeOK, Ask
    <3> QED
      BY <3>1
  <2> QED
    BY <1>a, <1>2, <2>2, <2>3 DEF TypeOK, Ask, tables, control
<1>3. ASSUME NEW c \in Conns, Receive(c) PROVE TypeOK'
  <2>1. down[c] \in Seq(Message) /\ down[c] # <<>>
    BY <1>a, <1>3 DEF TypeOK, Receive
  <2>2. Head(down[c]).id \in Nat
    <3>1. Head(down[c]) \in Message
      BY <2>1
    <3> QED
      BY <3>1 DEF Message
  <2>3. Msg("annEndptId", Head(down[c]).id) \in Message
    BY <2>2 DEF Msg, Message, MsgKinds
  <2>a. PICK m \in Message : up' = up \/ up' = [up EXCEPT ![c] = Append(@, m)]
    BY <1>3, <2>3 DEF Receive, SendUp
  <2>4. up' \in [Conns -> Seq(Message)]
    <3>1. CASE up' = up
      BY <1>a, <3>1 DEF TypeOK
    <3>2. CASE up' = [up EXCEPT ![c] = Append(@, m)]
      BY <1>a, <3>2 DEF TypeOK
    <3> QED
      BY <2>a, <3>1, <3>2
  <2>b. down' = [down EXCEPT ![c] = <<>>]
    BY <1>3 DEF Receive
  <2>c. PICK n \in Nat : ownid' = ownid \/ ownid' = [ownid EXCEPT ![c] = n]
    BY <1>3, <2>2 DEF Receive
  <2>5. down' \in [Conns -> Seq(Message)] /\ ownid' \in [Conns -> Nat]
    <3>1. down' \in [Conns -> Seq(Message)]
      BY <1>a, <2>b DEF TypeOK
    <3>2. CASE ownid' = ownid
      BY <1>a, <3>1, <3>2 DEF TypeOK
    <3>3. CASE ownid' = [ownid EXCEPT ![c] = n]
      BY <1>a, <3>1, <3>3 DEF TypeOK
    <3> QED
      BY <2>c, <3>2, <3>3
  <2> QED
    BY <1>a, <1>3, <2>4, <2>5 DEF TypeOK, Receive, tables, control
<1>4. ASSUME NEW c \in Conns, Finish(c) \/ ForwardBye(c) PROVE TypeOK'
  <2>0. up' = [up EXCEPT ![c] = Append(up[c], Bye)]
    BY <1>4 DEF Finish, ForwardBye, SendUp
  <2>1. up' \in [Conns -> Seq(Message)]
    BY <1>a, <2>0, ByeType DEF TypeOK
  <2>2. link' = link \/ link' = [link EXCEPT ![c] = "closed"]
    BY <1>4 DEF Finish, ForwardBye, nodeVars
  <2>3. link' \in [Conns -> {"new", "open", "closed"}]
    BY <1>a, <2>2 DEF TypeOK
  <2> QED
    BY <1>a, <1>4, <2>1, <2>3 DEF TypeOK, Finish, ForwardBye, nodeVars, tables, control
<1>5. ASSUME NEW c \in Conns, Crash(c) PROVE TypeOK'
  <2>1. PICK n \in 0..Len(up[c]) : up' = [up EXCEPT ![c] = SubSeq(@, 1, n)]
    BY <1>5 DEF Crash
  <2>2. up' \in [Conns -> Seq(Message)]
    BY <1>a, <2>1 DEF TypeOK
  <2> QED
    BY <1>a, <1>5, <2>2 DEF TypeOK, Crash, tables, control
<1>6. CASE Maintain
  <2>1. PICK drop : nodes' = [i \in DOMAIN nodes \ drop |-> nodes[i]]
    BY <1>6 DEF Maintain
  <2>2. pending' \in Seq(Conns)
    BY <1>a, <1>6, SubsequenceType DEF TypeOK, Maintain
  <2>3. unread' = {}
    BY <1>a, <1>6 DEF Maintain, UnreadRight
  <2>4. DOMAIN nodes' \subseteq Nat \ {None} /\ \A i \in DOMAIN nodes' : nodes'[i] \in NodeState
    BY <1>a, <2>1 DEF TypeOK
  <2> QED
    BY <1>a, <1>6, <2>2, <2>3, <2>4 DEF TypeOK, Maintain, nodeVars
<1>7. CASE PendingSilent \/ PendingRequest
  <2>1. idx \in 1..Len(pending)
    BY <1>a, <1>7 DEF TypeOK, PendingSilent, PendingRequest
  <2>2. RefusedAtPending(up[pending[idx]]) \in Seq(Message)
    BY <2>1, PendingFacts
  <2>3. up' = [up EXCEPT ![pending[idx]] = RefusedAtPending(@)]
    BY <1>7 DEF PendingSilent, PendingRequest
  <2>4. up' \in [Conns -> Seq(Message)]
    BY <1>a, <2>2, <2>3 DEF TypeOK
  <2>5. guess' \in BOOLEAN
    BY <1>a, <1>7 DEF TypeOK, PendingSilent, PendingRequest, StillGuess
  <2>6. idx' \in Nat \ {0} /\ step' \in {"pending", "assign"} /\ orig' \in Nat
    <3>1. CASE PendingSilent
      BY <1>a, <3>1 DEF TypeOK, PendingSilent
    <3>2. CASE PendingRequest
      BY <1>a, <3>2 DEF TypeOK, PendingRequest
    <3> QED
      BY <1>7, <3>1, <3>2
  <2> QED
    BY <1>a, <1>7, <2>4, <2>5, <2>6 DEF TypeOK, PendingSilent, PendingRequest, nodeVars, tables
<1>8. CASE PendingAdopt
  <2> DEFINE c == pending[idx]
             i == FetchedId(up[c])
  <2>1. idx \in 1..Len(pending)
    BY <1>a, <1>8 DEF TypeOK, PendingAdopt
  <2>2. /\ c \in Conns /\ RefusedAtPending(up[c]) \in Seq(Message)
        /\ i \in Nat \ {None}
    BY <1>a, <1>8, <2>1, PendingFacts, IdType DEF PendingAdopt
  <2>3. up' \in [Conns -> Seq(Message)]
    BY <1>a, <1>8, <2>2 DEF TypeOK, PendingAdopt
  <2>4. down' \in [Conns -> Seq(Message)]
    <3>1. Msg("confirmId", i) \in Message
      BY <2>2 DEF Msg, Message, MsgKinds
    <3> QED
      BY <1>a, <1>8, <3>1 DEF TypeOK, PendingAdopt, SendDown
  <2>5. nodes' = Adopt(c, i)
    BY <1>8 DEF PendingAdopt
  <2>6. DOMAIN nodes' \subseteq Nat \ {None} /\ DOMAIN nodes \subseteq DOMAIN nodes'
    BY <1>a, <2>2, <2>5 DEF TypeOK, Adopt
  <2>7. guess' \in BOOLEAN /\ StillGuess(up[c]) \in BOOLEAN
    BY <1>a, <1>8 DEF TypeOK, PendingAdopt, StillGuess
  <2>8. \A n \in DOMAIN nodes' : nodes'[n] \in NodeState
    BY <1>a, <2>2, <2>5, <2>7 DEF TypeOK, Adopt, NodeState
  <2>9. pending' \in Seq(Conns)
    <3>1. pending \in Seq(Conns) /\ idx \in Nat
      BY <1>a DEF TypeOK
    <3> DEFINE x == SubSeq(pending, 1, idx - 1)
               y == SubSeq(pending, idx + 1, Len(pending))
    <3>2. x \in Seq(Conns)
      BY <2>1, <3>1
    <3>3. y \in Seq(Conns)
      BY <2>1, <3>1
    <3>4. pending' = x \o y
      BY <1>8 DEF PendingAdopt, WithoutAt
    <3> HIDE DEF x, y
    <3> QED
      BY <3>2, <3>3, <3>4
  <2> QED
    BY <1>a, <1>8, <2>3, <2>4, <2>6, <2>7, <2>8, <2>9 DEF TypeOK, PendingAdopt, nodeVars
<1>9. CASE AssignNext
  <2>1. IdBase \in Nat /\ sequence \in Nat /\ sequence > IdBase
    BY <1>a, IdAssumption DEF TypeOK
  <2>2. sequence' \in Nat /\ sequence' > IdBase /\ step' \in {"pending", "assign"}
    BY <1>9, <2>1 DEF AssignNext
  <2> QED
    BY <1>a, <1>9, <2>2 DEF TypeOK, AssignNext, nodeVars, tables
<1>10. CASE AssignFound
  <2>1. Msg("assignId", sequence) \in Message
    BY <1>a DEF TypeOK, Msg, Message, MsgKinds
  <2>a. down' = [down EXCEPT ![pending[idx]] = Append(@, Msg("assignId", sequence))]
    BY <1>10 DEF AssignFound, SendDown
  <2>b. pending[idx] \in Conns
    BY <1>a, <1>10 DEF IdsInv, TypeOK, AssignRight, AssignFound
  <2>2. down' \in [Conns -> Seq(Message)]
    BY <1>a, <2>1, <2>a, <2>b DEF TypeOK
  <2>3. sequence' \in Nat /\ sequence' > IdBase
    BY <1>a, <1>10, IdAssumption DEF TypeOK, AssignFound
  <2> QED
    BY <1>a, <1>10, <2>2, <2>3 DEF TypeOK, AssignFound, nodeVars, tables
<1>11. CASE AcceptAll
  BY <1>a, <1>11 DEF TypeOK, AcceptAll, nodeVars
<1>12. ASSUME NEW i \in unread, Route(i) PROVE TypeOK'
  <2>1. i \in DOMAIN nodes
    BY <1>a DEF TypeOK
  <2>2. nodes[i].conn \in Conns /\ nodes[i] \in NodeState
    BY <1>a, <2>1 DEF TypeOK, NodeState
  <2>a. up' = up \/ up' = [up EXCEPT ![nodes[i].conn] = <<>>]
    BY <1>12 DEF Route
  <2>3. up' \in [Conns -> Seq(Message)]
    <3>1. CASE up' = up
      BY <1>a, <3>1 DEF TypeOK
    <3>2. CASE up' = [up EXCEPT ![nodes[i].conn] = <<>>]
      BY <1>a, <2>2, <3>2 DEF TypeOK
    <3> QED
      BY <2>a, <3>1, <3>2
  <2>4. DOMAIN nodes' = DOMAIN nodes /\ \A n \in DOMAIN nodes : nodes'[n] \in NodeState
    <3>1. CASE UNCHANGED nodes
      BY <1>a, <3>1 DEF TypeOK
    <3>2. CASE nodes' = [nodes EXCEPT ![i].doDisconnect = @ \/ Marks(i)]
      <4>1. (nodes[i].doDisconnect \/ Marks(i)) \in BOOLEAN
        BY Zenon
      <4>2. /\ DOMAIN nodes' = DOMAIN nodes
            /\ \A n \in DOMAIN nodes : n # i => nodes'[n] = nodes[n]
            /\ nodes'[i] = [nodes[i] EXCEPT !.doDisconnect = @ \/ Marks(i)]
        BY <2>1, <3>2
      <4>3. nodes'[i] \in NodeState
        BY <2>2, <4>1, <4>2 DEF NodeState
      <4> QED
        BY <1>a, <4>2, <4>3 DEF TypeOK
    <3> QED
      BY <1>12, <3>1, <3>2 DEF Route
  <2>5. unread' \subseteq DOMAIN nodes'
    BY <1>a, <1>12, <2>4 DEF TypeOK, Route
  <2> QED
    BY <1>a, <1>12, <2>3, <2>4, <2>5 DEF TypeOK, Route, nodeVars
<1>13. CASE NextRound \/ UpdateDone
  <2>1. step' \in {"pending", "maintain"} /\ idx' \in Nat \ {0} /\ guess' \in BOOLEAN
    <3>1. CASE NextRound
      BY <3>1 DEF NextRound
    <3>2. CASE UpdateDone
      BY <1>a, <3>2 DEF TypeOK, UpdateDone
    <3> QED
      BY <1>13, <3>1, <3>2
  <2>2. UNCHANGED <<link, ownid, asks, up, down, accepted, pending, nodes, sequence,
                    orig, unread>>
    BY <1>13 DEF NextRound, UpdateDone, nodeVars, tables
  <2> QED
    BY <1>a, <2>1, <2>2 DEF TypeOK
<1>14. CASE UNCHANGED vars
  BY <1>a, <1>14 DEF TypeOK, vars, nodeVars, tables, control
<1> QED
  BY <1>1, <1>2, <1>3, <1>4, <1>5, <1>6, <1>7, <1>8, <1>9, <1>10, <1>11, <1>12,
     <1>13, <1>14 DEF Next, RouterNext

(* Nodes say only what is right for them: steps that leave the ids and     *)
(* what was said, ...                                                      *)
LEMMA UpUnchanged ==
    ASSUME UpRight, UNCHANGED <<ownid, up>> PROVE UpRight'
  BY DEF UpRight, IdOf, RightBatch

(* ... that change what one of them said, ...                              *)
LEMMA UpChanged ==
    ASSUME TypeOK, UpRight, NEW c \in Conns, ownid' = ownid, NEW b,
           up' = [up EXCEPT ![c] = b], RightBatch(c, IdOf(c), b)
    PROVE  UpRight'
<1>1. ASSUME NEW d \in Conns PROVE up'[d] = IF d = c THEN b ELSE up[d]
  BY DEF TypeOK
<1>2. ASSUME NEW d \in Conns PROVE RightBatch(d, IdOf(d), up'[d])
  BY <1>1 DEF UpRight
<1>3. \A d \in Conns : IdOf(d)' = IdOf(d)
  BY DEF IdOf
<1> QED
  BY <1>2, <1>3 DEF UpRight, RightBatch

(* ... or that ask for an id or announce one, ...                          *)
LEMMA AskUp ==
    ASSUME IdsInv, NEW c \in Conns, Ask(c) PROVE UpRight'
<1> DEFINE m == CASE Kind[c] = "dynamic" -> Msg("requestId", None)
                  [] Kind[c] = "preconf" -> Msg("annEndptId", OwnId[c])
                  [] Kind[c] = "router"  -> Msg("announceId", OwnId[c])
<1>1. up' = [up EXCEPT ![c] = Append(up[c], m)] /\ ownid' = ownid /\ ownid[c] = None
  BY DEF Ask, SendUp
<1>2. TypeOK /\ UpRight /\ up[c] \in Seq(Message) /\ IdOf(c) \in Nat
  BY IdType DEF IdsInv, TypeOK
<1>3. RightBatch(c, IdOf(c), up[c])
  BY <1>2 DEF UpRight
<1>4. CASE Kind[c] = "dynamic"
  <2>1. m = Msg("requestId", None) /\ m \in Message
    BY <1>4 DEF Msg, Message, MsgKinds, None
  <2>2. IdOf(c) = None
    BY <1>1, <1>4 DEF IdOf
  <2>3. \A k \in DOMAIN up[c] : up[c][k].kind \notin Announced
    BY <1>3, <2>2 DEF RightBatch
  <2>4. RightBatch(c, IdOf(c), <<m>>)
    BY <1>4, <2>1 DEF RightBatch, Msg, Announced
  <2> HIDE DEF m
  <2>5. RightBatch(c, IdOf(c), Append(up[c], m))
    BY <1>2, <1>3, <2>1, <2>3, <2>4, RightAppend
  <2> QED
    BY <1>1, <1>2, <2>5, UpChanged
<1>5. CASE Kind[c] # "dynamic"
  <2>1. /\ IdOf(c) = OwnId[c] /\ OwnId[c] \in Nat \ {0}
        /\ Kind[c] \in {"preconf", "router"}
    BY <1>5, IdAssumption DEF IdOf
  <2>2. m = Msg(IF Kind[c] = "router" THEN "announceId" ELSE "annEndptId", OwnId[c])
    BY <1>5, <2>1
  <2> HIDE DEF m
  <2>3. m \in Message /\ m.kind # "requestId"
    BY <2>1, <2>2 DEF Msg, Message, MsgKinds
  <2>4. RightBatch(c, IdOf(c), <<m>>)
    <3>1. /\ m.id = OwnId[c] /\ m.kind \in Announced
          /\ m.kind = "announceId" <=> Kind[c] = "router"
      BY <2>2 DEF Msg, Announced
    <3>2. m.kind = "annEndptId" <=> Kind[c] # "router"
      BY <2>2 DEF Msg
    <3> QED
      BY <2>1, <2>3, <3>1, <3>2 DEF RightBatch, None
  <2>5. RightBatch(c, IdOf(c), Append(up[c], m))
    BY <1>2, <1>3, <2>3, <2>4, RightAppend
  <2> QED
    BY <1>1, <1>2, <2>5, UpChanged
<1> QED
  BY <1>4, <1>5

(* ... or that learn their id and announce it.                             *)
LEMMA ReceiveUp ==
    ASSUME IdsInv, NEW c \in Conns, Receive(c) PROVE UpRight'
<1>1. CASE ownid[c] # None
  BY <1>1, UpUnchanged DEF IdsInv, Receive
<1>2. CASE ownid[c] = None
  <2> DEFINE n == Head(down[c]).id
             m == Msg("annEndptId", n)
             id == IF Kind[c] = "dynamic" THEN n ELSE OwnId[c]
  <2>1. /\ TypeOK /\ UpRight /\ down[c] \in Seq(Message) /\ down[c] # <<>>
        /\ up[c] \in Seq(Message)
    BY DEF IdsInv, TypeOK, Receive
  <2>2. n \in Nat \ {None} /\ (Kind[c] # "dynamic" => n = OwnId[c])
    <3>1. Head(down[c]) = down[c][1] /\ 1 \in DOMAIN down[c] /\ down[c][1] \in Message
      BY <2>1
    <3>2. RightReply(c, down[c])
      BY DEF IdsInv, DownRight
    <3>3. n \in Nat
      BY <3>1 DEF Message
    <3> QED
      BY <3>1, <3>2, <3>3 DEF RightReply
  <2>3. ownid' = [ownid EXCEPT ![c] = n]
    BY <1>2 DEF Receive
  <2>4. \A d \in Conns : IdOf(d)' = IF d = c THEN id ELSE IdOf(d)
    BY <2>1, <2>3 DEF IdOf, TypeOK
  <2>5. id \in Nat \ {None} /\ n = id
    BY <2>2
  <2> HIDE DEF n, id
  <2>6. RightBatch(c, id, up[c])
    <3>1. RightBatch(c, IdOf(c), up[c])
      BY <2>1 DEF UpRight
    <3>2. IdOf(c) # None => IdOf(c) = id
      BY <1>2 DEF IdOf, id
    <3> QED
      BY <3>1, <3>2 DEF RightBatch
  <2>7. \A d \in Conns : up'[d] = up[d] \/ (d = c /\ up'[d] = Append(up[d], m)
                                              /\ Kind[c] # "router")
    BY <1>2, <2>1 DEF Receive, SendUp, TypeOK, n
  <2>8. ASSUME Kind[c] # "router" PROVE RightBatch(c, id, Append(up[c], m))
    <3>1. m \in Message /\ m.kind # "requestId"
      BY <2>5 DEF Msg, Message, MsgKinds
    <3>2. RightBatch(c, id, <<m>>)
      BY <2>5, <2>8 DEF RightBatch, Msg
    <3> HIDE DEF m
    <3> QED
      BY <2>1, <2>5, <2>6, <3>1, <3>2, RightAppend
  <2>9. ASSUME NEW d \in Conns PROVE RightBatch(d, IF d = c THEN id ELSE IdOf(d), up'[d])
    <3>1. CASE d = c
      BY <2>6, <2>7, <2>8, <3>1
    <3>2. CASE d # c
      BY <2>1, <2>7, <3>2 DEF UpRight
    <3> QED
      BY <3>1, <3>2
  <2> QED
    BY <2>4, <2>9 DEF UpRight, RightBatch
<1> QED
  BY <1>1, <1>2

(* Every step keeps what nodes say right.                                  *)
LEMMA StepUp == IdsInv /\ [Next]_vars => UpRight'
<1> SUFFICES ASSUME IdsInv, [Next]_vars PROVE UpRight'
  OBVIOUS
<1>a. TypeOK /\ UpRight
  BY DEF IdsInv
<1>b. ASSUME NEW c \in Conns
      PROVE  up[c] \in Seq(Message) /\ IdOf(c) \in Nat /\ RightBatch(c, IdOf(c), up[c])
  BY <1>a, IdType DEF TypeOK, UpRight
<1>1. ASSUME NEW c \in Conns, Connect(c) PROVE UpRight'
  BY <1>a, <1>1, UpUnchanged DEF Connect
<1>2. ASSUME NEW c \in Conns, Finish(c) \/ ForwardBye(c) PROVE UpRight'
  <2>2. up' = [up EXCEPT ![c] = Append(up[c], Bye)] /\ ownid' = ownid
    BY <1>2 DEF Finish, ForwardBye, SendUp, nodeVars
  <2>3. RightBatch(c, IdOf(c), <<Bye>>)
    BY ByeType DEF RightBatch, Announced
  <2>4. RightBatch(c, IdOf(c), Append(up[c], Bye))
    BY <1>b, <2>3, ByeType, RightAppend
  <2> QED
    BY <1>a, <2>2, <2>4, UpChanged
<1>3. ASSUME NEW c \in Conns, Crash(c) PROVE UpRight'
  <2>1. PICK n \in 0..Len(up[c]) : up' = [up EXCEPT ![c] = SubSeq(up[c], 1, n)]
    BY <1>3 DEF Crash
  <2>2. RightBatch(c, IdOf(c), SubSeq(up[c], 1, n))
    BY <1>b, RightPrefix
  <2>3. ownid' = ownid
    BY <1>3 DEF Crash
  <2> QED
    BY <1>a, <2>1, <2>2, <2>3, UpChanged
<1>4. CASE Maintain \/ AssignNext \/ AssignFound \/ AcceptAll \/ NextRound \/ UpdateDone
  <2>1. UNCHANGED <<ownid, up>>
    BY <1>4 DEF Maintain, AssignNext, AssignFound, AcceptAll, NextRound, UpdateDone, nodeVars
  <2> QED
    BY <1>a, <2>1, UpUnchanged
<1>5. CASE PendingSilent \/ PendingRequest \/ PendingAdopt
  <2> DEFINE c == pending[idx]
  <2>1. idx \in 1..Len(pending)
    BY <1>a, <1>5 DEF TypeOK, PendingSilent, PendingRequest, PendingAdopt
  <2>2. c \in Conns /\ RightBatch(c, IdOf(c), RefusedAtPending(up[c]))
    BY <2>1, PendingFacts
  <2>3. up' = [up EXCEPT ![c] = RefusedAtPending(up[c])] /\ ownid' = ownid
    BY <1>5 DEF PendingSilent, PendingRequest, PendingAdopt, nodeVars
  <2> HIDE DEF c
  <2> QED
    BY <1>a, <2>2, <2>3, UpChanged
<1>6. ASSUME NEW i \in unread, Route(i) PROVE UpRight'
  <2> DEFINE c == nodes[i].conn
  <2>1. c \in Conns
    BY <1>a DEF TypeOK, NodeState
  <2>2. ownid' = ownid /\ (up' = up \/ up' = [up EXCEPT ![c] = <<>>])
    BY <1>6 DEF Route, nodeVars
  <2>3. RightBatch(c, IdOf(c), <<>>)
    BY DEF RightBatch
  <2> HIDE DEF c
  <2> QED
    BY <1>a, <2>1, <2>2, <2>3, UpChanged, UpUnchanged
<1>7. CASE UNCHANGED vars
  BY <1>a, <1>7, UpUnchanged DEF vars, nodeVars
<1> QED
  BY <1>1, <1>2, <1>3, <1>4, <1>5, <1>6, <1>7, AskUp, ReceiveUp DEF Next, RouterNext

(* The router sends what is right: one message more, ...                   *)
LEMMA DownAppended ==
    ASSUME TypeOK, DownRight, NEW c \in Conns, NEW m \in Message, m.id # None,
           Kind[c] # "dynamic" => m.id = OwnId[c],
           down' = [down EXCEPT ![c] = Append(@, m)]
    PROVE  DownRight'
<1>1. ASSUME NEW d \in Conns PROVE RightReply(d, down'[d])
  <2>1. CASE d # c
    BY <2>1 DEF TypeOK, DownRight
  <2>2. CASE d = c
    <3> DEFINE b == Append(down[c], m)
               n == Len(down[c]) + 1
    <3>1. /\ DOMAIN b = DOMAIN down[c] \cup {n} /\ b[n] = m
          /\ \A k \in DOMAIN down[c] : b[k] = down[c][k]
      BY DEF TypeOK
    <3>2. down'[d] = b /\ RightReply(c, down[c])
      BY <2>2 DEF TypeOK, DownRight
    <3> HIDE DEF b, n
    <3>3. RightReply(c, b)
      BY <3>1, <3>2 DEF RightReply
    <3> QED
      BY <2>2, <3>2, <3>3
  <2> QED
    BY <2>1, <2>2
<1> QED
  BY <1>1 DEF DownRight, RightReply

(* ... in every step.                                                      *)
LEMMA StepDown == IdsInv /\ [Next]_vars => DownRight'
<1> SUFFICES ASSUME IdsInv, [Next]_vars PROVE DownRight'
  OBVIOUS
<1>a. TypeOK /\ DownRight /\ AssignRight
  BY DEF IdsInv
<1>1. ASSUME UNCHANGED down PROVE DownRight'
  BY <1>a, <1>1 DEF DownRight, RightReply
<1>2. ASSUME NEW c \in Conns,
             Connect(c) \/ Ask(c) \/ Finish(c) \/ ForwardBye(c) \/ Crash(c)
      PROVE  DownRight'
  BY <1>1, <1>2 DEF Connect, Ask, Finish, ForwardBye, Crash
<1>3. ASSUME NEW c \in Conns, Receive(c) PROVE DownRight'
  <2>1. down' = [down EXCEPT ![c] = <<>>]
    BY <1>3 DEF Receive
  <2>2. ASSUME NEW d \in Conns PROVE RightReply(d, down'[d])
    BY <1>a, <2>1 DEF TypeOK, DownRight, RightReply
  <2> QED
    BY <2>2 DEF DownRight, RightReply
<1>4. CASE \/ Maintain \/ PendingSilent \/ PendingRequest \/ AssignNext
           \/ AcceptAll \/ NextRound \/ UpdateDone
  BY <1>1, <1>4 DEF Maintain, PendingSilent, PendingRequest, AssignNext, AcceptAll,
                    NextRound, UpdateDone
<1>5. CASE PendingAdopt
  <2> DEFINE c == pending[idx]
             i == FetchedId(up[c])
  <2>1. idx \in 1..Len(pending)
    BY <1>a, <1>5 DEF TypeOK, PendingAdopt
  <2>2. c \in Conns /\ i \in {None, -1, IdOf(c)}
    BY <2>1, PendingFacts
  <2>3. i = IdOf(c) /\ i # None /\ IdOf(c) \in Nat
    BY <1>a, <1>5, <2>2, IdType DEF PendingAdopt
  <2>4. down' = [down EXCEPT ![c] = Append(@, Msg("confirmId", i))]
    BY <1>5 DEF PendingAdopt, SendDown
  <2> HIDE DEF c, i
  <2>5. Msg("confirmId", i) \in Message /\ Msg("confirmId", i).id = i
    BY <2>3 DEF Msg, Message, MsgKinds
  <2>6. Kind[c] # "dynamic" => i = OwnId[c]
    BY <2>3 DEF IdOf
  <2> QED
    BY <1>a, <2>2, <2>3, <2>4, <2>5, <2>6, DownAppended
<1>6. CASE AssignFound
  <2> DEFINE c == pending[idx]
  <2>1. c \in Conns /\ Kind[c] = "dynamic"
    BY <1>a, <1>6 DEF TypeOK, AssignRight, AssignFound
  <2>2. sequence \in Nat \ {0}
    BY <1>a, IdAssumption DEF TypeOK
  <2>3. /\ Msg("assignId", sequence) \in Message
        /\ Msg("assignId", sequence).id # None
    BY <2>2 DEF Msg, Message, MsgKinds, None
  <2>4. down' = [down EXCEPT ![c] = Append(@, Msg("assignId", sequence))]
    BY <1>6 DEF AssignFound, SendDown
  <2> HIDE DEF c
  <2> QED
    BY <1>a, <2>1, <2>3, <2>4, DownAppended
<1>7. ASSUME NEW i \in unread, Route(i) PROVE DownRight'
  BY <1>1, <1>7 DEF Route
<1>8. CASE UNCHANGED vars
  BY <1>1, <1>8 DEF vars
<1> QED
  BY <1>2, <1>3, <1>4, <1>5, <1>6, <1>7, <1>8 DEF Next, RouterNext

(* Every step keeps who is assigned an id and what there is to fetch.      *)
LEMMA StepControl == IdsInv /\ [Next]_vars => AssignRight' /\ UnreadRight'
<1> SUFFICES ASSUME IdsInv, [Next]_vars PROVE AssignRight' /\ UnreadRight'
  OBVIOUS
<1>a. TypeOK /\ AssignRight /\ UnreadRight
  BY DEF IdsInv
<1>1. ASSUME UNCHANGED <<step, idx, pending, unread>> PROVE AssignRight' /\ UnreadRight'
  BY <1>a, <1>1 DEF AssignRight, UnreadRight
<1>2. ASSUME NEW c \in Conns,
             \/ Connect(c) \/ Ask(c) \/ Receive(c)
             \/ Finish(c) \/ ForwardBye(c) \/ Crash(c)
      PROVE  AssignRight' /\ UnreadRight'
  BY <1>1, <1>2 DEF Connect, Ask, Receive, Finish, ForwardBye, Crash, control, tables
<1>3. CASE PendingRequest
  <2>1. idx \in 1..Len(pending)
    BY <1>a, <1>3 DEF TypeOK, PendingRequest
  <2>2. Kind[pending[idx]] = "dynamic"
    BY <1>3, <2>1, PendingFacts DEF PendingRequest
  <2>3. DOMAIN pending = 1..Len(pending)
    BY <1>a DEF TypeOK
  <2>4. UNCHANGED <<idx, pending, unread>> /\ step = "pending" /\ step' = "assign"
    BY <1>3 DEF PendingRequest, tables
  <2> QED
    BY <1>a, <2>1, <2>2, <2>3, <2>4 DEF AssignRight, UnreadRight
<1>4. CASE AssignNext
  BY <1>a, <1>4 DEF AssignRight, UnreadRight, AssignNext, tables
<1>5. CASE AcceptAll
  BY <1>5 DEF AssignRight, UnreadRight, AcceptAll
<1>6. ASSUME NEW i \in unread, Route(i) PROVE AssignRight' /\ UnreadRight'
  BY <1>6 DEF AssignRight, UnreadRight, Route
<1>7. CASE Maintain \/ PendingSilent \/ PendingAdopt \/ AssignFound \/ NextRound \/ UpdateDone
  <2>1. step' # "assign" /\ step' # "route" /\ unread' = {}
    BY <1>a, <1>7 DEF UnreadRight, Maintain, PendingSilent, PendingAdopt, AssignFound,
                      NextRound, UpdateDone
  <2> QED
    BY <2>1 DEF AssignRight, UnreadRight
<1>8. CASE UNCHANGED vars
  BY <1>1, <1>8 DEF vars, tables, control
<1> QED
  BY <1>2, <1>3, <1>4, <1>5, <1>6, <1>7, <1>8 DEF Next, RouterNext

(* Every step keeps the nodes under their ids, and endpoints leaves.       *)
LEMMA StepNodes ==
    IdsInv /\ [Next]_vars => NodeHoldsItsId' /\ EndpointsAreLeaves'
<1> SUFFICES ASSUME IdsInv, [Next]_vars PROVE NodeHoldsItsId' /\ EndpointsAreLeaves'
  OBVIOUS
<1>a. TypeOK /\ NodeHoldsItsId /\ EndpointsAreLeaves
  BY DEF IdsInv
<1>1. ASSUME UNCHANGED ownid,
             \A i \in DOMAIN nodes' : /\ i \in DOMAIN nodes
                                      /\ nodes'[i].conn = nodes[i].conn
                                      /\ nodes'[i].maybeRouter = nodes[i].maybeRouter
      PROVE  NodeHoldsItsId' /\ EndpointsAreLeaves'
  BY <1>a, <1>1 DEF NodeHoldsItsId, EndpointsAreLeaves
<1>2. ASSUME NEW c \in Conns,
             Connect(c) \/ Ask(c) \/ Finish(c) \/ ForwardBye(c) \/ Crash(c)
      PROVE  NodeHoldsItsId' /\ EndpointsAreLeaves'
  BY <1>1, <1>2 DEF Connect, Ask, Finish, ForwardBye, Crash, nodeVars, tables
<1>3. ASSUME NEW c \in Conns, Receive(c) PROVE NodeHoldsItsId' /\ EndpointsAreLeaves'
  <2>1. nodes' = nodes
    BY <1>3 DEF Receive, tables
  <2>2. CASE ownid[c] # None
    BY <1>1, <1>3, <2>1, <2>2 DEF Receive
  <2>3. CASE ownid[c] = None
    <3>1. \A d \in Conns : d # c => ownid'[d] = ownid[d]
      BY <1>a, <1>3, <2>3 DEF Receive, TypeOK
    <3>2. ASSUME NEW i \in DOMAIN nodes
          PROVE  i # None /\ nodes[i].conn \in Conns
      BY <1>a DEF TypeOK, NodeState
    <3>3. ASSUME NEW i \in DOMAIN nodes, Kind[nodes[i].conn] = "dynamic"
          PROVE  nodes[i].conn # c
      BY <1>a, <2>3, <3>2, <3>3 DEF NodeHoldsItsId
    <3> QED
      BY <1>a, <2>1, <3>1, <3>2, <3>3 DEF NodeHoldsItsId, EndpointsAreLeaves
  <2> QED
    BY <2>2, <2>3
<1>4. CASE Maintain
  <2>1. PICK drop : nodes' = [i \in DOMAIN nodes \ drop |-> nodes[i]]
    BY <1>4 DEF Maintain
  <2> QED
    BY <1>1, <1>4, <2>1 DEF Maintain, nodeVars
<1>5. CASE PendingAdopt
  <2> DEFINE c == pending[idx]
             i == FetchedId(up[c])
             new == [conn |-> c, maybeRouter |-> StillGuess(up[c]),
                     doDisconnect |-> i \in DOMAIN nodes /\ nodes[i].doDisconnect]
  <2>1. idx \in 1..Len(pending) /\ i \notin {None, -1} /\ nodes' = Adopt(c, i)
        /\ ownid' = ownid
    BY <1>a, <1>5 DEF TypeOK, PendingAdopt, nodeVars
  <2>2. c \in Conns /\ i = IdOf(c)
    BY <2>1, PendingFacts
  <2>3. PICK k \in DOMAIN up[c] : up[c][k].kind \in Announced
    BY <2>1, PendingFacts
  <2>4. RightBatch(c, IdOf(c), up[c])
    BY <2>2 DEF IdsInv, UpRight
  <2>5. Kind[c] # "router" => ~StillGuess(up[c])
    BY <2>3, <2>4 DEF RightBatch, Announced, StillGuess
  <2>6. nodes' = [n \in DOMAIN nodes \cup {i} |-> IF n # i THEN nodes[n] ELSE new]
    BY <2>1 DEF Adopt
  <2>7. new.conn = c /\ new.maybeRouter = StillGuess(up[c])
    OBVIOUS
  <2> HIDE DEF c, i, new
  <2>8. ASSUME NEW n \in DOMAIN nodes'
        PROVE  \/ n \in DOMAIN nodes /\ nodes'[n] = nodes[n]
               \/ n = i /\ nodes'[n] = new
    BY <2>6
  <2>9. NodeHoldsItsId'
    BY <1>a, <2>1, <2>2, <2>7, <2>8 DEF NodeHoldsItsId, IdOf
  <2>10. EndpointsAreLeaves'
    BY <1>a, <2>5, <2>7, <2>8 DEF EndpointsAreLeaves
  <2> QED
    BY <2>9, <2>10
<1>6. CASE PendingSilent \/ PendingRequest \/ AssignNext \/ AssignFound \/ AcceptAll
           \/ NextRound \/ UpdateDone
  <2>1. UNCHANGED <<ownid, nodes>>
    BY <1>6 DEF PendingSilent, PendingRequest, AssignNext, AssignFound, AcceptAll,
                NextRound, UpdateDone, nodeVars, tables
  <2> QED
    BY <1>1, <2>1
<1>7. ASSUME NEW i \in unread, Route(i) PROVE NodeHoldsItsId' /\ EndpointsAreLeaves'
  <2>1. ownid' = ownid
    BY <1>7 DEF Route, nodeVars
  <2>2. CASE nodes' = nodes
    BY <1>1, <2>1, <2>2
  <2>3. CASE nodes' = [nodes EXCEPT ![i].doDisconnect = @ \/ Marks(i)]
    <3>1. i \in DOMAIN nodes /\ nodes[i] \in NodeState
      BY <1>a DEF TypeOK
    <3>2. nodes'[i].conn = nodes[i].conn /\ nodes'[i].maybeRouter = nodes[i].maybeRouter
      BY <2>3, <3>1 DEF NodeState
    <3>3. DOMAIN nodes' = DOMAIN nodes /\ \A n \in DOMAIN nodes : n # i => nodes'[n] = nodes[n]
      BY <2>3, <3>1
    <3> QED
      BY <1>1, <2>1, <3>2, <3>3
  <2> QED
    BY <1>7, <2>2, <2>3 DEF Route
<1>8. CASE UNCHANGED vars
  BY <1>1, <1>8 DEF vars, nodeVars, tables
<1> QED
  BY <1>2, <1>3, <1>4, <1>5, <1>6, <1>7, <1>8 DEF Next, RouterNext

(* The invariant holds, whatever is requested, assigned, announced, lost   *)
(* or timed out, in whatever order (message_bus/router.inl, endpoint.inl). *)
THEOREM InvCorrect == Spec => []IdsInv
<1>1. IdsInv /\ [Next]_vars => IdsInv'
  BY StepType, StepUp, StepDown, StepControl, StepNodes DEF IdsInv
<1> QED
  BY InitInv, <1>1, PTL DEF Spec

(* All variables keep their types: no node is kept under the invalid id,   *)
(* as whatever _handle_pending adopts was announced with a valid one.      *)
THEOREM TypeCorrect == Spec => []TypeOK
<1>1. IdsInv => TypeOK
  BY DEF IdsInv
<1> QED
  BY InvCorrect, <1>1, PTL

(* The router keeps a connection under the id that the other side has,     *)
(* however often it asked and was assigned ids before it was adopted.      *)
THEOREM HolderCorrect == Spec => []NodeHoldsItsId
<1>1. IdsInv => NodeHoldsItsId
  BY DEF IdsInv
<1> QED
  BY InvCorrect, <1>1, PTL

(* maybe_router, which the pending connections share, is never left set    *)
(* for an endpoint.                                                        *)
THEOREM LeavesCorrect == Spec => []EndpointsAreLeaves
<1>1. IdsInv => EndpointsAreLeaves
  BY DEF IdsInv
<1> QED
  BY InvCorrect, <1>1, PTL
-----------------------------------------------------------------------------
(* Ids are unique as long as the sequence has not wrapped.  Nodes with ids *)
(* of their own have them from below the range, two of them the same only  *)
(* when one is a run after the other.                                      *)
OwnIdsReserved ==
    /\ \A c \in Conns : Kind[c] # "dynamic" => OwnId[c] <= IdBase
    /\ \A c, d \in Conns :
          (c # d /\ Kind[c] # "dynamic" /\ Kind[d] # "dynamic" /\ OwnId[c] = OwnId[d])
             => Replaces[c] = d \/ Replaces[d] = c

(* The ids that a connection has, or will have once it is told.            *)
Told(c) == {down[c][k].id : k \in DOMAIN down[c]} \cup ({ownid[c]} \ {None})

(* What endpoints are told is from the past of the sequence, and never     *)
(* told to two of them.                                                    *)
ToldOnce ==
    \A c \in Conns : Kind[c] = "dynamic" =>
        /\ \A n \in Told(c) : n > IdBase /\ n < sequence
        /\ \A d \in Conns : d # c /\ Kind[d] = "dynamic" => Told(c) \cap Told(d) = {}

OwnIdKept ==
    \A c \in Conns : Kind[c] # "dynamic" => ownid[c] \in {None, OwnId[c]}

RunsInTurn ==
    \A c \in Conns :
        Replaces[c] # c /\ link[c] # "new" => link[Replaces[c]] = "closed"

UniqueInv == ToldOnce /\ OwnIdKept /\ RunsInTurn

(* Ids that are told are natural numbers.                                  *)
LEMMA ToldType ==
    ASSUME TypeOK, NEW c \in Conns PROVE Told(c) \subseteq Nat
<1>1. down[c] \in Seq(Message) /\ ownid[c] \in Nat
  BY DEF TypeOK
<1>2. ASSUME NEW k \in DOMAIN down[c] PROVE down[c][k].id \in Nat
  <2>1. down[c][k] \in Message
    BY <1>1
  <2> QED
    BY <2>1 DEF Message
<1> QED
  BY <1>1, <1>2 DEF Told

(* ToldOnce lasts when nobody is told anything new, ...                    *)
LEMMA ToldLess ==
    ASSUME TypeOK, ToldOnce, sequence' \in Nat, sequence <= sequence',
           \A c \in Conns : Kind[c] = "dynamic" => Told(c)' \subseteq Told(c)
    PROVE  ToldOnce'
<1>1. ASSUME NEW c \in Conns, Kind[c] = "dynamic", NEW n \in Told(c)'
      PROVE  n > IdBase /\ n < sequence'
  <2>1. n \in Told(c) /\ n > IdBase /\ n < sequence
    BY <1>1 DEF ToldOnce
  <2>2. n \in Nat
    BY <2>1, ToldType
  <2>3. sequence \in Nat
    BY DEF TypeOK
  <2> QED
    BY <2>1, <2>2, <2>3
<1>2. ASSUME NEW c \in Conns, Kind[c] = "dynamic",
             NEW d \in Conns, d # c, Kind[d] = "dynamic"
      PROVE  Told(c)' \cap Told(d)' = {}
  <2>1. Told(c) \cap Told(d) = {}
    BY <1>2 DEF ToldOnce
  <2> QED
    BY <1>2, <2>1
<1> QED
  BY <1>1, <1>2 DEF ToldOnce

(* ... and when _assign_id tells one of them the next of the sequence.     *)
LEMMA ToldNext ==
    ASSUME TypeOK, ToldOnce, NEW c \in Conns, sequence' = sequence + 1,
           Told(c)' = Told(c) \cup {sequence},
           \A d \in Conns : d # c => Told(d)' = Told(d)
    PROVE  ToldOnce'
<1>1. sequence \in Nat /\ sequence > IdBase /\ IdBase \in Nat
  BY IdAssumption DEF TypeOK
<1>2. ASSUME NEW d \in Conns, NEW n \in Told(d) PROVE n \in Nat
  BY <1>2, ToldType
<1>3. ASSUME NEW d \in Conns, Kind[d] = "dynamic" PROVE sequence \notin Told(d)
  BY <1>1, <1>3 DEF ToldOnce
<1>4. ASSUME NEW d \in Conns, Kind[d] = "dynamic", NEW n \in Told(d)'
      PROVE  n > IdBase /\ n < sequence'
  <2>1. n \in Told(d) \/ n = sequence
    BY <1>4
  <2>2. n \in Told(d) => n > IdBase /\ n < sequence
    BY <1>4 DEF ToldOnce
  <2> QED
    BY <1>1, <1>2, <2>1, <2>2
<1>5. ASSUME NEW a \in Conns, Kind[a] = "dynamic",
             NEW b \in Conns, b # a, Kind[b] = "dynamic"
      PROVE  Told(a)' \cap Told(b)' = {}
  <2>1. Told(a) \cap Told(b) = {}
    BY <1>5 DEF ToldOnce
  <2>2. sequence \notin Told(a) /\ sequence \notin Told(b)
    BY <1>3, <1>5
  <2> QED
    BY <1>5, <2>1, <2>2
<1> QED
  BY <1>4, <1>5 DEF ToldOnce

(* What a message appended to what a connection is told adds.              *)
LEMMA ToldAppended ==
    ASSUME TypeOK, NEW c \in Conns, NEW m \in Message, ownid' = ownid,
           down' = [down EXCEPT ![c] = Append(@, m)]
    PROVE  /\ Told(c)' = Told(c) \cup {m.id}
           /\ \A d \in Conns : d # c => Told(d)' = Told(d)
<1> DEFINE b == Append(down[c], m)
           n == Len(down[c]) + 1
<1>1. /\ DOMAIN b = DOMAIN down[c] \cup {n} /\ b[n] = m
      /\ \A k \in DOMAIN down[c] : b[k] = down[c][k]
  BY DEF TypeOK
<1>2. down'[c] = b /\ \A d \in Conns : d # c => down'[d] = down[d]
  BY DEF TypeOK
<1> HIDE DEF b, n
<1>3. {b[k].id : k \in DOMAIN b} = {down[c][k].id : k \in DOMAIN down[c]} \cup {m.id}
  BY <1>1
<1> QED
  BY <1>2, <1>3 DEF Told

(* The steps of the nodes that are about ids or runs.                      *)
LEMMA UniqueNodes ==
    ASSUME IdsInv, UniqueInv, NEW c \in Conns,
           \/ Connect(c) \/ Ask(c) \/ Receive(c)
           \/ Finish(c) \/ ForwardBye(c) \/ Crash(c)
    PROVE  UniqueInv'
<1>a. TypeOK /\ ToldOnce /\ OwnIdKept /\ RunsInTurn /\ sequence \in Nat
  BY DEF IdsInv, UniqueInv, TypeOK
<1>b. sequence' = sequence
  BY DEF Connect, Ask, Receive, Finish, ForwardBye, Crash
<1>1. RunsInTurn'
  <2>1. CASE Connect(c)
    <3>1. /\ link[c] = "new" /\ (Replaces[c] # c => link[Replaces[c]] = "closed")
          /\ \A d \in Conns : d # c => link'[d] = link[d]
      BY <1>a, <2>1 DEF TypeOK, Connect
    <3>2. \A d \in Conns : Replaces[d] \in Conns
      BY IdAssumption
    <3> QED
      BY <1>a, <3>1, <3>2 DEF RunsInTurn
  <2>2. CASE Finish(c) \/ Crash(c)
    <3>1. link[c] = "open" /\ link' = [link EXCEPT ![c] = "closed"]
      BY <2>2 DEF Finish, Crash
    <3>2. \A d \in Conns : Replaces[d] \in Conns
      BY IdAssumption
    <3> QED
      BY <1>a, <3>1, <3>2 DEF RunsInTurn, TypeOK
  <2>3. CASE Ask(c) \/ Receive(c) \/ ForwardBye(c)
    <3>1. link' = link
      BY <2>3 DEF Ask, Receive, ForwardBye, nodeVars
    <3> QED
      BY <1>a, <3>1 DEF RunsInTurn
  <2> QED
    BY <2>1, <2>2, <2>3
<1>2. ToldOnce' /\ OwnIdKept'
  <2>1. CASE UNCHANGED <<ownid, down>>
    <3>1. \A d \in Conns : Told(d)' = Told(d)
      BY <2>1 DEF Told
    <3> QED
      BY <1>a, <1>b, <2>1, <3>1, ToldLess DEF OwnIdKept
  <2>2. CASE Receive(c)
    <3> DEFINE n == Head(down[c]).id
    <3>1. n = down[c][1].id /\ 1 \in DOMAIN down[c]
      BY <1>a, <2>2 DEF TypeOK, Receive
    <3> HIDE DEF n
    <3>2. n \in Told(c)
      BY <3>1 DEF Told
    <3>3. Kind[c] # "dynamic" => n = OwnId[c]
      BY <3>1 DEF IdsInv, DownRight, RightReply
    <3>4. ownid'[c] \in {ownid[c], n}
      BY <1>a, <2>2 DEF TypeOK, Receive, n
    <3>5. \A d \in Conns : d # c => ownid'[d] = ownid[d] /\ down'[d] = down[d]
      BY <1>a, <2>2 DEF TypeOK, Receive
    <3>6. down'[c] = <<>>
      BY <1>a, <2>2 DEF TypeOK, Receive
    <3>7. Told(c)' \subseteq Told(c)
      <4>1. Told(c)' = {ownid'[c]} \ {None}
        BY <3>6 DEF Told
      <4> QED
        BY <3>2, <3>4, <4>1 DEF Told
    <3>8. \A d \in Conns : d # c => Told(d)' = Told(d)
      BY <3>5 DEF Told
    <3>9. ToldOnce'
      BY <1>a, <1>b, <3>7, <3>8, ToldLess
    <3>10. OwnIdKept'
      BY <1>a, <3>3, <3>4, <3>5 DEF OwnIdKept
    <3> QED
      BY <3>9, <3>10
  <2> QED
    BY <2>1, <2>2 DEF Connect, Ask, Finish, ForwardBye, Crash, nodeVars
<1> QED
  BY <1>1, <1>2 DEF UniqueInv

(* Every step that does not set the sequence back keeps ids unique.        *)
LEMMA StepUnique ==
    ASSUME IdsInv, UniqueInv, [Next]_vars, [sequence <= sequence']_vars
    PROVE  UniqueInv'
<1>a. TypeOK /\ AssignRight /\ ToldOnce /\ OwnIdKept /\ RunsInTurn /\ sequence \in Nat
  BY DEF IdsInv, UniqueInv, TypeOK
<1>b. sequence <= sequence' /\ sequence' \in Nat
  <2>1. TypeOK'
    BY StepType
  <2> QED
    BY <1>a, <2>1 DEF TypeOK, vars
<1>1. ASSUME UNCHANGED <<link, ownid, down>> PROVE UniqueInv'
  <2>1. \A d \in Conns : Told(d)' = Told(d)
    BY <1>1 DEF Told
  <2>2. ToldOnce'
    BY <1>a, <1>b, <2>1, ToldLess
  <2> QED
    BY <1>a, <1>1, <2>2 DEF UniqueInv, OwnIdKept, RunsInTurn
<1>2. CASE PendingAdopt
  <2>0. PICK c, i, m : /\ c = pending[idx] /\ i = FetchedId(up[c])
                       /\ m = Msg("confirmId", i)
    OBVIOUS
  <2>1. idx \in 1..Len(pending)
    BY <1>a, <1>2 DEF TypeOK, PendingAdopt
  <2>2. c \in Conns /\ i \in {None, -1, IdOf(c)}
    BY <2>0, <2>1, PendingFacts
  <2>3. i = IdOf(c) /\ i # None /\ i \in Nat
    BY <1>a, <1>2, <2>0, <2>2, IdType DEF PendingAdopt
  <2>4. m \in Message /\ m.id = i
    BY <2>0, <2>3 DEF Msg, Message, MsgKinds
  <2>5. down' = [down EXCEPT ![c] = Append(@, m)] /\ ownid' = ownid /\ link' = link
    BY <1>2, <2>0 DEF PendingAdopt, SendDown, nodeVars
  <2>6. Told(c)' = Told(c) \cup {i} /\ \A d \in Conns : d # c => Told(d)' = Told(d)
    BY <1>a, <2>2, <2>4, <2>5, ToldAppended
  <2>7. Kind[c] = "dynamic" => i \in Told(c)
    BY <2>3 DEF IdOf, Told
  <2>8. \A d \in Conns : Kind[d] = "dynamic" => Told(d)' \subseteq Told(d)
    BY <2>6, <2>7
  <2>9. ToldOnce'
    BY <1>a, <1>b, <2>8, ToldLess
  <2> QED
    BY <1>a, <2>5, <2>9 DEF UniqueInv, OwnIdKept, RunsInTurn
<1>3. CASE AssignFound
  <2>0. PICK c, m, n : c = pending[idx] /\ n = sequence /\ m = Msg("assignId", n)
    OBVIOUS
  <2>1. c \in Conns
    BY <1>a, <1>3, <2>0 DEF TypeOK, AssignRight, AssignFound
  <2>2. m \in Message /\ m.id = n
    BY <1>a, <2>0 DEF Msg, Message, MsgKinds
  <2>3. down' = [down EXCEPT ![c] = Append(@, m)] /\ ownid' = ownid /\ link' = link
        /\ sequence' = sequence + 1
    BY <1>3, <2>0 DEF AssignFound, SendDown, nodeVars
  <2>4. Told(c)' = Told(c) \cup {n} /\ \A d \in Conns : d # c => Told(d)' = Told(d)
    BY <1>a, <2>1, <2>2, <2>3, ToldAppended
  <2>5. ToldOnce'
    BY <1>a, <2>0, <2>1, <2>3, <2>4, ToldNext
  <2> QED
    BY <1>a, <2>3, <2>5 DEF UniqueInv, OwnIdKept, RunsInTurn
<1>4. CASE \/ Maintain \/ PendingSilent \/ PendingRequest \/ AssignNext
           \/ AcceptAll \/ NextRound \/ UpdateDone
  BY <1>1, <1>4 DEF Maintain, PendingSilent, PendingRequest, AssignNext, AcceptAll,
                    NextRound, UpdateDone, nodeVars
<1>5. ASSUME NEW i \in unread, Route(i) PROVE UniqueInv'
  BY <1>1, <1>5 DEF Route, nodeVars
<1>6. CASE UNCHANGED vars
  BY <1>1, <1>6 DEF vars, nodeVars
<1> QED
  BY <1>2, <1>3, <1>4, <1>5, <1>6, UniqueNodes DEF Next, RouterNext

(* What is told once makes ids unique.                                     *)
LEMMA UniqueFollows ==
    ASSUME OwnIdsReserved, TypeOK, UniqueInv PROVE IdsUnique
<1> SUFFICES ASSUME NEW c \in Conns, NEW d \in Conns, c # d, link[c] = "open",
                    link[d] = "open", ownid[c] # None, ownid[c] = ownid[d]
             PROVE  FALSE
  BY DEF IdsUnique
<1>1. ownid[c] \in Told(c) /\ ownid[d] \in Told(d)
  BY DEF Told
<1>2. ownid[c] \in Nat /\ IdBase \in Nat
  BY IdAssumption DEF TypeOK
<1>3. CASE Kind[c] = "dynamic" /\ Kind[d] = "dynamic"
  BY <1>1, <1>3 DEF UniqueInv, ToldOnce
<1>4. CASE Kind[c] # "dynamic" /\ Kind[d] # "dynamic"
  <2>1. OwnId[c] = OwnId[d]
    BY <1>4 DEF UniqueInv, OwnIdKept
  <2>2. Replaces[c] = d \/ Replaces[d] = c
    BY <1>4, <2>1 DEF OwnIdsReserved
  <2> QED
    BY <2>2 DEF UniqueInv, RunsInTurn
<1>5. ASSUME NEW a \in {c, d}, NEW b \in {c, d}, Kind[a] = "dynamic", Kind[b] # "dynamic"
      PROVE  FALSE
  <2>1. ownid[a] > IdBase
    BY <1>1, <1>5 DEF UniqueInv, ToldOnce
  <2>2. ownid[b] = OwnId[b] /\ OwnId[b] <= IdBase
    BY <1>5 DEF UniqueInv, OwnIdKept, OwnIdsReserved
  <2> QED
    BY <1>2, <1>5, <2>1, <2>2
<1> QED
  BY <1>3, <1>4, <1>5

(* No two nodes ever hold the same id, for any connections, restarts,      *)
(* repeated requests and losses, in every run in which _assign_id never    *)
(* sets _id_sequence back to the beginning of its range.  (Where it does,  *)
(* an id that was assigned but not announced yet is assigned again.)       *)
THEOREM UniqueUnlessWrapped ==
    ASSUME OwnIdsReserved
    PROVE  Spec /\ [][sequence <= sequence']_vars => []IdsUnique
<1>1. Init => UniqueInv
  <2> SUFFICES ASSUME Init PROVE UniqueInv
    OBVIOUS
  <2>1. \A c \in Conns : Told(c) = {}
    BY DEF Init, Told
  <2> QED
    BY <2>1 DEF Init, UniqueInv, ToldOnce, OwnIdKept, RunsInTurn
<1>2. IdsInv /\ UniqueInv /\ [Next]_vars /\ [sequence <= sequence']_vars => UniqueInv'
  BY StepUnique
<1>3. IdsInv /\ UniqueInv => IdsUnique
  BY UniqueFollows DEF IdsInv
<1> QED
  BY InvCorrect, <1>1, <1>2, <1>3, PTL DEF Spec
-----------------------------------------------------------------------------
(* Nodes are kept.  Only connections that were opened wait or are adopted, *)
(* each in one place; a bye-bye is the last that an endpoint says; and     *)
(* what the maintenance is to drop left, reused the id of a run that did,  *)
(* or is a router that was taken for an endpoint.                          *)
Opened == /\ \A k \in DOMAIN accepted : link[accepted[k]] # "new"
          /\ \A k \in DOMAIN pending : link[pending[k]] # "new"
          /\ \A i \in DOMAIN nodes : link[nodes[i].conn] # "new"

Distinct(s) == \A j, k \in DOMAIN s : s[j] = s[k] => j = k

Apart(s, t) == \A j \in DOMAIN s, k \in DOMAIN t : s[j] # t[k]

InOnePlace ==
    /\ Distinct(accepted) /\ Distinct(pending) /\ Apart(accepted, pending)
    /\ \A i \in DOMAIN nodes : /\ \A k \in DOMAIN accepted : accepted[k] # nodes[i].conn
                               /\ \A k \in DOMAIN pending : pending[k] # nodes[i].conn

ByeClosed == \A c \in Conns :
                 Kind[c] # "router" /\ SaidBye(up[c]) => link[c] = "closed"

(* The nodes that may be dropped.                                          *)
Left(n) == \/ link[n.conn] = "closed"
           \/ Replaces[n.conn] # n.conn
           \/ Kind[n.conn] = "router" /\ ~n.maybeRouter

Marked == \A i \in DOMAIN nodes : nodes[i].doDisconnect => Left(nodes[i])

KeptInv == Opened /\ InOnePlace /\ ByeClosed /\ Marked

(* A connection whose run replaced no other shares its id with none that   *)
(* was opened.                                                             *)
LEMMA SameId ==
    ASSUME OwnIdsReserved, TypeOK, UniqueInv,
           NEW c \in Conns, NEW d \in Conns, link[c] = "open", Replaces[c] = c,
           link[d] # "new", IdOf(c) = IdOf(d), IdOf(c) # None
    PROVE  c = d
<1> SUFFICES ASSUME c # d PROVE FALSE
  OBVIOUS
<1>1. \A e \in Conns : Kind[e] = "dynamic" /\ IdOf(e) # None => IdOf(e) \in Told(e)
  BY DEF Told, IdOf
<1>2. IdOf(c) \in Nat /\ IdBase \in Nat
  BY IdType, IdAssumption
<1>3. CASE Kind[c] = "dynamic" /\ Kind[d] = "dynamic"
  BY <1>1, <1>3 DEF UniqueInv, ToldOnce
<1>4. CASE Kind[c] # "dynamic" /\ Kind[d] # "dynamic"
  <2>1. Replaces[c] = d \/ Replaces[d] = c
    BY <1>4 DEF IdOf, OwnIdsReserved
  <2> QED
    BY <2>1 DEF UniqueInv, RunsInTurn
<1>5. ASSUME NEW a \in {c, d}, NEW b \in {c, d}, Kind[a] = "dynamic", Kind[b] # "dynamic"
      PROVE  FALSE
  <2>1. IdOf(a) > IdBase
    BY <1>1, <1>5 DEF UniqueInv, ToldOnce
  <2>2. IdOf(b) <= IdBase
    BY <1>5 DEF IdOf, OwnIdsReserved
  <2> QED
    BY <1>2, <1>5, <2>1, <2>2
<1> QED
  BY <1>3, <1>4, <1>5

(* A connection is opened once and closed for good.                        *)
LEMMA LinksOnward ==
    ASSUME TypeOK, [Next]_vars, NEW c \in Conns
    PROVE  /\ link[c] # "new" => link'[c] # "new"
           /\ link[c] = "closed" => link'[c] = "closed"
<1>1. ASSUME NEW d \in Conns, Connect(d) \/ Finish(d) \/ Crash(d)
      PROVE  /\ link[c] # "new" => link'[c] # "new"
             /\ link[c] = "closed" => link'[c] = "closed"
  <2>1. CASE Connect(d)
    BY <2>1 DEF TypeOK, Connect
  <2>2. CASE Finish(d) \/ Crash(d)
    BY <2>2 DEF TypeOK, Finish, Crash
  <2> QED
    BY <1>1, <2>1, <2>2
<1>2. ASSUME link' = link
      PROVE  /\ link[c] # "new" => link'[c] # "new"
             /\ link[c] = "closed" => link'[c] = "closed"
  BY <1>2
<1>3. CASE \E d \in Conns : Ask(d) \/ Receive(d) \/ ForwardBye(d)
  BY <1>2, <1>3 DEF Ask, Receive, ForwardBye, nodeVars
<1>4. CASE RouterNext
  BY <1>2, <1>4 DEF RouterNext, Maintain, PendingSilent, PendingRequest, PendingAdopt,
                    AssignNext, AssignFound, AcceptAll, Route, NextRound, UpdateDone, nodeVars
<1>5. CASE UNCHANGED vars
  BY <1>2, <1>5 DEF vars, nodeVars
<1> QED
  BY <1>1, <1>3, <1>4, <1>5 DEF Next

(* What is left of a sequence was in it.                                   *)
LEMMA SubsequenceElements ==
    ASSUME NEW S, NEW s \in Seq(S), NEW t \in Subsequences(s), NEW k \in DOMAIN t
    PROVE  \E j \in DOMAIN s : t[k] = s[j]
<1>1. PICK n \in 0..Len(s) : t \in {[j \in 1..n |-> s[f[j]]] : f \in Increasing(n, Len(s))}
  BY DEF Subsequences
<1>2. PICK f \in Increasing(n, Len(s)) : t = [j \in 1..n |-> s[f[j]]]
  BY <1>1
<1>3. k \in 1..n /\ f[k] \in 1..Len(s)
  BY <1>2 DEF Increasing
<1> QED
  BY <1>2, <1>3

(* A bye-bye is the last that an endpoint says.                            *)
LEMMA StepBye ==
    ASSUME IdsInv, ByeClosed, [Next]_vars
    PROVE  ByeClosed'
<1>a. TypeOK
  BY DEF IdsInv
<1>1. ASSUME NEW c \in Conns, Kind[c] # "router", SaidBye(up'[c]), ~ SaidBye(up[c])
      PROVE  link'[c] = "closed"
  <2>1. up'[c] # up[c]
    BY <1>1
  <2>2. up[c] \in Seq(Message)
    BY <1>a DEF TypeOK
  <2>3. ASSUME NEW m \in Message, up'[c] = Append(up[c], m), m.kind # "byeBye" PROVE FALSE
    <3> DEFINE b == Append(up[c], m)
    <3>1. \A k \in DOMAIN b : (k \in DOMAIN up[c] /\ b[k] = up[c][k]) \/ b[k] = m
      BY <2>2
    <3> HIDE DEF b
    <3> QED
      BY <1>1, <2>3, <3>1 DEF SaidBye, Byes, b
  <2>4. ASSUME NEW d \in Conns, Finish(d) PROVE link'[c] = "closed"
    <3>1. up' = [up EXCEPT ![d] = Append(@, Bye)]
          /\ link' = [link EXCEPT ![d] = "closed"]
      BY <2>4 DEF Finish, SendUp
    <3>2. c = d
      BY <1>a, <2>1, <3>1 DEF TypeOK
    <3> QED
      BY <1>a, <3>1, <3>2 DEF TypeOK
  <2>5. ASSUME NEW d \in Conns, Crash(d) PROVE link'[c] = "closed"
    <3>1. PICK n \in 0..Len(up[d]) : up' = [up EXCEPT ![d] = SubSeq(@, 1, n)]
      BY <2>5 DEF Crash
    <3>2. c = d
      BY <1>a, <2>1, <3>1 DEF TypeOK
    <3> QED
      BY <1>a, <2>5, <3>2 DEF TypeOK, Crash
  <2>6. ASSUME NEW d \in Conns, Ask(d) PROVE link'[c] = "closed"
    <3>1. PICK m \in Message : m.kind # "byeBye" /\ up' = [up EXCEPT ![d] = Append(@, m)]
      <4>1. Msg("requestId", None) \in Message
        BY DEF Msg, Message, MsgKinds, None
      <4>2. Msg("annEndptId", OwnId[d]) \in Message /\ Msg("announceId", OwnId[d]) \in Message
        BY IdAssumption DEF Msg, Message, MsgKinds
      <4>3. \A k \in {"requestId", "annEndptId", "announceId"}, i \in Nat : Msg(k, i).kind # "byeBye"
        BY DEF Msg
      <4>4. None \in Nat /\ OwnId[d] \in Nat
        BY IdAssumption DEF None
      <4> QED
        BY <2>6, <4>1, <4>2, <4>3, <4>4, IdAssumption DEF Ask, SendUp
    <3>2. c = d /\ up'[c] = Append(up[c], m)
      BY <1>a, <2>1, <3>1 DEF TypeOK
    <3> QED
      BY <2>3, <3>1, <3>2
  <2>7. ASSUME NEW d \in Conns, Receive(d) PROVE link'[c] = "closed"
    <3>1. down[d] \in Seq(Message) /\ down[d] # <<>>
      BY <1>a, <2>7 DEF TypeOK, Receive
    <3>2. Head(down[d]).id \in Nat
      <4>1. Head(down[d]) \in Message
        BY <3>1
      <4> QED
        BY <4>1 DEF Message
    <3>3. PICK m : m = Msg("annEndptId", Head(down[d]).id)
      OBVIOUS
    <3>4. m \in Message /\ m.kind # "byeBye"
      BY <3>2, <3>3 DEF Msg, Message, MsgKinds
    <3>5. up' = up \/ up' = [up EXCEPT ![d] = Append(@, m)]
      BY <2>7, <3>3 DEF Receive, SendUp
    <3>6. c = d /\ up'[c] = Append(up[c], m)
      BY <1>a, <2>1, <3>5 DEF TypeOK
    <3> QED
      BY <2>3, <3>4, <3>6
  <2>8. CASE PendingSilent \/ PendingRequest \/ PendingAdopt
    <3>1. PICK d \in Conns : up' = [up EXCEPT ![d] = RefusedAtPending(@)]
      <4>1. pending \in Seq(Conns) /\ idx \in Nat \ {0} /\ idx <= Len(pending)
        BY <1>a, <2>8 DEF TypeOK, PendingSilent, PendingRequest, PendingAdopt
      <4>2. pending[idx] \in Conns
        BY <4>1
      <4> QED
        BY <2>8, <4>2 DEF PendingSilent, PendingRequest, PendingAdopt
    <3>2. up'[c] = RefusedAtPending(up[c])
      BY <1>a, <2>1, <3>1 DEF TypeOK
    <3>3. RefusedAtPending(up[c]) = <<>>
      BY <1>1, <2>2, RefusedFacts DEF SaidBye
    <3> QED
      BY <1>1, <3>2, <3>3 DEF SaidBye, Byes
  <2>9. ASSUME NEW i \in unread, Route(i) PROVE link'[c] = "closed"
    <3>1. PICK d : up' = up \/ up' = [up EXCEPT ![d] = <<>>]
      BY <2>9 DEF Route
    <3>2. up'[c] = <<>>
      BY <1>a, <2>1, <3>1 DEF TypeOK
    <3> QED
      BY <1>1, <3>2 DEF SaidBye, Byes
  <2>10. ~ UNCHANGED up
    BY <2>1
  <2>11. ASSUME NEW d \in Conns, ForwardBye(d) PROVE FALSE
    <3>1. c = d
      BY <1>a, <2>1, <2>11 DEF TypeOK, ForwardBye, SendUp
    <3> QED
      BY <1>1, <2>11, <3>1 DEF ForwardBye
  <2> QED
    BY <2>4, <2>5, <2>6, <2>7, <2>8, <2>9, <2>10, <2>11
       DEF Next, RouterNext, Connect, Maintain, AssignNext, AssignFound, AcceptAll,
           NextRound, UpdateDone, vars
<1> QED
  BY <1>a, <1>1, LinksOnward DEF ByeClosed

(* Only connections that were opened wait or are adopted.                  *)
LEMMA StepOpened ==
    ASSUME IdsInv, Opened, [Next]_vars
    PROVE  Opened'
<1>a. /\ TypeOK /\ accepted \in Seq(Conns) /\ pending \in Seq(Conns)
      /\ \A i \in DOMAIN nodes : nodes[i].conn \in Conns
  BY DEF IdsInv, TypeOK, NodeState
<1> DEFINE Fine(c) == c \in Conns /\ link[c] # "new"
<1>1. /\ \A k \in DOMAIN accepted : Fine(accepted[k])
      /\ \A k \in DOMAIN pending : Fine(pending[k])
      /\ \A i \in DOMAIN nodes : Fine(nodes[i].conn)
  BY <1>a DEF Opened
<1>2. \A c \in Conns : link[c] # "new" => link'[c] # "new"
  BY <1>a, LinksOnward
<1>3. ASSUME /\ \A k \in DOMAIN accepted' : Fine(accepted'[k])
             /\ \A k \in DOMAIN pending' : Fine(pending'[k])
             /\ \A i \in DOMAIN nodes' : Fine(nodes'[i].conn)
      PROVE  Opened'
  BY <1>2, <1>3 DEF Opened
<1>4. ASSUME UNCHANGED tables PROVE Opened'
  BY <1>1, <1>3, <1>4 DEF tables
<1>5. ASSUME NEW c \in Conns, Connect(c) PROVE Opened'
  <2>1. accepted' = Append(accepted, c) /\ UNCHANGED <<pending, nodes>>
    BY <1>5 DEF Connect
  <2>2. \A k \in DOMAIN accepted' : (k \in DOMAIN accepted /\ accepted'[k] = accepted[k])
                                       \/ accepted'[k] = c
    BY <1>a, <2>1
  <2>3. link'[c] # "new"
    BY <1>a, <1>5 DEF TypeOK, Connect
  <2> QED
    BY <1>1, <1>2, <2>1, <2>2, <2>3 DEF Opened
<1>6. CASE Maintain
  <2>1. accepted' = accepted /\ pending' \in Subsequences(pending) \cup {pending}
    BY <1>6 DEF Maintain
  <2>2. \A i \in DOMAIN nodes' : i \in DOMAIN nodes /\ nodes'[i] = nodes[i]
    BY <1>6 DEF Maintain
  <2>3. \A k \in DOMAIN pending' : \E j \in DOMAIN pending : pending'[k] = pending[j]
    BY <1>a, <2>1, SubsequenceElements
  <2> QED
    BY <1>1, <1>3, <2>1, <2>2, <2>3
<1>7. CASE PendingAdopt
  <2>1. idx \in 1..Len(pending)
    BY <1>a, <1>7 DEF TypeOK, PendingAdopt
  <2>2. Fine(pending[idx])
    BY <1>1, <2>1
  <2>3. \A i \in DOMAIN nodes' : nodes'[i].conn = pending[idx]
                                   \/ (i \in DOMAIN nodes /\ nodes'[i] = nodes[i])
    BY <1>7 DEF PendingAdopt, Adopt
  <2>4. \A k \in DOMAIN pending' : \E j \in DOMAIN pending : pending'[k] = pending[j]
    <3> DEFINE a == SubSeq(pending, 1, idx - 1)
               b == SubSeq(pending, idx + 1, Len(pending))
    <3>1. /\ a \in Seq(Conns) /\ Len(a) = idx - 1
          /\ b \in Seq(Conns) /\ Len(b) = Len(pending) - idx
      BY <1>a, <2>1
    <3>2. /\ \A k \in 1..Len(a) : a[k] = pending[k] /\ k \in DOMAIN pending
          /\ \A k \in 1..Len(b) : b[k] = pending[k + idx] /\ k + idx \in DOMAIN pending
      BY <1>a, <2>1
    <3>3. pending' = a \o b
      BY <1>7 DEF PendingAdopt, WithoutAt
    <3> HIDE DEF a, b
    <3>4. \A k \in DOMAIN pending' : \/ k \in 1..Len(a) /\ pending'[k] = a[k]
                                     \/ k - Len(a) \in 1..Len(b) /\ pending'[k] = b[k - Len(a)]
      BY <3>1, <3>3
    <3> QED
      BY <3>2, <3>4
  <2>5. accepted' = accepted
    BY <1>7 DEF PendingAdopt
  <2> QED
    BY <1>1, <1>3, <2>2, <2>3, <2>4, <2>5
<1>8. CASE AcceptAll
  <2>1. accepted' = <<>> /\ pending' = pending \o accepted /\ nodes' = nodes
    BY <1>8 DEF AcceptAll
  <2>2. \A k \in DOMAIN pending' : \/ \E j \in DOMAIN pending : pending'[k] = pending[j]
                                   \/ \E j \in DOMAIN accepted : pending'[k] = accepted[j]
    <3>1. ASSUME NEW k \in DOMAIN pending', k > Len(pending)
          PROVE  k - Len(pending) \in DOMAIN accepted /\ pending'[k] = accepted[k - Len(pending)]
      BY <1>a, <2>1, <3>1
    <3>2. ASSUME NEW k \in DOMAIN pending', ~ (k > Len(pending))
          PROVE  k \in DOMAIN pending /\ pending'[k] = pending[k]
      BY <1>a, <2>1, <3>2
    <3> QED
      BY <3>1, <3>2
  <2> QED
    BY <1>1, <1>3, <2>1, <2>2
<1>9. ASSUME NEW i \in unread, Route(i) PROVE Opened'
  <2>1. DOMAIN nodes' = DOMAIN nodes /\ \A n \in DOMAIN nodes : nodes'[n].conn = nodes[n].conn
    <3>1. i \in DOMAIN nodes
      BY <1>a DEF TypeOK
    <3>2. \/ nodes' = nodes
          \/ nodes' = [nodes EXCEPT ![i].doDisconnect = @ \/ Marks(i)]
      BY <1>9 DEF Route
    <3>3. nodes[i] \in NodeState
      BY <1>a, <3>1 DEF TypeOK
    <3> QED
      BY <3>1, <3>2, <3>3 DEF NodeState
  <2>2. UNCHANGED <<accepted, pending>>
    BY <1>9 DEF Route
  <2> QED
    BY <1>1, <1>3, <2>1, <2>2
<1> QED
  BY <1>4, <1>5, <1>6, <1>7, <1>8, <1>9
     DEF Next, RouterNext, Ask, Receive, Finish, ForwardBye, Crash, PendingSilent,
         PendingRequest, AssignNext, AssignFound, NextRound, UpdateDone, vars

(* What a connection that is adopted announced is its id; and if another   *)
(* is kept under that id, one is a later run of the other.                 *)
LEMMA AdoptFacts ==
    ASSUME OwnIdsReserved, IdsInv, UniqueInv, Opened, InOnePlace, PendingAdopt,
           NEW c, c = pending[idx], NEW i, i = FetchedId(up[c])
    PROVE  /\ c \in Conns /\ link[c] # "new"
           /\ nodes' = Adopt(c, i)
           /\ i \in DOMAIN nodes =>
                 LET e == nodes[i].conn
                 IN  /\ e \in Conns /\ link[e] # "new"
                     /\ ~ (link[e] = "open" /\ Replaces[e] = e)
                     /\ ~ (link[c] = "open" /\ Replaces[c] = c)
<1>a. TypeOK /\ NodeHoldsItsId
  BY DEF IdsInv
<1>1. idx \in 1..Len(pending)
  BY <1>a DEF TypeOK, PendingAdopt
<1>2. c \in Conns /\ link[c] # "new"
  BY <1>a, <1>1 DEF TypeOK, Opened
<1>3. i = IdOf(c) /\ i # None
  BY <1>1, PendingFacts DEF PendingAdopt
<1>4. ASSUME i \in DOMAIN nodes
      PROVE  nodes[i].conn \in Conns /\ link[nodes[i].conn] # "new" /\ IdOf(nodes[i].conn) = i
  BY <1>a, <1>4 DEF TypeOK, NodeState, Opened, NodeHoldsItsId, IdOf
<1>5. nodes' = Adopt(c, i)
  BY DEF PendingAdopt
<1>6. i \in DOMAIN nodes => nodes[i].conn # c
  BY <1>a, <1>1 DEF TypeOK, InOnePlace
<1> QED
  BY <1>a, <1>2, <1>3, <1>4, <1>5, <1>6, SameId

(* Erasing elements keeps those of a sequence distinct; ...                *)
LEMMA SubsequenceDistinct ==
    ASSUME NEW S, NEW s \in Seq(S), NEW t \in Subsequences(s), Distinct(s)
    PROVE  Distinct(t)
<1>1. PICK n \in 0..Len(s) : t \in {[j \in 1..n |-> s[f[j]]] : f \in Increasing(n, Len(s))}
  BY DEF Subsequences
<1>2. PICK f \in Increasing(n, Len(s)) : t = [j \in 1..n |-> s[f[j]]]
  BY <1>1
<1>3. \A k \in 1..n : f[k] \in DOMAIN s /\ f[k] \in Int /\ k \in Int
  BY <1>2 DEF Increasing
<1>4. ASSUME NEW j \in 1..n, NEW k \in 1..n, f[j] = f[k] PROVE j = k
  <2>1. (j < k => f[j] < f[k]) /\ (k < j => f[k] < f[j])
    BY <1>2 DEF Increasing
  <2> QED
    BY <1>3, <1>4, <2>1
<1>5. ASSUME NEW j \in DOMAIN t, NEW k \in DOMAIN t, t[j] = t[k] PROVE j = k
  <2>1. j \in 1..n /\ k \in 1..n /\ s[f[j]] = s[f[k]]
    BY <1>2, <1>5
  <2>2. f[j] = f[k]
    BY <1>3, <2>1 DEF Distinct
  <2> QED
    BY <1>4, <2>1, <2>2
<1> QED
  BY <1>5 DEF Distinct

(* ... so does erasing one of them, which is then not in it.               *)
LEMMA WithoutFacts ==
    ASSUME NEW S, NEW s \in Seq(S), NEW n \in 1..Len(s), Distinct(s)
    PROVE  /\ Distinct(WithoutAt(s, n))
           /\ \A k \in DOMAIN WithoutAt(s, n) :
                 \E j \in DOMAIN s : j # n /\ WithoutAt(s, n)[k] = s[j]
<1> DEFINE t == WithoutAt(s, n)
           a == SubSeq(s, 1, n - 1)
           b == SubSeq(s, n + 1, Len(s))
           At(k) == IF k < n THEN k ELSE k + 1
<1>1. /\ a \in Seq(S) /\ Len(a) = n - 1 /\ \A k \in 1..(n - 1) : a[k] = s[k]
      /\ b \in Seq(S) /\ Len(b) = Len(s) - n /\ \A k \in 1..(Len(s) - n) : b[k] = s[k + n]
  OBVIOUS
<1>2. t = a \o b
  BY DEF WithoutAt
<1>3. n \in Nat /\ Len(s) \in Nat
  OBVIOUS
<1> HIDE DEF t, a, b
<1>4. DOMAIN t = 1..(Len(s) - 1)
  BY <1>1, <1>2, <1>3
<1>5. ASSUME NEW k \in DOMAIN t
      PROVE  k \in Int /\ At(k) \in DOMAIN s /\ At(k) # n /\ t[k] = s[At(k)]
  <2>1. CASE k < n
    BY <1>1, <1>2, <1>3, <1>4, <2>1
  <2>2. CASE ~ (k < n)
    <3>1. k \in (Len(a) + 1)..(Len(a) + Len(b)) /\ k - Len(a) \in 1..Len(b)
      BY <1>1, <1>3, <1>4, <2>2
    <3>2. t[k] = b[k - Len(a)]
      BY <1>1, <1>2, <3>1
    <3>3. b[k - Len(a)] = s[k + 1]
      <4>1. k - Len(a) \in 1..(Len(s) - n) /\ (k - Len(a)) + n = k + 1
        BY <1>1, <1>3, <1>4, <3>1
      <4> QED
        BY <1>1, <4>1
    <3> QED
      BY <1>3, <1>4, <2>2, <3>2, <3>3
  <2> QED
    BY <2>1, <2>2
<1>6. ASSUME NEW j \in DOMAIN t, NEW k \in DOMAIN t, t[j] = t[k] PROVE j = k
  <2>1. At(j) = At(k)
    BY <1>5, <1>6 DEF Distinct
  <2>2. j \in Int /\ k \in Int
    BY <1>5
  <2> QED
    BY <1>3, <2>1, <2>2
<1> QED
  BY <1>5, <1>6 DEF Distinct, t

(* A connection is in one place: it waits in an acceptor, or among the     *)
(* pending, or is a node.                                                  *)
LEMMA StepOnePlace ==
    ASSUME IdsInv, Opened, InOnePlace, [Next]_vars
    PROVE  InOnePlace'
<1>a. /\ TypeOK /\ accepted \in Seq(Conns) /\ pending \in Seq(Conns)
      /\ \A i \in DOMAIN nodes : nodes[i] \in NodeState
  BY DEF IdsInv, TypeOK
<1> DEFINE Away(s) == \A i \in DOMAIN nodes : \A k \in DOMAIN s : s[k] # nodes[i].conn
<1>1. /\ Distinct(accepted) /\ Distinct(pending) /\ Apart(accepted, pending)
      /\ Away(accepted) /\ Away(pending)
  BY DEF InOnePlace
<1>2. ASSUME UNCHANGED <<accepted, pending>>,
             \A i \in DOMAIN nodes' : i \in DOMAIN nodes /\ nodes'[i].conn = nodes[i].conn
      PROVE  InOnePlace'
  BY <1>1, <1>2 DEF InOnePlace, Distinct, Apart
<1>3. ASSUME UNCHANGED tables PROVE InOnePlace'
  BY <1>2, <1>3 DEF tables
<1>4. ASSUME NEW c \in Conns, Connect(c) PROVE InOnePlace'
  <2>1. accepted' = Append(accepted, c) /\ UNCHANGED <<pending, nodes>> /\ link[c] = "new"
    BY <1>4 DEF Connect
  <2>2. /\ \A k \in DOMAIN accepted : accepted[k] # c
        /\ \A k \in DOMAIN pending : pending[k] # c
        /\ \A i \in DOMAIN nodes : nodes[i].conn # c
    BY <2>1 DEF Opened
  <2>3. \A k \in DOMAIN accepted' : \/ k \in DOMAIN accepted /\ accepted'[k] = accepted[k]
                                    \/ k = Len(accepted) + 1 /\ accepted'[k] = c
    BY <1>a, <2>1
  <2>4. Distinct(accepted)'
    BY <1>1, <2>2, <2>3 DEF Distinct
  <2>5. Apart(accepted, pending)'
    BY <1>1, <2>1, <2>2, <2>3 DEF Apart
  <2>6. Distinct(pending)'
    BY <1>1, <2>1 DEF Distinct
  <2>7. \A i \in DOMAIN nodes' : /\ \A k \in DOMAIN accepted' : accepted'[k] # nodes'[i].conn
                                 /\ \A k \in DOMAIN pending' : pending'[k] # nodes'[i].conn
    BY <1>1, <2>1, <2>2, <2>3
  <2> QED
    BY <2>4, <2>5, <2>6, <2>7 DEF InOnePlace
<1>5. CASE Maintain
  <2>1. accepted' = accepted /\ pending' \in Subsequences(pending) \cup {pending}
    BY <1>5 DEF Maintain
  <2>2. \A i \in DOMAIN nodes' : i \in DOMAIN nodes /\ nodes'[i] = nodes[i]
    BY <1>5 DEF Maintain
  <2>3. \A k \in DOMAIN pending' : \E j \in DOMAIN pending : pending'[k] = pending[j]
    BY <1>a, <2>1, SubsequenceElements
  <2>4. Distinct(pending')
    BY <1>a, <1>1, <2>1, SubsequenceDistinct
  <2>5. Apart(accepted', pending')
    BY <1>1, <2>1, <2>3 DEF Apart
  <2>6. \A i \in DOMAIN nodes' : /\ \A k \in DOMAIN accepted' : accepted'[k] # nodes'[i].conn
                                 /\ \A k \in DOMAIN pending' : pending'[k] # nodes'[i].conn
    BY <1>1, <2>1, <2>2, <2>3
  <2> QED
    BY <1>1, <2>1, <2>4, <2>5, <2>6 DEF InOnePlace, Distinct, Apart
<1>6. CASE PendingAdopt
  <2>1. idx \in 1..Len(pending) /\ idx \in DOMAIN pending
    BY <1>a, <1>6 DEF TypeOK, PendingAdopt
  <2>2. accepted' = accepted /\ pending' = WithoutAt(pending, idx)
    BY <1>6 DEF PendingAdopt
  <2>3. Distinct(pending')
    BY <1>a, <1>1, <2>1, <2>2, WithoutFacts
  <2>4. \A k \in DOMAIN pending' : \E j \in DOMAIN pending : j # idx /\ pending'[k] = pending[j]
    BY <1>a, <1>1, <2>1, <2>2, WithoutFacts
  <2>5. \A i \in DOMAIN nodes' : \/ nodes'[i].conn = pending[idx]
                                 \/ i \in DOMAIN nodes /\ nodes'[i] = nodes[i]
    BY <1>6 DEF PendingAdopt, Adopt
  <2>6. Apart(accepted', pending')
    BY <1>1, <2>2, <2>4 DEF Apart
  <2>7. ASSUME NEW i \in DOMAIN nodes', NEW k \in DOMAIN accepted'
        PROVE  accepted'[k] # nodes'[i].conn
    BY <1>1, <2>1, <2>2, <2>5 DEF Apart
  <2>8. ASSUME NEW i \in DOMAIN nodes', NEW k \in DOMAIN pending'
        PROVE  pending'[k] # nodes'[i].conn
    BY <1>1, <2>1, <2>4, <2>5 DEF Distinct
  <2> QED
    BY <1>1, <2>2, <2>3, <2>6, <2>7, <2>8 DEF InOnePlace, Distinct, Apart
<1>7. CASE AcceptAll
  <2>1. accepted' = <<>> /\ pending' = pending \o accepted /\ nodes' = nodes
    BY <1>7 DEF AcceptAll
  <2>2. ASSUME NEW k \in DOMAIN pending'
        PROVE  \/ k \in DOMAIN pending /\ pending'[k] = pending[k]
               \/ /\ k - Len(pending) \in DOMAIN accepted
                  /\ pending'[k] = accepted[k - Len(pending)]
    <3>1. CASE k > Len(pending)
      BY <1>a, <2>1, <3>1
    <3>2. CASE ~ (k > Len(pending))
      BY <1>a, <2>1, <3>2
    <3> QED
      BY <3>1, <3>2
  <2>3. ASSUME NEW j \in DOMAIN pending', NEW k \in DOMAIN pending', pending'[j] = pending'[k]
        PROVE  j = k
    <3>1. j \in Int /\ k \in Int /\ Len(pending) \in Int
      BY <1>a, <2>1
    <3>2. CASE j \in DOMAIN pending /\ k \in DOMAIN pending
               /\ pending'[j] = pending[j] /\ pending'[k] = pending[k]
      BY <1>1, <2>3, <3>2 DEF Distinct
    <3>3. CASE /\ j - Len(pending) \in DOMAIN accepted /\ k - Len(pending) \in DOMAIN accepted
               /\ pending'[j] = accepted[j - Len(pending)]
               /\ pending'[k] = accepted[k - Len(pending)]
      <4>1. j - Len(pending) = k - Len(pending)
        BY <1>1, <2>3, <3>3 DEF Distinct
      <4> QED
        BY <3>1, <4>1
    <3> QED
      BY <1>1, <2>2, <2>3, <3>2, <3>3 DEF Apart
  <2>4. Distinct(pending')
    BY <2>3 DEF Distinct
  <2>5. Distinct(accepted') /\ Apart(accepted', pending')
    BY <2>1 DEF Distinct, Apart
  <2>6. \A i \in DOMAIN nodes' : /\ \A k \in DOMAIN accepted' : accepted'[k] # nodes'[i].conn
                                 /\ \A k \in DOMAIN pending' : pending'[k] # nodes'[i].conn
    BY <1>1, <2>1, <2>2
  <2> QED
    BY <2>4, <2>5, <2>6 DEF InOnePlace, Distinct, Apart
<1>8. ASSUME NEW i \in unread, Route(i) PROVE InOnePlace'
  <2>1. i \in DOMAIN nodes
    BY <1>a DEF TypeOK
  <2>2. UNCHANGED nodes \/ nodes' = [nodes EXCEPT ![i].doDisconnect = @ \/ Marks(i)]
    BY <1>8 DEF Route
  <2>3. DOMAIN nodes' = DOMAIN nodes /\ \A n \in DOMAIN nodes : nodes'[n].conn = nodes[n].conn
    BY <1>a, <2>1, <2>2 DEF NodeState
  <2> QED
    BY <1>2, <1>8, <2>3 DEF Route
<1> QED
  BY <1>3, <1>4, <1>5, <1>6, <1>7, <1>8
     DEF Next, RouterNext, Ask, Receive, Finish, ForwardBye, Crash, PendingSilent,
         PendingRequest, AssignNext, AssignFound, NextRound, UpdateDone, tables, vars

(* What the maintenance is to drop left, reused the id of one that did, or *)
(* is a router that was taken for an endpoint.                             *)
LEMMA StepMarked ==
    ASSUME OwnIdsReserved, IdsInv, UniqueInv, KeptInv, [Next]_vars
    PROVE  Marked'
<1>a. /\ TypeOK /\ Marked /\ Opened /\ InOnePlace /\ ByeClosed
      /\ \A i \in DOMAIN nodes : nodes[i] \in NodeState /\ nodes[i].conn \in Conns
  BY DEF IdsInv, KeptInv, TypeOK, NodeState
<1>1. \A i \in DOMAIN nodes : nodes[i].doDisconnect => Left(nodes[i])
  BY <1>a DEF Marked
<1>2. ASSUME \A i \in DOMAIN nodes' :
                nodes'[i].conn \in Conns /\ (nodes'[i].doDisconnect => Left(nodes'[i]))
      PROVE  Marked'
  <2>1. \A c \in Conns : link[c] = "closed" => link'[c] = "closed"
    BY <1>a, LinksOnward
  <2> QED
    BY <1>2, <2>1 DEF Marked, Left
<1>3. ASSUME UNCHANGED nodes PROVE Marked'
  BY <1>a, <1>1, <1>2, <1>3
<1>4. CASE Maintain
  <2>1. \A i \in DOMAIN nodes' : i \in DOMAIN nodes /\ nodes'[i] = nodes[i]
    BY <1>4 DEF Maintain
  <2> QED
    BY <1>a, <1>1, <1>2, <2>1
<1>5. CASE PendingAdopt
  <2>0. PICK c, i : c = pending[idx] /\ i = FetchedId(up[c])
    OBVIOUS
  <2>1. c \in Conns /\ link[c] # "new" /\ nodes' = Adopt(c, i)
    BY <1>a, <1>5, <2>0, AdoptFacts
  <2>2. \A n \in DOMAIN nodes' : n # i => n \in DOMAIN nodes /\ nodes'[n] = nodes[n]
    BY <2>1 DEF Adopt
  <2>3. i \in DOMAIN nodes' /\ nodes'[i].conn = c
        /\ (nodes'[i].doDisconnect => i \in DOMAIN nodes /\ nodes[i].doDisconnect)
    BY <2>1 DEF Adopt
  <2>4. ASSUME nodes'[i].doDisconnect PROVE Left(nodes'[i])
    <3>1. ~ (link[c] = "open" /\ Replaces[c] = c)
      BY <1>a, <1>5, <2>0, <2>3, <2>4, AdoptFacts
    <3>2. link[c] \in {"open", "closed"}
      BY <1>a, <2>1 DEF TypeOK
    <3> QED
      BY <2>3, <3>1, <3>2 DEF Left
  <2>5. ASSUME NEW n \in DOMAIN nodes'
        PROVE  nodes'[n].conn \in Conns /\ (nodes'[n].doDisconnect => Left(nodes'[n]))
    <3>1. CASE n = i
      BY <2>1, <2>3, <2>4, <3>1
    <3>2. CASE n # i
      BY <1>a, <1>1, <2>2, <3>2
    <3> QED
      BY <3>1, <3>2
  <2> QED
    BY <1>2, <2>5
<1>6. ASSUME NEW i \in unread, Route(i) PROVE Marked'
  <2>1. CASE UNCHANGED nodes
    BY <1>3, <2>1
  <2>2. CASE nodes' = [nodes EXCEPT ![i].doDisconnect = @ \/ Marks(i)]
    <3>1. i \in DOMAIN nodes
      BY <1>a DEF TypeOK
    <3>2. DOMAIN nodes' = DOMAIN nodes /\ \A n \in DOMAIN nodes : n # i => nodes'[n] = nodes[n]
      BY <2>2
    <3>3. /\ nodes'[i].conn = nodes[i].conn /\ nodes'[i].maybeRouter = nodes[i].maybeRouter
          /\ nodes'[i].doDisconnect => nodes[i].doDisconnect \/ Marks(i)
      BY <1>a, <2>2, <3>1 DEF NodeState
    <3>4. Marks(i) => Left(nodes[i])
      BY <1>a, <3>1 DEF ByeClosed, Marks, Left
    <3>5. ASSUME NEW n \in DOMAIN nodes'
          PROVE  nodes'[n].conn \in Conns /\ (nodes'[n].doDisconnect => Left(nodes'[n]))
      <4>1. CASE n = i
        BY <1>a, <1>1, <3>1, <3>3, <3>4, <4>1 DEF Left
      <4>2. CASE n # i
        BY <1>a, <1>1, <3>2, <4>2
      <4> QED
        BY <4>1, <4>2
    <3> QED
      BY <1>2, <3>5
  <2> QED
    BY <1>6, <2>1, <2>2 DEF Route
<1> QED
  BY <1>3, <1>4, <1>5, <1>6
     DEF Next, RouterNext, Connect, Ask, Receive, Finish, ForwardBye, Crash, PendingSilent,
         PendingRequest, AssignNext, AssignFound, AcceptAll, NextRound, UpdateDone,
         tables, vars

(* No step drops a node that has not left, nor gives its entry away.       *)
LEMMA StepKeeps ==
    ASSUME OwnIdsReserved, IdsInv, UniqueInv, KeptInv, [Next]_vars,
           NEW i \in DOMAIN nodes, NEW c, c = nodes[i].conn, ~ Left(nodes[i]),
           link[c] = "open"
    PROVE  i \in DOMAIN nodes' /\ nodes'[i].conn = c
<1>a. /\ TypeOK /\ Marked /\ Opened /\ InOnePlace
      /\ \A n \in DOMAIN nodes : nodes[n] \in NodeState
  BY DEF IdsInv, KeptInv, TypeOK
<1>b. Replaces[c] = c
  BY DEF Left
<1>1. CASE UNCHANGED nodes
  BY <1>1
<1>2. CASE Maintain
  <2>1. i \notin Dropped
    BY <1>a DEF Dropped, Marked
  <2>2. PICK unusable \in SUBSET {n \in DOMAIN nodes : link[nodes[n].conn] = "closed"} :
            nodes' = [n \in DOMAIN nodes \ (Dropped \cup unusable) |-> nodes[n]]
    BY <1>2 DEF Maintain
  <2>3. i \notin unusable
    BY <2>2
  <2> QED
    BY <2>1, <2>2, <2>3
<1>3. CASE PendingAdopt
  <2>0. PICK d, n : d = pending[idx] /\ n = FetchedId(up[d])
    OBVIOUS
  <2>1. nodes' = Adopt(d, n)
    BY <1>a, <1>3, <2>0, AdoptFacts
  <2>2. n # i
    BY <1>a, <1>b, <1>3, <2>0, AdoptFacts
  <2> QED
    BY <2>1, <2>2 DEF Adopt
<1>4. ASSUME NEW n \in unread, Route(n) PROVE i \in DOMAIN nodes' /\ nodes'[i].conn = c
  <2>1. n \in DOMAIN nodes
    BY <1>a DEF TypeOK
  <2>2. \A k \in DOMAIN nodes : k \in DOMAIN nodes' /\ nodes'[k].conn = nodes[k].conn
    BY <1>a, <1>4, <2>1 DEF Route, NodeState
  <2> QED
    BY <2>2
<1> QED
  BY <1>1, <1>2, <1>3, <1>4
     DEF Next, RouterNext, Connect, Ask, Receive, Finish, ForwardBye, Crash, PendingSilent,
         PendingRequest, AssignNext, AssignFound, AcceptAll, NextRound, UpdateDone,
         tables, vars

(* A node that has not left is never dropped by the maintenance, nor has   *)
(* its entry taken by another connection (_adopt assigns by id), whatever  *)
(* bye-byes a router forwards for others; unless it reused the id of an    *)
(* earlier run whose bye-bye it may inherit, or is a router that was taken *)
(* for an endpoint; in every run in which _id_sequence is never set back.  *)
THEOREM KeptUnlessWrapped ==
    ASSUME OwnIdsReserved
    PROVE  Spec /\ [][sequence <= sequence']_vars => NodesKept
<1>1. Init => UniqueInv /\ KeptInv
  <2> SUFFICES ASSUME Init PROVE UniqueInv /\ KeptInv
    OBVIOUS
  <2>1. \A c \in Conns : Told(c) = {} /\ ~ SaidBye(up[c])
    BY DEF Init, Told, SaidBye, Byes
  <2> QED
    BY <2>1 DEF Init, UniqueInv, ToldOnce, OwnIdKept, RunsInTurn, KeptInv, Opened,
                InOnePlace, Distinct, Apart, ByeClosed, Marked
<1>2. IdsInv /\ UniqueInv /\ KeptInv /\ [Next]_vars /\ [sequence <= sequence']_vars
         => UniqueInv' /\ KeptInv'
  BY StepUnique, StepBye, StepOpened, StepOnePlace, StepMarked DEF KeptInv
<1>3. IdsInv /\ UniqueInv /\ KeptInv /\ [Next]_vars
         => [\A i \in DOMAIN nodes :
                LET c == nodes[i].conn
                IN  (/\ link[c] = "open" /\ Replaces[c] = c
                     /\ Kind[c] = "router" => nodes[i].maybeRouter)
                       => i \in DOMAIN nodes' /\ nodes'[i].conn = c]_vars
  <2> SUFFICES ASSUME IdsInv, UniqueInv, KeptInv, [Next]_vars, NEW i \in DOMAIN nodes,
                      NEW c, c = nodes[i].conn, link[c] = "open", Replaces[c] = c,
                      Kind[c] = "router" => nodes[i].maybeRouter
               PROVE  i \in DOMAIN nodes' /\ nodes'[i].conn = c
    BY Zenon
  <2>1. ~ Left(nodes[i])
    BY DEF Left
  <2> QED
    BY <2>1, StepKeeps
<1> QED
  BY InvCorrect, <1>1, <1>2, <1>3, PTL DEF Spec, NodesKept
=============================================================================
