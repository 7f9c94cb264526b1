---------------------------- MODULE BlobTransfer ----------------------------
(***************************************************************************)
(* The transfer of blobs, which are larger than a message, in fragments    *)
(* (message_bus/blobs.inl).  A sender keeps for each outgoing blob the     *)
(* parts that it has yet to send; a receiver keeps for each incoming blob  *)
(* the parts that it has, and asks for what follows the first of them to   *)
(* be sent again.  The bus between them may lose and reorder messages, and *)
(* deliver one twice.                                                      *)
(*                                                                         *)
(* Blobs are numbered as _blob_id_sequence does, in the order of posting,  *)
(* and have the same size; a part is a pair of its begin and end offsets.  *)
(* Of the contents of a blob a receiver stores the model only notes which  *)
(* blob each byte came from.                                               *)
(*                                                                         *)
(* Definitions named Dev_X are deviations of the definition X that follows *)
(* them, made as a plausible mistake in the code would make them.          *)
(***************************************************************************)
EXTENDS Selection, SequencesExt, Bags

CONSTANTS BlobCount,    \* the sender posts the blobs 1..BlobCount
          Kind,         \* per blob: its message type and target_blob_id
          Size,         \* total_size
          Frag,         \* how much of a blob fits in a message
          Receivers,    \* the targets of the blobs, which are broadcast
          Expecting,    \* those that call expect_incoming
          MaxFragments, \* bound: fragments under way
          MaxRequests,  \* bound: resend requests under way
          MaxLost,      \* bound: lost messages
          MaxDoubled    \* bound: messages that are delivered twice

Blobs == 1..BlobCount
Kinds == {Kind[b] : b \in Blobs}
Offsets == 0..(Size - 1)
Parts == {p \in (0..Size) \X (0..Size) : p[1] < p[2]}

ASSUME BlobAssumption ==
    /\ BlobCount \in Nat /\ DOMAIN Kind = Blobs
    /\ Size \in Nat \ {0} /\ Frag \in Nat \ {0}
    /\ Expecting \subseteq Receivers
    /\ MaxFragments \in Nat /\ MaxRequests \in Nat
    /\ MaxLost \in Nat /\ MaxDoubled \in Nat

VARIABLES
    outgoing,  \* per blob: "new", "pending" or "expired"
    todo,      \* per blob: todo_parts of the outgoing blob
    incoming,  \* per receiver: _incoming
    expected,  \* per receiver: the kinds it has called expect_incoming for
    fetched,   \* per receiver: the blobs given to the fetch handler
    cancelled, \* per receiver: the ids of incoming blobs that were cancelled
    net,       \* the bag of messages under way
    lost,      \* how many messages were lost
    doubled    \* (history) the messages that were delivered twice

blobVars == <<outgoing, todo, incoming, expected, fetched, cancelled, net, lost,
              doubled>>

Fragment == [kind : {"fragment"}, node : Receivers, blob : Blobs, part : Parts]
Resend == [kind : {"resend"}, node : Receivers, blob : Blobs, part : Parts]

InNet(k) ==
    BagCardinality([m \in {n \in BagToSet(net) : n.kind = k} |-> net[m]])

BlobInit == /\ outgoing = [b \in Blobs |-> "new"]
            /\ todo = [b \in Blobs |-> <<>>]
            /\ incoming = [r \in Receivers |-> <<>>]
            /\ expected = [r \in Receivers |-> {}]
            /\ fetched = [r \in Receivers |-> <<>>]
            /\ cancelled = [r \in Receivers |-> {}]
            /\ net = EmptyBag
            /\ lost = 0
            /\ doubled = {}
-----------------------------------------------------------------------------
(* merge_fragment and merge_resend_request go over the sorted parts src    *)
(* and add the part from bgn to end, joining those that touch; stored is   *)
(* the set of the offsets that merge_fragment writes, as the parts that it *)
(* has already are only compared.                                          *)
Merged(dst, placed, stored) == [dst |-> dst, placed |-> placed, stored |-> stored]

Stretch(dst, end) == [dst EXCEPT ![Len(dst)][2] = end]

MergeBefore(acc, p, bgn, end) ==      \* bgn is before the part p
    IF end < p[1]
    THEN IF acc.placed THEN [acc EXCEPT !.dst = Append(@, p)]
         ELSE Merged(Append(Append(acc.dst, <<bgn, end>>), p), TRUE, bgn..(end - 1))
    ELSE IF end <= p[2]
    THEN IF acc.placed
         THEN Merged(Stretch(acc.dst, p[2]), TRUE, acc.stored)
         ELSE Merged(Append(acc.dst, <<bgn, p[2]>>), TRUE, bgn..(p[1] - 1))
    ELSE IF acc.placed THEN acc
         ELSE Merged(Append(acc.dst, <<bgn, end>>), TRUE,
                     (bgn..(p[1] - 1)) \cup (p[2]..(end - 1)))

MergeInside(acc, p, bgn, end) ==      \* bgn is in the part p or at its end
    IF end <= p[2] THEN Merged(Append(acc.dst, p), TRUE, acc.stored)
    ELSE Merged(Append(acc.dst, <<p[1], end>>), TRUE, acc.stored \cup (p[2]..(end - 1)))

Dev_MergeStep(acc, p, bgn, end) ==
    IF bgn < p[1] THEN MergeBefore(acc, p, bgn, end)
    ELSE IF bgn < p[2] THEN MergeInside(acc, p, bgn, end)
    ELSE [acc EXCEPT !.dst = Append(@, p)]
MergeStep(acc, p, bgn, end) ==
    IF bgn < p[1] THEN MergeBefore(acc, p, bgn, end)
    ELSE IF bgn <= p[2] THEN MergeInside(acc, p, bgn, end)
    ELSE [acc EXCEPT !.dst = Append(@, p)]

Merge(src, bgn, end) ==
    LET acc[k \in 0..Len(src)] ==
            IF k = 0 THEN Merged(<<>>, FALSE, {})
            ELSE MergeStep(acc[k - 1], src[k], bgn, end)
        all == acc[Len(src)]
    IN  IF all.placed THEN all
        ELSE Merged(Append(all.dst, <<bgn, end>>), TRUE, bgn..(end - 1))
-----------------------------------------------------------------------------
(* The sender.                                                             *)

(* push_outgoing; the blobs get their ids in this order.                   *)
Post(b) == /\ outgoing[b] = "new"
           /\ \A c \in 1..(b - 1) : outgoing[c] # "new"
           /\ outgoing' = [outgoing EXCEPT ![b] = "pending"]
           /\ todo' = [todo EXCEPT ![b] = <<<<0, Size>>>>]
           /\ UNCHANGED <<incoming, expected, fetched, cancelled, net, lost, doubled>>

SentEverything(b) == IF todo[b] = <<>> THEN TRUE ELSE todo[b][1][1] >= Size

(* The next fragment is the begin of the last part, read from the blob     *)
(* without regard to where that part ends.                                 *)
NextPart(b) == LET bgn == Last(todo[b])[1]
               IN  <<bgn, IF bgn + Frag <= Size THEN bgn + Frag ELSE Size>>

TodoAfter(b) == LET end == Last(todo[b])[2]
                    bgn == NextPart(b)[2]
                IN  IF bgn >= end THEN Front(todo[b])
                    ELSE Append(Front(todo[b]), <<bgn, end>>)

(* process_outgoing sends one fragment of each blob, to all its targets.   *)
ProcessOutgoing ==
    LET busy == {b \in Blobs : ~SentEverything(b)}
    IN  /\ busy # {}
        /\ InNet("fragment") + Cardinality(busy \X Receivers) <= MaxFragments
        /\ todo' = [b \in Blobs |-> IF b \in busy THEN TodoAfter(b) ELSE todo[b]]
        /\ net' = net (+) SetToBag({[kind |-> "fragment", node |-> r, blob |-> b,
                                     part |-> NextPart(b)] :
                                       r \in Receivers, b \in busy})
        /\ UNCHANGED <<outgoing, incoming, expected, fetched, cancelled, lost, doubled>>

Dev_ProcessResend(m) == /\ m.kind = "resend"
                        /\ net' = net (-) SetToBag({m})
                        /\ UNCHANGED <<outgoing, todo, incoming, expected, fetched,
                                       cancelled, lost, doubled>>
ProcessResend(m) ==
    /\ m.kind = "resend"
    /\ net' = net (-) SetToBag({m})
    /\ todo' = IF outgoing[m.blob] = "pending"
               THEN [todo EXCEPT ![m.blob] = Merge(@, m.part[1], m.part[2]).dst]
               ELSE todo
    /\ UNCHANGED <<outgoing, incoming, expected, fetched, cancelled, lost, doubled>>

(* update() drops an outgoing blob when its max_time is over, whether it   *)
(* was sent or not.                                                        *)
ExpireOutgoing(b) == /\ outgoing[b] = "pending"
                     /\ outgoing' = [outgoing EXCEPT ![b] = "expired"]
                     /\ todo' = [todo EXCEPT ![b] = <<>>]
                     /\ UNCHANGED <<incoming, expected, fetched, cancelled, net, lost, doubled>>
-----------------------------------------------------------------------------
(* The receivers.  The id and total of a pending blob are 0 until its      *)
(* first fragment comes, if it was expected.                               *)
Pending(k, b, total, parts, data) ==
    [kind |-> k, id |-> b, total |-> total, parts |-> parts, data |-> data]

Nothing == [o \in Offsets |-> 0]

Expect(r, k) ==
    /\ r \in Expecting
    /\ k \notin expected[r]
    /\ expected' = [expected EXCEPT ![r] = @ \cup {k}]
    /\ incoming' = [incoming EXCEPT ![r] = Append(@, Pending(k, 0, 0, <<>>, Nothing))]
    /\ UNCHANGED <<outgoing, todo, fetched, cancelled, net, lost, doubled>>

Dev_ReceivedEverything(p) == p.parts # <<>> /\ Last(p.parts)[2] >= p.total
ReceivedEverything(p) ==
    /\ p.total # 0
    /\ \/ p.parts = <<>>
       \/ Len(p.parts) = 1 /\ p.parts[1][1] = 0 /\ p.parts[1][2] >= p.total

(* fetch_all and handle_complete: complete blobs go to their handlers.     *)
Complete(s) == Only(s, {i \in DOMAIN s : ReceivedEverything(s[i])})
Incomplete(s) == Only(s, {i \in DOMAIN s : ~ReceivedEverything(s[i])})

(* push_incoming_fragment merges a fragment into the incoming blob with    *)
(* its id, else into one of its kind, which takes over the id, ...         *)
WithFragment(p, b, part) ==
    LET m == Merge(p.parts, part[1], part[2])
    IN  Pending(p.kind, b, Size, m.dst,
                [o \in Offsets |-> IF o \in m.stored THEN b ELSE p.data[o]])

(* ... or else into a new one.                                             *)
Target(s, b) ==
    LET byId == {i \in DOMAIN s : s[i].id = b}
    IN  IF byId # {} THEN FirstOf(byId)
        ELSE FirstOf({i \in DOMAIN s : s[i].kind = Kind[b]})

AfterFragment(s, b, part) ==
    LET i == Target(s, b)
    IN  IF i # 0 THEN [s EXCEPT ![i] = WithFragment(@, b, part)]
        ELSE Append(s, WithFragment(Pending(Kind[b], b, Size, <<>>, Nothing), b, part))

(* process_incoming.  An endpoint then calls fetch_all at once, a resource *)
(* client calls handle_complete when it is updated.                        *)
ProcessIncoming(m) ==
    /\ m.kind = "fragment"
    /\ net' = net (-) SetToBag({m})
    /\ \E now \in {AfterFragment(incoming[m.node], m.blob, m.part)} :
          \/ /\ incoming' = [incoming EXCEPT ![m.node] = Incomplete(now)]
             /\ fetched' = [fetched EXCEPT ![m.node] = @ \o Complete(now)]
          \/ /\ m.node \in Expecting
             /\ incoming' = [incoming EXCEPT ![m.node] = now]
             /\ UNCHANGED fetched
    /\ UNCHANGED <<outgoing, todo, expected, cancelled, lost, doubled>>

HandleComplete(r) ==
    /\ Complete(incoming[r]) # <<>>
    /\ fetched' = [fetched EXCEPT ![r] = @ \o Complete(incoming[r])]
    /\ incoming' = [incoming EXCEPT ![r] = Incomplete(@)]
    /\ UNCHANGED <<outgoing, todo, expected, cancelled, net, lost, doubled>>

(* What update() asks the sender for: from the end of the first part to    *)
(* the end of the blob, if there is no other part; else the request has    *)
(* the same offset twice and asks for nothing.                             *)
Dev_ResendPart(p) == <<p.parts[1][1], p.total>>
ResendPart(p) == <<p.parts[1][2], IF Len(p.parts) > 1 THEN p.parts[1][2] ELSE p.total>>

Asks(p) == p.parts # <<>> /\ ResendPart(p)[1] < ResendPart(p)[2]

(* update() asks for all incoming blobs of which something came, or was    *)
(* asked for, during the last two seconds, ...                             *)
RequestResend(r) ==
    \E recent \in SUBSET {i \in DOMAIN incoming[r] : Asks(incoming[r][i])} :
       /\ recent # {}
       /\ InNet("resend") + Cardinality(recent) <= MaxRequests
       /\ net' = net (+) SetToBag({[kind |-> "resend", node |-> r,
                                    blob |-> incoming[r][i].id,
                                    part |-> ResendPart(incoming[r][i])] : i \in recent})
       /\ UNCHANGED <<outgoing, todo, incoming, expected, fetched, cancelled, lost, doubled>>

(* ... and cancels one of which nothing came before its max_time was over. *)
(* cancel_incoming does the same when the sender has not the blob.         *)
Cancel(r, i) ==
    /\ i \in DOMAIN incoming[r]
    /\ cancelled' = [cancelled EXCEPT ![r] = @ \cup {incoming[r][i].id}]
    /\ incoming' = [incoming EXCEPT ![r] = Only(@, DOMAIN @ \ {i})]
    /\ UNCHANGED <<outgoing, todo, expected, fetched, net, lost, doubled>>

(* The bus.  A message is lost when a connection closes or when it is too  *)
(* old or made too many hops, ...                                          *)
Lose(m) == /\ lost < MaxLost
           /\ lost' = lost + 1
           /\ net' = net (-) SetToBag({m})
           /\ UNCHANGED <<outgoing, todo, incoming, expected, fetched, cancelled, doubled>>

(* ... and comes twice when routers flood it and it has more than one way  *)
(* to its target, or when the block that it is in was sent but its         *)
(* connection broke before, so that it is sent again on the next one.      *)
Duplicate(m) ==
    /\ m \notin doubled /\ Cardinality(doubled) < MaxDoubled
    /\ doubled' = doubled \cup {m}
    /\ net' = net (+) SetToBag({m})
    /\ UNCHANGED <<outgoing, todo, incoming, expected, fetched, cancelled, lost>>

BlobNext == \/ \E b \in Blobs : Post(b) \/ ExpireOutgoing(b)
            \/ ProcessOutgoing
            \/ \E m \in BagToSet(net) : \/ ProcessResend(m) \/ ProcessIncoming(m)
                                         \/ Lose(m) \/ Duplicate(m)
            \/ \E r \in Receivers : \/ \E k \in Kinds : Expect(r, k)
                                    \/ HandleComplete(r)
                                    \/ RequestResend(r)
                                    \/ \E i \in DOMAIN incoming[r] : Cancel(r, i)

BlobSpec == BlobInit /\ [][BlobNext]_blobVars

(* All nodes call their update() all the time, less than two seconds       *)
(* apart, and what the bus does not lose arrives.  No blob has to be       *)
(* posted, and no time limit has to be reached.                            *)
BlobFairness == /\ WF_blobVars(ProcessOutgoing)
                /\ \A m \in Fragment : WF_blobVars(m \in BagToSet(net) /\ ProcessIncoming(m))
                /\ \A m \in Resend : WF_blobVars(m \in BagToSet(net) /\ ProcessResend(m))
                /\ \A r \in Receivers :
                      WF_blobVars(HandleComplete(r)) /\ WF_blobVars(RequestResend(r))

BlobFairSpec == BlobSpec /\ BlobFairness
-----------------------------------------------------------------------------
PendingBlob == [kind : Kinds, id : 0..BlobCount, total : {0, Size},
                parts : Seq(Parts), data : [Offsets -> 0..BlobCount]]

(* All variables have their types: no part is empty or exceeds its blob,   *)
(* in the lists of both sides as well as in the messages.                  *)
BlobTypeOK == /\ outgoing \in [Blobs -> {"new", "pending", "expired"}]
              /\ todo \in [Blobs -> Seq(Parts)]
              /\ incoming \in [Receivers -> Seq(PendingBlob)]
              /\ expected \in [Receivers -> SUBSET Kinds]
              /\ fetched \in [Receivers -> Seq(PendingBlob)]
              /\ cancelled \in [Receivers -> SUBSET (0..BlobCount)]
              /\ IsABag(net) /\ BagToSet(net) \subseteq Fragment \cup Resend
              /\ lost \in 0..MaxLost
              /\ doubled \subseteq Fragment \cup Resend

(* The done parts of an incoming blob are sorted, do not touch each other  *)
(* and cover exactly what was stored, whatever the order in which its      *)
(* fragments come and however often.                                       *)
PartsExact ==
    \A r \in Receivers : \A i \in DOMAIN incoming[r] :
        LET p == incoming[r][i]
        IN  /\ \A k \in 1..(Len(p.parts) - 1) : p.parts[k][2] < p.parts[k + 1][1]
            /\ {o \in Offsets : p.data[o] # 0} =
                   UNION {p.parts[k][1]..(p.parts[k][2] - 1) : k \in DOMAIN p.parts}

(* The lists of blobs are typed, and have exactly the parts that came.     *)
BlobInv == BlobTypeOK /\ PartsExact

(* A blob that the receiver gets is one that was posted, from its first to *)
(* its last byte.                                                          *)
FetchedIntact ==
    \A r \in Receivers : \A i \in DOMAIN fetched[r] :
        \A o \in Offsets : fetched[r][i].data[o] = fetched[r][i].id

(* The blobs whose first fragment was delivered to a receiver twice.       *)
BegunTwice(r) == {m.blob : m \in {d \in doubled : d.node = r /\ d.part[1] = 0}}

(* A receiver gets a blob once, although fragments that were sent again or *)
(* delivered twice arrive when it has fetched the blob already, and begin  *)
(* a new one: that has no first fragment, which nobody asks for again.  It *)
(* takes a second delivery of just that one to get the blob once more.     *)
FetchedOnce ==
    \A r \in Receivers : \A i, j \in DOMAIN fetched[r] :
        fetched[r][i].id = fetched[r][j].id =>
            i = j \/ fetched[r][i].id \in BegunTwice(r)

(* A receiver gets all that is posted while neither side's time limit is   *)
(* over, also when the bus loses the end of it; only if it lost what came  *)
(* before a part that arrived, or all of it, the blob remains incomplete.  *)
Incompletable(r, b) ==
    /\ lost > 0
    /\ \A i \in DOMAIN incoming[r] :
          incoming[r][i].id = b => ~Asks(incoming[r][i])
    /\ \A m \in BagToSet(net) : m.blob # b

EventuallyFetched ==
    \A r \in Receivers : \A b \in Blobs :
        (outgoing[b] = "pending")
            ~> (\/ outgoing[b] = "expired" \/ b \in cancelled[r]
                \/ \E i \in DOMAIN fetched[r] : fetched[r][i].id = b
                \/ []Incompletable(r, b))
=============================================================================
