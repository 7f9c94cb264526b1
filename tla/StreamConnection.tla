-------------------------- MODULE StreamConnection --------------------------
(***************************************************************************)
(* One direction of a network connection: the stream sockets of            *)
(* message_bus/asio.hpp over the storages of message_bus/message.hpp.      *)
(* Messages that send() accepted are packed into blocks of a fixed size,   *)
(* and removed when a block is written; the other side takes the messages  *)
(* from the blocks that it reads.  When the connection breaks, the         *)
(* connector connects again, and sends again the block that it was writing.*)
(*                                                                         *)
(* A message is its number, in the order of sending, and its serialized    *)
(* size.  Each connection that the acceptor accepted has its own inbox.    *)
(* Steps named Dev_X are plausible mistakes in X, not part of the model.   *)
(***************************************************************************)
EXTENDS Selection

CONSTANTS BlockSize,   \* _block_size
          SizeLength,  \* what store_data_with_size puts before a message
          MaxBits,     \* 64: the bits of message_pack_info
          Sizes,       \* the sizes of serialized messages
          MaxSent,     \* bound: messages that are sent
          MaxBreaks    \* bound: how often the connection breaks

ASSUME StreamAssumption ==
    /\ BlockSize \in Nat /\ SizeLength \in Nat \ {0} /\ MaxBits \in Nat \ {0}
    /\ Sizes \subseteq Nat \ {0}
    /\ MaxSent \in Nat /\ MaxBreaks \in Nat

Messages == [no : 1..MaxSent, size : Sizes]
Connections == 0..MaxBreaks

VARIABLES
    accepted,   \* how many messages send() accepted
    outbox,     \* _serialized of the outgoing messages
    connected,  \* the socket is open
    sending,    \* the bits of the block that is written, {} if none is
    wire,       \* the blocks between the sockets, the one being written too
    breaks,     \* how often the connection broke: the number of this one
    inbox,      \* per connection: what was read and not fetched
    received,   \* the messages that the handler took
    retried,    \* messages that were being written when a connection broke
    refused     \* history, per connection: what the handler refused to take

vars == <<accepted, outbox, connected, sending, wire, breaks, inbox, received,
          retried, refused>>

Init == /\ accepted = 0
        /\ outbox = <<>>
        /\ connected = FALSE
        /\ sending = {}
        /\ wire = <<>>
        /\ breaks = 0
        /\ inbox = [c \in Connections |-> <<>>]
        /\ received = <<>>
        /\ retried = {}
        /\ refused = [c \in Connections |-> {}]

(* A message that was read up to the end of its header, but not to the end *)
(* of its content, is taken for one with less content.                     *)
CutShort(m) == [m EXCEPT !.size = 0]
Numbers(ms) == {ms[i].no : i \in DOMAIN ms}
-----------------------------------------------------------------------------
(* Sending.                                                                *)

(* enqueue: a message is serialized into a buffer of the size of a block.  *)
Send(s) == /\ accepted < MaxSent
           /\ s <= BlockSize
           /\ accepted' = accepted + 1
           /\ outbox' = Append(outbox, [no |-> accepted + 1, size |-> s])
           /\ UNCHANGED <<connected, sending, wire, breaks, inbox, received,
                          retried, refused>>

(* pack_into: how much of a block the first messages take.  A message that *)
(* does not fit into the rest is left for a later block, those behind it   *)
(* are tried, as long as there are bits.                                   *)
Used(q) ==
    LET used[i \in 0..Len(q)] ==
            IF i = 0 THEN 0
            ELSE used[i - 1] +
                 IF i <= MaxBits /\ used[i - 1] + SizeLength + q[i].size <= BlockSize
                 THEN SizeLength + q[i].size
                 ELSE 0
    IN  used

Dev_Packed(q) == {i \in DOMAIN q : \A j \in 1..i : Used(q)[j] # Used(q)[j - 1]}
Packed(q) == {i \in DOMAIN q : Used(q)[i] # Used(q)[i - 1]}

(* The messages at these places.                                           *)
Block(q, bits) == Only(q, bits)

(* cleanup of the bits of the block, while messages may have come behind.  *)
Dev_Cleanup(q, bits) == SubSeq(q, Cardinality(bits) + 1, Len(q))
Cleanup(q, bits) == Only(q, DOMAIN q \ bits)

(* do_start_send                                                           *)
WriteBlock(q) == /\ sending' = Packed(q)
                 /\ wire' = IF Packed(q) = {} THEN wire
                            ELSE Append(wire, Block(q, Packed(q)))

StartSend == /\ connected
             /\ sending = {}
             /\ Packed(outbox) # {}
             /\ WriteBlock(outbox)
             /\ UNCHANGED <<accepted, outbox, connected, breaks, inbox, received,
                            retried, refused>>

(* handle_sent: the block is written, which the other side may have read.  *)
HandleSent == /\ connected
              /\ sending # {}
              /\ outbox' = Cleanup(outbox, sending)
              /\ WriteBlock(outbox')
              /\ UNCHANGED <<accepted, connected, breaks, inbox, received, retried, refused>>
-----------------------------------------------------------------------------
(* Receiving.                                                              *)

(* handle_received                                                         *)
Dev_Receive == /\ connected
               /\ wire # <<>>
               /\ inbox' = [inbox EXCEPT ![breaks] = Head(wire) \o @]
               /\ wire' = Tail(wire)
               /\ UNCHANGED <<accepted, outbox, connected, sending, breaks, received,
                              retried, refused>>
Receive == /\ connected
           /\ wire # <<>>
           /\ inbox' = [inbox EXCEPT ![breaks] = @ \o Head(wire)]
           /\ wire' = Tail(wire)
           /\ UNCHANGED <<accepted, outbox, connected, sending, breaks, received,
                          retried, refused>>

(* fetch_messages, again after every block that it unpacks, calls the      *)
(* handler with all the messages in order.  The handler takes a message or *)
(* refuses it, and those that are refused stay where they are, while those *)
(* behind them are handled.  In the model one message is taken at a time:  *)
(* all those before it are refused.                                        *)
Refused(c, n) == refused' = [refused EXCEPT ![c] =
                                @ \cup {inbox[c][i].no : i \in 1..n}]

(* fetch_all erases what was taken and keeps the rest.                     *)
Dev_Without(q, i) == SubSeq(q, i + 1, Len(q))
Without(q, i) == Only(q, DOMAIN q \ {i})

Fetch(c) == \E i \in DOMAIN inbox[c] :
               /\ Refused(c, i - 1)
               /\ received' = Append(received, inbox[c][i])
               /\ inbox' = [inbox EXCEPT ![c] = Without(@, i)]
               /\ UNCHANGED <<accepted, outbox, connected, sending, wire, breaks,
                              retried>>

Refuse(c) == /\ \E n \in 1..Len(inbox[c]) : Refused(c, n)
             /\ UNCHANGED <<accepted, outbox, connected, sending, wire, breaks, inbox,
                            received, retried>>
-----------------------------------------------------------------------------
(* Breaking and connecting again.                                          *)

(* What the reader gets before the error, after the blocks that it has     *)
(* received whole: a part of the next, from which it takes whole messages  *)
(* and, as the size before a message is clamped to what there is, one that *)
(* may be cut short.                                                       *)
ArrivalsOf(b) ==
    {SubSeq(b, 1, n) : n \in 0..Len(b)} \cup
    {Append(SubSeq(b, 1, n - 1), CutShort(b[n])) : n \in 1..Len(b)}

Arrivals == IF wire = <<>> THEN {<<>>} ELSE ArrivalsOf(Head(wire))

(* Both sockets are closed.  The messages of the block that was being      *)
(* written stay, to be sent again.                                         *)
Break == /\ connected
         /\ breaks < MaxBreaks
         /\ connected' = FALSE
         /\ breaks' = breaks + 1
         /\ sending' = {}
         /\ retried' = retried \cup {outbox[i].no : i \in sending}
         /\ \E arrived \in Arrivals :
               inbox' = [inbox EXCEPT ![breaks] = @ \o arrived]
         /\ wire' = <<>>
         /\ UNCHANGED <<accepted, outbox, received, refused>>

(* The acceptor's side drops a connection that is not usable, and with it  *)
(* what was not fetched.                                                   *)
Drop(c) == /\ c < breaks
           /\ inbox[c] # <<>>
           /\ inbox' = [inbox EXCEPT ![c] = <<>>]
           /\ UNCHANGED <<accepted, outbox, connected, sending, wire, breaks,
                          received, retried, refused>>

(* update of the connector, and process_accepted of the acceptor.          *)
Connect == /\ ~connected
           /\ connected' = TRUE
           /\ UNCHANGED <<accepted, outbox, sending, wire, breaks, inbox, received,
                          retried, refused>>

Next == \/ \E s \in Sizes : Send(s)
        \/ StartSend
        \/ HandleSent
        \/ Receive
        \/ \E c \in Connections : Fetch(c) \/ Refuse(c) \/ Drop(c)
        \/ Break
        \/ Connect

Spec == Init /\ [][Next]_vars

(* The handler is called with what it was not called with before.          *)
Offer(c) == /\ ~ Numbers(inbox[c]) \subseteq refused[c]
            /\ Fetch(c) \/ Refuse(c)

(* Both sides go on updating, so that what can be sent, written and read   *)
(* is, and is given to the handler, who may refuse it for ever; and a      *)
(* connection that breaks finitely often is made again.                    *)
Fairness == /\ WF_vars(StartSend)
            /\ WF_vars(HandleSent)
            /\ WF_vars(Receive)
            /\ \A c \in Connections : WF_vars(Offer(c))
            /\ WF_vars(Connect)

FairSpec == Spec /\ Fairness
-----------------------------------------------------------------------------
Increasing(q) == \A i, j \in DOMAIN q : i < j => q[i].no < q[j].no

(* The state has its type: messages wait in the order of sending, a block  *)
(* is written only on an open connection, and is made of messages that are *)
(* in the outbox and have a bit.                                           *)
TypeOK == /\ accepted \in 0..MaxSent
          /\ outbox \in Seq(Messages)
          /\ Increasing(outbox)
          /\ Numbers(outbox) \subseteq 1..accepted
          /\ connected \in BOOLEAN
          /\ sending \subseteq DOMAIN outbox \cap 1..MaxBits
          /\ sending # {} => connected
          /\ wire \in Seq(Seq(Messages))
          /\ wire # <<>> => connected
          /\ breaks \in 0..MaxBreaks
          /\ inbox \in [Connections -> Seq([no : 1..MaxSent, size : Sizes \cup {0}])]
          /\ received \in Seq([no : 1..MaxSent, size : Sizes \cup {0}])
          /\ retried \subseteq 1..accepted
          /\ refused \in [Connections -> SUBSET (1..MaxSent)]

(* On a connection that does not break, a message is overtaken only by one *)
(* that is smaller, or if its handler refused it: the messages are handled *)
(* in the order of sending but for those that pack_into leaves for a later *)
(* block, for want of room, and those that fetch_messages keeps.           *)
OvertakenOnlyBySmaller ==
    breaks = 0 =>
        \A i, j \in DOMAIN received :
            i < j /\ received[j].no < received[i].no =>
                \/ received[i].size < received[j].size
                \/ received[j].no \in refused[0]

(* The outgoing messages are typed, and handled in an order that packing   *)
(* and refusing can explain.                                               *)
StreamInv == TypeOK /\ OvertakenOnlyBySmaller

(* A message is handled twice only if a connection broke while its block   *)
(* was being written: cleanup removes the messages of the block and no     *)
(* others, though more of them came meanwhile.                             *)
DuplicatesOnlyRetried ==
    \A i, j \in DOMAIN received :
        i # j /\ received[i].no = received[j].no => received[i].no \in retried

(* As long as the connection does not break it is a channel that loses and *)
(* repeats nothing, what is in it being what waits in the outbox, on the   *)
(* wire and in the inbox.                                                  *)
Underway == Numbers(outbox) \cup Numbers(inbox[0])
               \cup UNION {Numbers(wire[i]) : i \in DOMAIN wire}

C == INSTANCE MessageChannel WITH
        Ordered <- FALSE,
        sent <- accepted,
        transit <- Underway \ Numbers(received),
        handled <- [i \in DOMAIN received |-> received[i].no]

ChannelUntilBreak == C!Init /\ [][breaks' = 0 => C!Next]_(C!chanVars)

(* A message that fits into a block and waits in the outbox is given to    *)
(* the handler, whole, unless the connection breaks; or unless all the     *)
(* bits are taken by messages that fit into no block, which enqueue        *)
(* accepted although their size has to be stored with them.                *)
Fits(m) == SizeLength + m.size <= BlockSize
Stuck == Cardinality({i \in DOMAIN outbox : ~Fits(outbox[i])}) >= MaxBits

EventuallyReceived ==
    \A n \in 1..MaxSent, b \in Connections :
        (breaks = b /\ \E i \in DOMAIN outbox : outbox[i].no = n /\ Fits(outbox[i]))
            ~> \/ \E i \in DOMAIN received : received[i].no = n /\ received[i].size # 0
               \/ n \in refused[b]
               \/ breaks # b
               \/ Stuck
=============================================================================
