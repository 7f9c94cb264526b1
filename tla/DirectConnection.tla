-------------------------- MODULE DirectConnection --------------------------
(***************************************************************************)
(* The in-process connection of the message bus (message_bus/direct.hpp):  *)
(* a client thread (usually an endpoint) and a server thread (the router)  *)
(* share a direct_connection_state.  Each direction has a double buffer:   *)
(* send() pushes into the back buffer under the mutex, fetch_messages()    *)
(* swaps the buffers under the mutex and then runs the handler over the    *)
(* front buffer without holding it.  Messages the handler refuses stay in  *)
(* that buffer, which becomes the back buffer at the next swap.            *)
(*                                                                         *)
(* Definitions named Dev_X are not part of the model: each is a deviation  *)
(* of the definition X that follows it, made as a plausible mistake in the *)
(* code would make it, with which one of the properties must fail.         *)
(*                                                                         *)
(* One action is what a thread does between two points where the other     *)
(* thread can see or change shared state: the critical sections of the     *)
(* mutex and the accesses to the atomic _client_connected.                 *)
(***************************************************************************)
EXTENDS Naturals, Sequences

CONSTANTS MayKeep,      \* TRUE if the server's handler may refuse a message
          MaxSent       \* bound of the model: messages per direction

ASSUME DirectAssumption == MayKeep \in BOOLEAN /\ MaxSent \in Nat

Dirs == {"c2s", "s2c"}  \* _client_to_server and _server_to_client

VARIABLES
    client,    \* "connecting": in the address, flag not set; "live"; "gone"
    server,    \* the server connection still holds the shared _state
    usable,    \* direct_server_connection::_is_usable
    phase,     \* per direction, what its receiver does:
               \*   "idle", "handling" the front buffer, "flag": fetch_all done
    sending,   \* the server passed the flag test of send_to_client
    back,      \* per direction, the back buffer
    front,     \* per direction, the kept part of the front buffer
    todo,      \* per direction, the part of the front buffer not yet handled
    sent,      \* per direction, how many messages send() accepted
    handled,   \* per direction, the messages the handler took, in order
    swapped    \* per direction, the value of sent at the last swap (history)

vars == <<client, server, usable, phase, sending, back, front, todo,
          sent, handled, swapped>>

connVars == <<client, server, usable>>

(* _client_connected is set by the constructor of the client connection    *)
(* and cleared by its destructor.                                          *)
clientConnected == client = "live"

(* A pending server connection becomes a node of the router, and so is     *)
(* checked by is_usable(), only after a message of the client was handled. *)
Dev_adopted == TRUE
adopted == handled["c2s"] # <<>>

(* All variables have their types, and no buffer holds, nor did a handler  *)
(* see, a message that was not sent in its direction.                      *)
TypeOK == /\ client \in {"connecting", "live", "gone"}
          /\ server \in BOOLEAN
          /\ usable \in BOOLEAN
          /\ phase \in [Dirs -> {"idle", "handling", "flag"}]
          /\ sending \in BOOLEAN
          /\ sent \in [Dirs -> Nat]
          /\ swapped \in [Dirs -> Nat]
          /\ back \in [Dirs -> Seq(Nat)] /\ front \in [Dirs -> Seq(Nat)]
          /\ todo \in [Dirs -> Seq(Nat)] /\ handled \in [Dirs -> Seq(Nat)]
          /\ \A d \in Dirs : /\ back[d] \in Seq(1..sent[d])
                            /\ front[d] \in Seq(1..sent[d])
                            /\ todo[d] \in Seq(1..sent[d])
                            /\ handled[d] \in Seq(1..sent[d])

Init == /\ client = "connecting"
        /\ server = TRUE
        /\ usable = TRUE
        /\ phase = [d \in Dirs |-> "idle"]
        /\ sending = FALSE
        /\ back = [d \in Dirs |-> <<>>]
        /\ front = [d \in Dirs |-> <<>>]
        /\ todo = [d \in Dirs |-> <<>>]
        /\ sent = [d \in Dirs |-> 0]
        /\ handled = [d \in Dirs |-> <<>>]
        /\ swapped = [d \in Dirs |-> 0]
-----------------------------------------------------------------------------
(* The critical section of both send functions.                            *)
Push(d) == /\ sent[d] < MaxSent
           /\ sent' = [sent EXCEPT ![d] = @ + 1]
           /\ back' = [back EXCEPT ![d] = Append(@, sent[d] + 1)]

(* The critical section of both fetch functions.                           *)
Dev_Swap(d) == /\ phase[d] = "idle"
               /\ phase' = [phase EXCEPT ![d] = "handling"]
               /\ todo' = [todo EXCEPT ![d] = back[d]]
               /\ swapped' = [swapped EXCEPT ![d] = sent[d]]
               /\ UNCHANGED <<back, front>>
Swap(d) == /\ phase[d] = "idle"
           /\ phase' = [phase EXCEPT ![d] = "handling"]
           /\ todo' = [todo EXCEPT ![d] = back[d]]
           /\ back' = [back EXCEPT ![d] = front[d]]
           /\ front' = [front EXCEPT ![d] = <<>>]
           /\ swapped' = [swapped EXCEPT ![d] = sent[d]]

(* message_storage::fetch_all: the handler takes the next message ...      *)
Dev_Accept(d) == /\ phase[d] = "handling"
                 /\ todo[d] # <<>>
                 /\ handled' = [handled EXCEPT ![d] = Append(@, Head(todo[d]))]
                 /\ todo' = [todo EXCEPT ![d] = <<>>]
                 /\ UNCHANGED <<connVars, phase, sending, back, front, sent, swapped>>
Accept(d) == /\ phase[d] = "handling"
             /\ todo[d] # <<>>
             /\ handled' = [handled EXCEPT ![d] = Append(@, Head(todo[d]))]
             /\ todo' = [todo EXCEPT ![d] = Tail(@)]
             /\ UNCHANGED <<connVars, phase, sending, back, front, sent, swapped>>

(* ... or refuses it, and it stays in the buffer.  Only the handlers of    *)
(* the router refuse messages; endpoint::_store_message always takes them. *)
Keep == /\ MayKeep
        /\ phase["c2s"] = "handling"
        /\ todo["c2s"] # <<>>
        /\ front' = [front EXCEPT !["c2s"] = Append(@, Head(todo["c2s"]))]
        /\ todo' = [todo EXCEPT !["c2s"] = Tail(@)]
        /\ UNCHANGED <<connVars, phase, sending, back, sent, handled, swapped>>

ClientConnect == /\ client = "connecting"
                 /\ client' = "live"
                 /\ UNCHANGED <<server, usable, phase, sending, back, front,
                                todo, sent, handled, swapped>>

ClientSend == /\ client = "live"
              /\ Push("c2s")
              /\ UNCHANGED <<connVars, phase, sending, front, todo, handled, swapped>>

ClientSwap == /\ client = "live"
              /\ Swap("s2c")
              /\ UNCHANGED <<connVars, sending, sent, handled>>

ClientFetched == /\ phase["s2c"] = "handling"
                 /\ todo["s2c"] = <<>>
                 /\ phase' = [phase EXCEPT !["s2c"] = "idle"]
                 /\ UNCHANGED <<connVars, sending, back, front, todo, sent,
                                handled, swapped>>

ClientDisconnect == /\ client = "live"
                    /\ phase["s2c"] = "idle"
                    /\ client' = "gone"
                    /\ UNCHANGED <<server, usable, phase, sending, back, front,
                                   todo, sent, handled, swapped>>

ServerTestFlag == /\ server
                  /\ ~sending
                  /\ sent["s2c"] < MaxSent
                  /\ clientConnected
                  /\ sending' = TRUE
                  /\ UNCHANGED <<connVars, phase, back, front, todo, sent,
                                 handled, swapped>>

ServerSend == /\ sending
              /\ sending' = FALSE
              /\ Push("s2c")
              /\ UNCHANGED <<connVars, phase, front, todo, handled, swapped>>

ServerSwap == /\ server
              /\ ~sending
              /\ Swap("c2s")
              /\ UNCHANGED <<connVars, sending, sent, handled>>

ServerFetched == /\ ~sending
                 /\ phase["c2s"] = "handling"
                 /\ todo["c2s"] = <<>>
                 /\ phase' = [phase EXCEPT !["c2s"] = "flag"]
                 /\ UNCHANGED <<connVars, sending, back, front, todo, sent,
                                handled, swapped>>

Dev_ServerReadFlag == /\ phase["c2s"] = "flag"
                      /\ phase' = [phase EXCEPT !["c2s"] = "idle"]
                      /\ UNCHANGED <<connVars, sending, back, front, todo,
                                     sent, handled, swapped>>
ServerReadFlag == /\ phase["c2s"] = "flag"
                  /\ phase' = [phase EXCEPT !["c2s"] = "idle"]
                  /\ usable' = clientConnected
                  /\ UNCHANGED <<client, server, sending, back, front, todo,
                                 sent, handled, swapped>>

(* is_usable() called by the maintenance of the router.                    *)
Dev_ServerGiveUp == /\ server /\ adopted /\ ~usable
                    /\ server' = FALSE
                    /\ UNCHANGED <<client, usable, phase, sending, back, front,
                                   todo, sent, handled, swapped>>
ServerGiveUp == /\ server
                /\ adopted
                /\ ~sending
                /\ phase["c2s"] = "idle"
                /\ ~usable
                /\ server' = FALSE
                /\ UNCHANGED <<client, usable, phase, sending, back, front,
                               todo, sent, handled, swapped>>

(* router::_remove_disconnected drops the connection of a node that said    *)
(* bye-bye, _remove_timeouted one that never got an id; the client is not  *)
(* told.                                                                   *)
ServerDrop == /\ server
              /\ ~sending
              /\ phase["c2s"] = "idle"
              /\ server' = FALSE
              /\ UNCHANGED <<client, usable, phase, sending, back, front, todo,
                             sent, handled, swapped>>

Next == \/ ClientConnect
        \/ ClientSend
        \/ ClientSwap
        \/ \E d \in Dirs : Accept(d)
        \/ ClientFetched
        \/ ClientDisconnect
        \/ ServerTestFlag
        \/ ServerSend
        \/ ServerSwap
        \/ Keep
        \/ ServerFetched
        \/ ServerReadFlag
        \/ ServerGiveUp
        \/ ServerDrop

Spec == Init /\ [][Next]_vars

(* Both threads call fetch_messages() again and again (endpoint::update,   *)
(* router::update) and finish what they started.  Every router::update     *)
(* begins with its maintenance, between two fetches, so a connection that  *)
(* is unusable whenever the maintenance looks is given up: strong fairness *)
(* because each fetch disables the action for a while.  Nobody is obliged  *)
(* to send, to disconnect or to drop a connection.                         *)
Fairness == /\ WF_vars(ClientConnect)
            /\ WF_vars(ClientSwap)
            /\ \A d \in Dirs : WF_vars(Accept(d))
            /\ WF_vars(ClientFetched)
            /\ WF_vars(ServerSend)
            /\ WF_vars(ServerSwap)
            /\ WF_vars(ServerFetched)
            /\ WF_vars(ServerReadFlag)
            /\ SF_vars(ServerGiveUp)

FairSpec == Spec /\ Fairness
-----------------------------------------------------------------------------
(* The set of the elements of a sequence.                                  *)
SeqRange(s) == {s[i] : i \in 1..Len(s)}

(* The messages of a direction that wait in one of its buffers.            *)
Waiting(d) == SeqRange(todo[d]) \cup SeqRange(front[d]) \cup SeqRange(back[d])

C2S == INSTANCE MessageChannel
         WITH Ordered <- ~MayKeep, sent <- sent["c2s"],
              transit <- Waiting("c2s"), handled <- handled["c2s"]

S2C == INSTANCE MessageChannel
         WITH Ordered <- TRUE, sent <- sent["s2c"],
              transit <- Waiting("s2c"), handled <- handled["s2c"]

(* Each half, with its unlocked pass over the front buffer and its two     *)
(* buffers changing roles, is a channel that loses and duplicates nothing. *)
(* That to the server is ordered if its handler refuses nothing, that to   *)
(* the client in any case.                                                 *)
EachDirectionIsChannel == C2S!Spec /\ S2C!Spec

(* A message can be lost with the server side of the connection only if    *)
(* the client sent it after the last time the server swapped the buffers   *)
(* (the bye-bye sent right before the destructor of the client connection  *)
(* clears the flag), or if the handler refused it.                         *)
OnlyLateMessagesLost ==
    ~server => \A m \in 1..swapped["c2s"] :
                  \/ m \in SeqRange(handled["c2s"])
                  \/ MayKeep /\ m \in SeqRange(front["c2s"]) \cup SeqRange(back["c2s"])

(* An adopted server connection looks unusable to the router only if its   *)
(* client is really gone, although the flag is false while the client      *)
(* connects and every fetch overwrites _is_usable.                         *)
UnusableMeansGone ==
    (adopted /\ phase["c2s"] = "idle" /\ ~usable) => client = "gone"

(* What one side sends is offered to the handler of the other side, which  *)
(* takes it or refuses it, unless one of the sides goes away.              *)
EventuallyHandled ==
    \A d \in Dirs : \A m \in 1..MaxSent :
        (sent[d] >= m) ~> (\/ m \in SeqRange(handled[d]) \cup SeqRange(front[d])
                          \/ client = "gone"
                          \/ ~server)

(* A router that adopted the connection notices that the client is gone.   *)
DisconnectNoticed == (client = "gone" /\ adopted) ~> ~server
=============================================================================
