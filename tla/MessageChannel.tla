--------------------------- MODULE MessageChannel ---------------------------
(***************************************************************************)
(* What one direction of a message bus connection promises: a message that *)
(* send() accepted stays on the way until it is handed to the handler of   *)
(* the other side, which happens at most once and, if Ordered, in the      *)
(* order of sending.  Messages are numbered in the order of the accepted   *)
(* calls of send().                                                        *)
(***************************************************************************)
EXTENDS Naturals, Sequences

CONSTANT Ordered        \* TRUE if the handler sees messages in sending order

VARIABLES sent,         \* how many messages send() accepted
          transit,      \* the set of the messages on the way
          handled       \* the handled messages, in the order of handling

chanVars == <<sent, transit, handled>>

Init == /\ sent = 0
        /\ transit = {}
        /\ handled = <<>>

Send == /\ sent' = sent + 1
        /\ transit' = transit \cup {sent + 1}
        /\ UNCHANGED handled

Deliver == \E m \in transit :
             /\ Ordered => \A n \in transit : m <= n
             /\ transit' = transit \ {m}
             /\ handled' = Append(handled, m)
             /\ UNCHANGED sent

Next == Send \/ Deliver

Spec == Init /\ [][Next]_chanVars
=============================================================================
