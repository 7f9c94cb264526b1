----------------------- MODULE DirectConnection_proofs -----------------------
(***************************************************************************)
(* Proofs about DirectConnection, for any bound of the model.              *)
(***************************************************************************)
EXTENDS DirectConnection, SequenceTheorems, TLAPS

(* The sequence s counts on from k.                                        *)
Counts(s, k) == \A i \in 1..Len(s) : s[i] = k + i

(* A sequence over 1..m is one over 1..n for larger n.                     *)
LEMMA WiderRange ==
    ASSUME NEW m \in Nat, NEW n \in Nat, m <= n, NEW s \in Seq(1..m)
    PROVE  s \in Seq(1..n)
<1>1. 1..m \subseteq 1..n
  OBVIOUS
<1> QED
  BY <1>1, SeqMonotonic

(* Appending what comes next continues the count.                          *)
LEMMA CountsAppend ==
    ASSUME NEW s \in Seq(Nat), NEW k \in Nat, Counts(s, k)
    PROVE  Counts(Append(s, k + Len(s) + 1), k)
  BY AppendProperties DEF Counts

(* The head is the next number, and the tail continues after it.           *)
LEMMA CountsTail ==
    ASSUME NEW s \in Seq(Nat), NEW k \in Nat, Counts(s, k), s # <<>>
    PROVE  /\ Head(s) = k + 1
           /\ Counts(Tail(s), k + 1)
           /\ Len(Tail(s)) = Len(s) - 1
           /\ Len(s) > 0
  BY HeadTailProperties DEF Counts
-----------------------------------------------------------------------------
(* The contents of all buffers stay within what was sent, when a direction *)
(* gets a message more (Push) ...                                          *)
LEMMA PushType ==
    ASSUME TypeOK, NEW d \in Dirs, Push(d),
           UNCHANGED <<connVars, phase, front, todo, handled, swapped>>,
           sending' \in BOOLEAN
    PROVE  TypeOK'
<1>1. sent' \in [Dirs -> Nat] /\ \A e \in Dirs : sent[e] \in Nat /\ sent[e] <= sent'[e]
  BY DEF TypeOK, Push
<1>2. back' \in [Dirs -> Seq(Nat)]
  <2>1. Append(back[d], sent[d] + 1) \in Seq(Nat)
    BY AppendProperties DEF TypeOK
  <2> QED  BY <2>1 DEF TypeOK, Push
<1>3. ASSUME NEW e \in Dirs
      PROVE  back'[e] \in Seq(1..sent'[e])
  <2>1. back[e] \in Seq(1..sent'[e])
    BY <1>1, WiderRange DEF TypeOK
  <2>2. CASE e = d
    <3>1. sent[d] + 1 \in 1..sent'[d]
      BY <1>1 DEF TypeOK, Push
    <3>2. back'[d] = Append(back[d], sent[d] + 1)
      BY DEF TypeOK, Push
    <3> QED  BY <2>1, <2>2, <3>1, <3>2, AppendProperties
  <2>3. CASE e # d
    BY <2>1, <2>3 DEF TypeOK, Push
  <2> QED  BY <2>2, <2>3
<1>4. ASSUME NEW e \in Dirs
      PROVE  /\ front'[e] \in Seq(1..sent'[e])
             /\ todo'[e] \in Seq(1..sent'[e])
             /\ handled'[e] \in Seq(1..sent'[e])
  BY <1>1, WiderRange DEF TypeOK
<1> QED  BY <1>1, <1>2, <1>3, <1>4 DEF TypeOK, connVars

(* ... when its buffers are swapped ...                                    *)
LEMMA SwapType ==
    ASSUME TypeOK, NEW d \in Dirs, Swap(d),
           UNCHANGED <<connVars, sending, sent, handled>>
    PROVE  TypeOK'
<1>1. <<>> \in Seq(Nat) /\ \A e \in Dirs : <<>> \in Seq(1..sent[e])
  BY EmptySeq
<1> QED  BY <1>1 DEF TypeOK, Swap, connVars

(* ... and when the handler takes a message.                               *)
LEMMA AcceptType ==
    ASSUME TypeOK, NEW d \in Dirs, Accept(d)
    PROVE  TypeOK'
<1>1. /\ Head(todo[d]) \in 1..sent[d] /\ Head(todo[d]) \in Nat
      /\ Tail(todo[d]) \in Seq(Nat) /\ Tail(todo[d]) \in Seq(1..sent[d])
  BY HeadTailProperties DEF TypeOK, Accept
<1>2. /\ Append(handled[d], Head(todo[d])) \in Seq(Nat)
      /\ Append(handled[d], Head(todo[d])) \in Seq(1..sent[d])
  BY <1>1, AppendProperties DEF TypeOK
<1> QED  BY <1>1, <1>2 DEF TypeOK, Accept, connVars

(* The same when the handler refuses a message.                            *)
LEMMA KeepType ==
    ASSUME TypeOK, Keep
    PROVE  TypeOK'
<1> DEFINE d == "c2s"
<1>0. d \in Dirs
  BY DEF Dirs
<1>1. /\ Head(todo[d]) \in 1..sent[d] /\ Head(todo[d]) \in Nat
      /\ Tail(todo[d]) \in Seq(Nat) /\ Tail(todo[d]) \in Seq(1..sent[d])
  BY <1>0, HeadTailProperties DEF TypeOK, Keep
<1>2. /\ Append(front[d], Head(todo[d])) \in Seq(Nat)
      /\ Append(front[d], Head(todo[d])) \in Seq(1..sent[d])
  BY <1>0, <1>1, AppendProperties DEF TypeOK
<1> QED  BY <1>0, <1>1, <1>2 DEF TypeOK, Keep, connVars

(* The type invariant holds initially ...                                  *)
LEMMA InitType == Init => TypeOK
<1> SUFFICES ASSUME Init PROVE TypeOK
  OBVIOUS
<1>1. <<>> \in Seq(Nat)
  BY EmptySeq
<1>2. <<>> \in Seq(1..0)
  BY EmptySeq
<1> QED
  BY <1>1, <1>2 DEF Init, TypeOK

(* ... and every step preserves it.                                        *)
LEMMA NextType == TypeOK /\ [Next]_vars => TypeOK'
<1> SUFFICES ASSUME TypeOK, [Next]_vars PROVE TypeOK'
  OBVIOUS
<1>0. "c2s" \in Dirs /\ "s2c" \in Dirs
  BY DEF Dirs
<1>1. CASE ClientConnect
  BY <1>1 DEF TypeOK, ClientConnect
<1>2. CASE ClientSend
  BY <1>0, <1>2, PushType DEF ClientSend, TypeOK
<1>3. CASE ClientSwap
  BY <1>0, <1>3, SwapType DEF ClientSwap
<1>4. ASSUME NEW d \in Dirs, Accept(d) PROVE TypeOK'
  BY <1>4, AcceptType
<1>5. CASE ClientFetched
  BY <1>5 DEF TypeOK, ClientFetched, connVars
<1>6. CASE ClientDisconnect
  BY <1>6 DEF TypeOK, ClientDisconnect
<1>7. CASE ServerTestFlag
  BY <1>7 DEF TypeOK, ServerTestFlag, connVars
<1>8. CASE ServerSend
  BY <1>0, <1>8, PushType DEF ServerSend
<1>9. CASE ServerSwap
  BY <1>0, <1>9, SwapType DEF ServerSwap
<1>10. CASE Keep
  BY <1>10, KeepType
<1>11. CASE ServerFetched
  BY <1>11 DEF TypeOK, ServerFetched, connVars
<1>12. CASE ServerReadFlag
  BY <1>12 DEF TypeOK, ServerReadFlag, clientConnected
<1>13. CASE ServerGiveUp
  BY <1>13 DEF TypeOK, ServerGiveUp
<1>14. CASE ServerDrop
  BY <1>14 DEF TypeOK, ServerDrop
<1>15. CASE UNCHANGED vars
  BY <1>15 DEF TypeOK, vars
<1> QED
  BY <1>1, <1>2, <1>3, <1>4, <1>5, <1>6, <1>7, <1>8, <1>9, <1>10, <1>11,
     <1>12, <1>13, <1>14, <1>15 DEF Next

(* All variables keep their types, and no buffer ever holds a message that *)
(* was not sent in its direction.                                          *)
THEOREM TypeCorrect == Spec => []TypeOK
  BY InitType, NextType, PTL DEF Spec
-----------------------------------------------------------------------------
(* The order of a direction whose receiver refuses nothing: the handled    *)
(* messages, then those still to be handled, then those in the back buffer *)
(* are all the messages sent, in that order, and the pass over the front   *)
(* buffer ends where the buffers were swapped.                             *)
InOrder(d) == d = "s2c" \/ ~MayKeep

Fifo(d) == /\ front[d] = <<>>
           /\ Counts(handled[d], 0)
           /\ Counts(todo[d], Len(handled[d]))
           /\ Counts(back[d], Len(handled[d]) + Len(todo[d]))
           /\ sent[d] = Len(handled[d]) + Len(todo[d]) + Len(back[d])
           /\ swapped[d] = Len(handled[d]) + Len(todo[d])
           /\ phase[d] # "handling" => todo[d] = <<>>

(* The lengths of the buffers are natural numbers.                         *)
LEMMA Lengths ==
    ASSUME TypeOK, NEW d \in Dirs
    PROVE  /\ Len(handled[d]) \in Nat /\ Len(todo[d]) \in Nat
           /\ Len(back[d]) \in Nat /\ Len(front[d]) \in Nat
           /\ sent[d] \in Nat /\ swapped[d] \in Nat
           /\ handled[d] \in Seq(Nat) /\ todo[d] \in Seq(Nat)
           /\ back[d] \in Seq(Nat)
  BY LenProperties DEF TypeOK

(* A direction stays in order when it gets a message more, ...             *)
LEMMA PushFifo ==
    ASSUME TypeOK, NEW d \in Dirs, Fifo(d), Push(d),
           UNCHANGED <<phase, front, todo, handled, swapped>>
    PROVE  Fifo(d)'
<1>0. /\ Len(handled[d]) \in Nat /\ Len(todo[d]) \in Nat /\ Len(back[d]) \in Nat
      /\ sent[d] \in Nat
  BY Lengths
<1> DEFINE k == Len(handled[d]) + Len(todo[d])
<1>1. sent'[d] = sent[d] + 1 /\ back'[d] = Append(back[d], sent[d] + 1)
  BY DEF Push, TypeOK
<1>2. k \in Nat /\ sent[d] + 1 = k + Len(back[d]) + 1
  BY Lengths DEF Fifo
<1>3. Counts(back'[d], k)
  BY <1>1, <1>2, Lengths, CountsAppend DEF Fifo
<1>4. Len(back'[d]) = Len(back[d]) + 1
  BY <1>0, <1>1, Lengths, AppendProperties
<1>5. sent'[d] = k + Len(back'[d])
  <2> HIDE DEF k
  <2> QED  BY <1>0, <1>1, <1>2, <1>4
<1> QED  BY <1>1, <1>3, <1>5 DEF Fifo

(* ... when its buffers are swapped, ...                                   *)
LEMMA SwapFifo ==
    ASSUME TypeOK, NEW d \in Dirs, Fifo(d), Swap(d),
           UNCHANGED <<sent, handled>>
    PROVE  Fifo(d)'
<1>0. /\ Len(handled[d]) \in Nat /\ Len(todo[d]) \in Nat /\ Len(back[d]) \in Nat
      /\ sent[d] \in Nat
  BY Lengths
<1>1. /\ todo'[d] = back[d] /\ back'[d] = front[d] /\ front'[d] = <<>>
      /\ swapped'[d] = sent[d] /\ phase'[d] = "handling"
  BY DEF Swap, TypeOK
<1>2. todo[d] = <<>> /\ front[d] = <<>> /\ Len(todo[d]) = 0 /\ Len(front[d]) = 0
  BY EmptySeq DEF Fifo, Swap
<1>3. Counts(todo'[d], Len(handled[d])) /\ sent[d] = Len(handled[d]) + Len(todo'[d])
  BY <1>0, <1>1, <1>2 DEF Fifo
<1>4. Counts(back'[d], Len(handled[d]) + Len(todo'[d])) /\ Len(back'[d]) = 0
  BY <1>1, <1>2 DEF Counts
<1>5. sent[d] = Len(handled[d]) + Len(todo'[d]) + Len(back'[d])
  BY <1>0, <1>1, <1>3, <1>4
<1> QED  BY <1>1, <1>3, <1>4, <1>5 DEF Fifo

(* ... and when the handler takes a message.                               *)
LEMMA AcceptFifo ==
    ASSUME TypeOK, NEW d \in Dirs, Fifo(d), Accept(d)
    PROVE  Fifo(d)'
<1>0. /\ Len(handled[d]) \in Nat /\ Len(todo[d]) \in Nat /\ Len(back[d]) \in Nat
      /\ sent[d] \in Nat
  BY Lengths
<1>1. /\ todo'[d] = Tail(todo[d])
      /\ handled'[d] = Append(handled[d], Head(todo[d]))
      /\ todo[d] # <<>> /\ phase'[d] = "handling"
  BY DEF Accept, TypeOK
<1>2. /\ Head(todo[d]) = Len(handled[d]) + 1
      /\ Counts(Tail(todo[d]), Len(handled[d]) + 1)
      /\ Len(Tail(todo[d])) = Len(todo[d]) - 1
      /\ Len(todo[d]) > 0
  BY <1>1, Lengths, CountsTail DEF Fifo
<1>3. Counts(handled'[d], 0)
  BY <1>1, <1>2, Lengths, CountsAppend DEF Fifo
<1>4. Len(handled'[d]) = Len(handled[d]) + 1
  BY <1>1, <1>2, Lengths, AppendProperties
<1>5. Len(handled'[d]) + Len(todo'[d]) = Len(handled[d]) + Len(todo[d])
  <2> DEFINE h == Len(handled[d])  t == Len(todo[d])
  <2>1. Len(handled'[d]) = h + 1 /\ Len(todo'[d]) = t - 1
    BY <1>1, <1>2, <1>4
  <2>2. h \in Nat /\ t \in Nat
    BY <1>0
  <2> HIDE DEF h, t
  <2>3. (h + 1) + (t - 1) = h + t
    BY <2>2
  <2> QED  BY <2>1, <2>3 DEF h, t
<1>6. Counts(todo'[d], Len(handled'[d]))
  BY <1>1, <1>2, <1>4
<1> QED  BY <1>1, <1>3, <1>5, <1>6 DEF Fifo, Accept

(* What does not touch the direction, or only ends its fetch.              *)
LEMMA StillFifo ==
    ASSUME NEW d \in Dirs, Fifo(d),
           front'[d] = front[d], todo'[d] = todo[d], back'[d] = back[d],
           sent'[d] = sent[d], handled'[d] = handled[d], swapped'[d] = swapped[d],
           phase'[d] = phase[d] \/ todo[d] = <<>>
    PROVE  Fifo(d)'
  BY DEF Fifo

(* A step on one direction leaves the other in order.                      *)
LEMMA OtherDirection ==
    ASSUME TypeOK, NEW d \in Dirs, NEW e \in Dirs, e # d, Fifo(d),
           \/ Push(e) /\ UNCHANGED <<phase, front, todo, handled, swapped>>
           \/ Swap(e) /\ UNCHANGED <<sent, handled>>
           \/ Accept(e)
    PROVE  Fifo(d)'
<1>1. /\ front'[d] = front[d] /\ todo'[d] = todo[d] /\ back'[d] = back[d]
      /\ sent'[d] = sent[d] /\ handled'[d] = handled[d]
      /\ swapped'[d] = swapped[d] /\ phase'[d] = phase[d]
  BY DEF Push, Swap, Accept, TypeOK
<1> QED  BY <1>1, StillFifo

(* Both directions are in order initially ...                              *)
LEMMA InitFifo == ASSUME Init, NEW d \in Dirs PROVE Fifo(d)
  BY EmptySeq DEF Init, Fifo, Counts

(* ... and every step keeps a direction in order whose receiver refuses    *)
(* nothing.                                                                *)
LEMMA NextFifo ==
    ASSUME TypeOK, [Next]_vars, NEW d \in Dirs, InOrder(d), Fifo(d)
    PROVE  Fifo(d)'
<1>0. "c2s" \in Dirs /\ "s2c" \in Dirs
  BY DEF Dirs
<1>1. CASE ClientSend \/ ServerSend
  BY <1>0, <1>1, PushFifo, OtherDirection DEF ClientSend, ServerSend
<1>2. CASE ClientSwap \/ ServerSwap
  BY <1>0, <1>2, SwapFifo, OtherDirection DEF ClientSwap, ServerSwap
<1>3. ASSUME NEW e \in Dirs, Accept(e) PROVE Fifo(d)'
  BY <1>3, AcceptFifo, OtherDirection
<1>4. CASE Keep
  <2>1. d # "c2s"
    BY <1>4 DEF Keep, InOrder
  <2> QED  BY <1>4, <2>1, StillFifo DEF Keep, TypeOK
<1>5. CASE ClientFetched \/ ServerFetched
  BY <1>0, <1>5, StillFifo DEF ClientFetched, ServerFetched, TypeOK
<1>6. CASE ServerReadFlag
  <2>1. phase["c2s"] # "handling"
    BY <1>6 DEF ServerReadFlag
  <2>2. d = "c2s" => todo[d] = <<>>
    BY <2>1 DEF Fifo
  <2> QED  BY <1>6, <2>2, StillFifo DEF ServerReadFlag, TypeOK
<1>7. CASE ClientConnect \/ ClientDisconnect \/ ServerTestFlag \/ ServerGiveUp
             \/ ServerDrop \/ UNCHANGED vars
  BY <1>7, StillFifo DEF ClientConnect, ClientDisconnect, ServerTestFlag,
     ServerGiveUp, ServerDrop, vars
<1> QED
  BY <1>1, <1>2, <1>3, <1>4, <1>5, <1>6, <1>7 DEF Next

FifoInv == TypeOK /\ \A d \in Dirs : InOrder(d) => Fifo(d)

(* In a direction whose receiver refuses nothing, the buffers always hold  *)
(* the sent messages in order, none lost and none twice.                   *)
THEOREM FifoCorrect == Spec => []FifoInv
<1>1. Init => FifoInv
  BY InitType, InitFifo DEF FifoInv
<1>2. FifoInv /\ [Next]_vars => FifoInv'
  BY NextType, NextFifo DEF FifoInv, InOrder
<1> QED  BY <1>1, <1>2, PTL DEF Spec
-----------------------------------------------------------------------------
(* What the client's state and the flag of the server connection tell      *)
(* about each other: nothing was sent before the client connected, and an  *)
(* adopted connection that looks unusable has lost its client.             *)
UsableInv == /\ TypeOK
             /\ sent["c2s"] > 0 => client # "connecting"
             /\ UnusableMeansGone

(* A connection can be adopted only after its client sent something, so    *)
(* its client is no longer connecting.                                     *)
LEMMA AdoptedSent ==
    ASSUME TypeOK, adopted
    PROVE  sent["c2s"] > 0
<1>1. "c2s" \in Dirs
  BY DEF Dirs
<1>2. handled["c2s"] \in Seq(1..sent["c2s"]) /\ handled["c2s"] # <<>>
  BY <1>1 DEF TypeOK, adopted
<1>3. Head(handled["c2s"]) \in 1..sent["c2s"]
  BY <1>2, HeadTailProperties
<1> QED  BY <1>1, <1>3 DEF TypeOK

(* Every step preserves the invariant about _is_usable.                    *)
LEMMA NextUsable == UsableInv /\ [Next]_vars => UsableInv'
<1> SUFFICES ASSUME UsableInv, [Next]_vars PROVE UsableInv'
  OBVIOUS
<1> USE DEF UsableInv, UnusableMeansGone
<1>0. "c2s" \in Dirs /\ TypeOK' /\ sent["c2s"] \in Nat
  BY NextType DEF Dirs, TypeOK
<1>1. CASE ClientConnect
  BY <1>0, <1>1 DEF ClientConnect, adopted
<1>2. CASE ClientSend
  BY <1>0, <1>2 DEF ClientSend, Push, connVars, adopted
<1>3. CASE ClientSwap
  <2>1. phase'["c2s"] = phase["c2s"]
    BY <1>0, <1>3 DEF ClientSwap, Swap, TypeOK
  <2> QED  BY <1>0, <1>3, <2>1 DEF ClientSwap, connVars, adopted
<1>4. ASSUME NEW d \in Dirs, Accept(d) PROVE UsableInv'
  <2>1. CASE d = "c2s"
    BY <1>0, <1>4, <2>1 DEF Accept, connVars
  <2>2. CASE d # "c2s"
    <3>1. handled'["c2s"] = handled["c2s"]
      BY <1>0, <1>4, <2>2 DEF Accept, TypeOK
    <3> QED  BY <1>0, <1>4, <3>1 DEF Accept, connVars, adopted
  <2> QED  BY <2>1, <2>2
<1>5. CASE ClientFetched
  <2>1. phase'["c2s"] = phase["c2s"]
    BY <1>0, <1>5 DEF ClientFetched, TypeOK
  <2> QED  BY <1>0, <1>5, <2>1 DEF ClientFetched, connVars, adopted
<1>6. CASE ClientDisconnect
  BY <1>0, <1>6 DEF ClientDisconnect, adopted
<1>7. CASE ServerTestFlag
  BY <1>0, <1>7 DEF ServerTestFlag, connVars, adopted
<1>8. CASE ServerSend
  <2>1. sent'["c2s"] = sent["c2s"]
    BY <1>0, <1>8 DEF ServerSend, Push, TypeOK
  <2> QED  BY <1>0, <1>8, <2>1 DEF ServerSend, connVars, adopted
<1>9. CASE ServerSwap
  <2>1. phase'["c2s"] = "handling"
    BY <1>0, <1>9 DEF ServerSwap, Swap, TypeOK
  <2> QED  BY <1>0, <1>9, <2>1 DEF ServerSwap, connVars
<1>10. CASE Keep
  BY <1>0, <1>10 DEF Keep, connVars
<1>11. CASE ServerFetched
  <2>1. phase'["c2s"] = "flag"
    BY <1>0, <1>11 DEF ServerFetched, TypeOK
  <2> QED  BY <1>0, <1>11, <2>1 DEF ServerFetched, connVars
<1>12. CASE ServerReadFlag
  <2>1. adopted => client # "connecting"
    BY AdoptedSent
  <2>2. client \in {"connecting", "live", "gone"}
    BY DEF TypeOK
  <2>3. adopted' => adopted
    BY <1>12 DEF ServerReadFlag, adopted
  <2> QED  BY <1>0, <1>12, <2>1, <2>2, <2>3 DEF ServerReadFlag, clientConnected
<1>13. CASE ServerGiveUp \/ ServerDrop
  BY <1>0, <1>13 DEF ServerGiveUp, ServerDrop, adopted
<1>14. CASE UNCHANGED vars
  BY <1>0, <1>14 DEF vars, adopted
<1> QED
  BY <1>1, <1>2, <1>3, <1>4, <1>5, <1>6, <1>7, <1>8, <1>9, <1>10, <1>11,
     <1>12, <1>13, <1>14 DEF Next

(* An adopted server connection looks unusable to the router only if its   *)
(* client is gone, however is_usable, fetch_messages and the constructor   *)
(* and destructor of the client connection interleave.                     *)
THEOREM UnusableCorrect == Spec => []UnusableMeansGone
<1>1. Init => UsableInv
  BY InitType DEF Init, UsableInv, UnusableMeansGone, Dirs
<1>2. UsableInv => UnusableMeansGone
  BY DEF UsableInv
<1> QED  BY <1>1, <1>2, NextUsable, PTL DEF Spec
-----------------------------------------------------------------------------
(* The ranges of sequences.                                                *)
LEMMA RangeAppend ==
    ASSUME NEW s \in Seq(Nat), NEW x \in Nat
    PROVE  SeqRange(Append(s, x)) = SeqRange(s) \cup {x}
<1>1. /\ Len(Append(s, x)) = Len(s) + 1 /\ Len(s) \in Nat
      /\ \A i \in 1..Len(s) : Append(s, x)[i] = s[i]
      /\ Append(s, x)[Len(s) + 1] = x
  BY AppendProperties, LenProperties
<1>2. 1..(Len(s) + 1) = 1..Len(s) \cup {Len(s) + 1}
  BY <1>1
<1> QED  BY <1>1, <1>2 DEF SeqRange

(* A sequence that is not empty holds its head and what its tail holds.    *)
LEMMA RangeHead ==
    ASSUME NEW s \in Seq(Nat), s # <<>>
    PROVE  SeqRange(s) = {Head(s)} \cup SeqRange(Tail(s))
<1>1. /\ Len(Tail(s)) = Len(s) - 1 /\ Len(s) \in Nat \ {0}
      /\ \A i \in 1..Len(Tail(s)) : Tail(s)[i] = s[i + 1]
      /\ Head(s) = s[1]
  BY HeadTailProperties, LenProperties, EmptySeq
<1>2. SeqRange(s) \subseteq {Head(s)} \cup SeqRange(Tail(s))
  <2> SUFFICES ASSUME NEW i \in 1..Len(s), i # 1
               PROVE  s[i] \in SeqRange(Tail(s))
    BY <1>1 DEF SeqRange
  <2>1. i - 1 \in 1..Len(Tail(s)) /\ (i - 1) + 1 = i
    BY <1>1
  <2> QED  BY <1>1, <2>1 DEF SeqRange
<1>3. SeqRange(Tail(s)) \subseteq SeqRange(s)
  <2> SUFFICES ASSUME NEW i \in 1..Len(Tail(s))
               PROVE  Tail(s)[i] \in SeqRange(s)
    BY DEF SeqRange
  <2>1. i + 1 \in 1..Len(s)
    BY <1>1
  <2> QED  BY <1>1, <2>1 DEF SeqRange
<1>4. Head(s) \in SeqRange(s)
  BY <1>1 DEF SeqRange
<1> QED  BY <1>2, <1>3, <1>4

(* Nothing is in an empty sequence.                                        *)
LEMMA RangeEmpty == SeqRange(<<>>) = {}
  BY DEF SeqRange
-----------------------------------------------------------------------------
(* The buffers whatever the handler refuses: no message is in two places,  *)
(* and every message sent is somewhere.                                    *)
Once(s) == \A i, j \in 1..Len(s) : s[i] = s[j] => i = j

(* Appending something new keeps the elements distinct, ...                *)
LEMMA OnceAppend ==
    ASSUME NEW s \in Seq(Nat), NEW x \in Nat, Once(s), x \notin SeqRange(s)
    PROVE  Once(Append(s, x))
<1>1. /\ Len(Append(s, x)) = Len(s) + 1 /\ Len(s) \in Nat
      /\ \A i \in 1..Len(s) : Append(s, x)[i] = s[i]
      /\ Append(s, x)[Len(s) + 1] = x
  BY AppendProperties, LenProperties
<1>2. \A i \in 1..(Len(s) + 1) : i \in 1..Len(s) \/ i = Len(s) + 1
  BY <1>1
<1>3. \A i \in 1..Len(s) : s[i] # x
  BY DEF SeqRange
<1> QED  BY <1>1, <1>2, <1>3 DEF Once

(* ... and so does taking the head away.                                   *)
LEMMA OnceTail ==
    ASSUME NEW s \in Seq(Nat), s # <<>>, Once(s)
    PROVE  Once(Tail(s)) /\ Head(s) \notin SeqRange(Tail(s))
<1>1. /\ Len(Tail(s)) = Len(s) - 1 /\ Len(s) \in Nat \ {0}
      /\ \A i \in 1..Len(Tail(s)) : Tail(s)[i] = s[i + 1]
      /\ Head(s) = s[1]
  BY HeadTailProperties, LenProperties, EmptySeq
<1>2. \A i \in 1..Len(Tail(s)) : i \in Nat /\ i + 1 \in 1..Len(s) /\ i + 1 # 1
  BY <1>1
<1>3. ASSUME NEW i \in 1..Len(Tail(s)), NEW j \in 1..Len(Tail(s)),
             Tail(s)[i] = Tail(s)[j]
      PROVE  i = j
  <2>1. i + 1 = j + 1
    BY <1>1, <1>2, <1>3 DEF Once
  <2> QED  BY <1>2, <2>1
<1>4. ASSUME NEW i \in 1..Len(Tail(s)), Tail(s)[i] = Head(s) PROVE FALSE
  <2>1. i + 1 = 1
    BY <1>1, <1>2, <1>4 DEF Once
  <2> QED  BY <1>2, <2>1
<1> QED  BY <1>3, <1>4 DEF Once, SeqRange

Disjoint(s, t) == SeqRange(s) \cap SeqRange(t) = {}

Stored(d) == /\ Once(todo[d]) /\ Once(front[d]) /\ Once(back[d])
             /\ Disjoint(todo[d], front[d])
             /\ Disjoint(todo[d], back[d])
             /\ Disjoint(front[d], back[d])
             /\ 1..sent[d] \subseteq SeqRange(handled[d]) \cup Waiting(d)
             /\ swapped[d] <= sent[d]
             /\ phase[d] # "handling" => todo[d] = <<>>

(* What the steps do to the waiting messages: send() adds one, ...         *)
LEMMA PushStored ==
    ASSUME TypeOK, NEW d \in Dirs, Stored(d), Push(d),
           UNCHANGED <<phase, front, todo, handled, swapped>>
    PROVE  /\ Stored(d)'
           /\ Waiting(d)' = Waiting(d) \cup {sent[d] + 1}
<1>1. /\ sent[d] \in Nat /\ swapped[d] \in Nat /\ back[d] \in Seq(Nat)
      /\ sent'[d] = sent[d] + 1 /\ back'[d] = Append(back[d], sent[d] + 1)
  BY DEF TypeOK, Push
<1>2. sent[d] + 1 \notin Waiting(d)
  <2>1. \A s \in Seq(1..sent[d]) : SeqRange(s) \subseteq 1..sent[d]
    BY ElementOfSeq DEF SeqRange
  <2>2. Waiting(d) \subseteq 1..sent[d]
    BY <2>1 DEF TypeOK, Waiting
  <2> QED  BY <1>1, <2>2
<1>3. /\ SeqRange(back'[d]) = SeqRange(back[d]) \cup {sent[d] + 1}
      /\ Once(back'[d])
  BY <1>1, <1>2, RangeAppend, OnceAppend DEF Stored, Waiting
<1>4. Waiting(d)' = Waiting(d) \cup {sent[d] + 1}
  BY <1>3 DEF Waiting
<1>5. 1..sent'[d] = 1..sent[d] \cup {sent[d] + 1} /\ swapped[d] <= sent'[d]
  BY <1>1 DEF Stored
<1> QED  BY <1>2, <1>3, <1>4, <1>5 DEF Stored, Disjoint, Waiting

(* ... the swap only changes where they wait, ...                          *)
LEMMA SwapStored ==
    ASSUME TypeOK, NEW d \in Dirs, Stored(d), Swap(d), UNCHANGED <<sent, handled>>
    PROVE  Stored(d)' /\ Waiting(d)' = Waiting(d)
<1>1. /\ todo'[d] = back[d] /\ back'[d] = front[d] /\ front'[d] = <<>>
      /\ swapped'[d] = sent[d] /\ phase'[d] = "handling" /\ todo[d] = <<>>
      /\ sent[d] \in Nat
  BY DEF Swap, TypeOK, Stored
<1>2. Waiting(d)' = Waiting(d)
  BY <1>1, RangeEmpty DEF Waiting
<1>3. Once(<<>>)
  BY DEF Once
<1> QED  BY <1>1, <1>2, <1>3, RangeEmpty DEF Stored, Disjoint

(* ... the handler takes one ...                                           *)
LEMMA AcceptStored ==
    ASSUME TypeOK, NEW d \in Dirs, Stored(d), Accept(d)
    PROVE  /\ Stored(d)'
           /\ Head(todo[d]) \in Waiting(d)
           /\ Waiting(d)' = Waiting(d) \ {Head(todo[d])}
           /\ handled'[d] = Append(handled[d], Head(todo[d]))
<1>1. /\ todo[d] \in Seq(Nat) /\ todo[d] # <<>> /\ handled[d] \in Seq(Nat)
      /\ todo'[d] = Tail(todo[d]) /\ back'[d] = back[d] /\ front'[d] = front[d]
      /\ handled'[d] = Append(handled[d], Head(todo[d]))
      /\ phase'[d] = "handling" /\ sent' = sent /\ swapped' = swapped
  BY DEF TypeOK, Accept
<1>2. Head(todo[d]) \in Nat
  BY <1>1, HeadTailProperties
<1>3. /\ SeqRange(todo[d]) = {Head(todo[d])} \cup SeqRange(todo'[d])
      /\ Head(todo[d]) \notin SeqRange(todo'[d])
      /\ Once(todo'[d])
  BY <1>1, RangeHead, OnceTail DEF Stored
<1>4. SeqRange(handled'[d]) = SeqRange(handled[d]) \cup {Head(todo[d])}
  BY <1>1, <1>2, RangeAppend
<1>5. Waiting(d)' = Waiting(d) \ {Head(todo[d])}
  BY <1>1, <1>3 DEF Stored, Disjoint, Waiting
<1>6. Stored(d)'
  BY <1>1, <1>3, <1>4, <1>5 DEF Stored, Disjoint
<1> QED  BY <1>1, <1>3, <1>5, <1>6 DEF Waiting

(* ... or refuses it, which only changes where it waits.                   *)
LEMMA KeepStored ==
    ASSUME TypeOK, Keep, Stored("c2s")
    PROVE  Stored("c2s")' /\ Waiting("c2s")' = Waiting("c2s")
<1> DEFINE d == "c2s"
<1>1. /\ todo[d] \in Seq(Nat) /\ todo[d] # <<>> /\ front[d] \in Seq(Nat)
      /\ todo'[d] = Tail(todo[d]) /\ front'[d] = Append(front[d], Head(todo[d]))
      /\ phase'[d] = "handling" /\ UNCHANGED <<back, handled, sent, swapped>>
  BY DEF TypeOK, Keep, Dirs
<1>2. Head(todo[d]) \in Nat
  BY <1>1, HeadTailProperties
<1>3. /\ SeqRange(todo[d]) = {Head(todo[d])} \cup SeqRange(todo'[d])
      /\ Head(todo[d]) \notin SeqRange(todo'[d])
      /\ Once(todo'[d])
  BY <1>1, RangeHead, OnceTail DEF Stored
<1>4. /\ SeqRange(front'[d]) = SeqRange(front[d]) \cup {Head(todo[d])}
      /\ Once(front'[d])
  BY <1>1, <1>2, <1>3, RangeAppend, OnceAppend DEF Stored, Disjoint
<1>5. Waiting(d)' = Waiting(d)
  BY <1>1, <1>3, <1>4 DEF Waiting
<1> QED  BY <1>1, <1>3, <1>4, <1>5 DEF Stored, Disjoint

(* Nothing changes for a direction whose buffers do not change.            *)
LEMMA StillStored ==
    ASSUME NEW d \in Dirs, Stored(d),
           front'[d] = front[d], todo'[d] = todo[d], back'[d] = back[d],
           sent'[d] = sent[d], handled'[d] = handled[d], swapped'[d] = swapped[d],
           phase'[d] = phase[d] \/ todo[d] = <<>>
    PROVE  Stored(d)' /\ Waiting(d)' = Waiting(d)
  BY DEF Stored, Waiting

(* A step of the connection, seen from the channel of one direction.       *)
ChannelSend(d) == /\ sent'[d] = sent[d] + 1
                  /\ Waiting(d)' = Waiting(d) \cup {sent[d] + 1}
                  /\ handled'[d] = handled[d]

ChannelDeliver(d) == /\ todo[d] # <<>>
                     /\ Head(todo[d]) \in Waiting(d)
                     /\ Waiting(d)' = Waiting(d) \ {Head(todo[d])}
                     /\ handled'[d] = Append(handled[d], Head(todo[d]))
                     /\ sent'[d] = sent[d]

ChannelStill(d) == /\ sent'[d] = sent[d]
                   /\ Waiting(d)' = Waiting(d)
                   /\ handled'[d] = handled[d]

ChannelStep(d) == ChannelSend(d) \/ ChannelDeliver(d) \/ ChannelStill(d)

(* A step on the other direction is none of this direction's channel.      *)
LEMMA StillStep ==
    ASSUME TypeOK, NEW d \in Dirs, NEW e \in Dirs, e # d, Stored(d),
           \/ Push(e) /\ UNCHANGED <<phase, front, todo, handled, swapped>>
           \/ Swap(e) /\ UNCHANGED <<sent, handled>>
           \/ Accept(e)
    PROVE  Stored(d)' /\ ChannelStep(d)
<1>1. /\ front'[d] = front[d] /\ todo'[d] = todo[d] /\ back'[d] = back[d]
      /\ sent'[d] = sent[d] /\ handled'[d] = handled[d]
      /\ swapped'[d] = swapped[d] /\ phase'[d] = phase[d]
  BY DEF Push, Swap, Accept, TypeOK
<1> QED  BY <1>1, StillStored DEF ChannelStep, ChannelStill

(* Every step is, for each direction, a step of the channel or none.       *)
LEMMA NextStored ==
    ASSUME TypeOK, [Next]_vars, NEW d \in Dirs, Stored(d)
    PROVE  Stored(d)' /\ ChannelStep(d)
<1>0. "c2s" \in Dirs /\ "s2c" \in Dirs
  BY DEF Dirs
<1>1. ASSUME NEW e \in Dirs, Push(e), UNCHANGED <<phase, front, todo, handled, swapped>>
      PROVE  Stored(d)' /\ ChannelStep(d)
  <2>1. CASE e = d
    <3>1. sent'[d] = sent[d] + 1 /\ handled' = handled
      BY <1>1, <2>1 DEF Push, TypeOK
    <3> QED  BY <1>1, <2>1, <3>1, PushStored DEF ChannelStep, ChannelSend
  <2> QED  BY <1>1, <2>1, StillStep
<1>2. ASSUME NEW e \in Dirs, Swap(e), UNCHANGED <<sent, handled>>
      PROVE  Stored(d)' /\ ChannelStep(d)
  <2>1. CASE e = d
    BY <1>2, <2>1, SwapStored DEF ChannelStep, ChannelStill
  <2> QED  BY <1>2, <2>1, StillStep
<1>3. ASSUME NEW e \in Dirs, Accept(e)
      PROVE  Stored(d)' /\ ChannelStep(d)
  <2>1. CASE e = d
    <3>1. todo[d] # <<>> /\ sent' = sent
      BY <1>3, <2>1 DEF Accept
    <3> QED  BY <1>3, <2>1, <3>1, AcceptStored DEF ChannelStep, ChannelDeliver
  <2> QED  BY <1>3, <2>1, StillStep
<1>4. CASE Keep
  <2>1. CASE d = "c2s"
    <3>1. UNCHANGED <<sent, handled>>
      BY <1>4 DEF Keep
    <3> QED  BY <1>4, <2>1, <3>1, KeepStored DEF ChannelStep, ChannelStill
  <2>2. CASE d # "c2s"
    BY <1>4, <2>2, StillStored DEF Keep, TypeOK, ChannelStep, ChannelStill
  <2> QED  BY <2>1, <2>2
<1>5. CASE ClientFetched \/ ServerFetched
  BY <1>0, <1>5, StillStored
     DEF ClientFetched, ServerFetched, TypeOK, ChannelStep, ChannelStill
<1>6. CASE ServerReadFlag
  <2>1. phase["c2s"] # "handling"
    BY <1>6 DEF ServerReadFlag
  <2>2. d = "c2s" => todo[d] = <<>>
    BY <2>1 DEF Stored
  <2> QED  BY <1>6, <2>2, StillStored
              DEF ServerReadFlag, TypeOK, ChannelStep, ChannelStill
<1>7. CASE ClientConnect \/ ClientDisconnect \/ ServerTestFlag \/ ServerGiveUp
             \/ ServerDrop \/ UNCHANGED vars
  BY <1>7, StillStored DEF ClientConnect, ClientDisconnect, ServerTestFlag,
     ServerGiveUp, ServerDrop, vars, ChannelStep, ChannelStill
<1>8. CASE ClientSend \/ ServerSend
  BY <1>0, <1>1, <1>8 DEF ClientSend, ServerSend
<1>9. CASE ClientSwap \/ ServerSwap
  BY <1>0, <1>2, <1>9 DEF ClientSwap, ServerSwap
<1> QED
  BY <1>3, <1>4, <1>5, <1>6, <1>7, <1>8, <1>9 DEF Next

StoreInv == FifoInv /\ \A d \in Dirs : Stored(d)

(* Initially nothing waits and nothing was handled.                        *)
LEMMA InitStore == Init => StoreInv
<1> SUFFICES ASSUME Init PROVE StoreInv
  OBVIOUS
<1>1. FifoInv
  BY InitType, InitFifo DEF FifoInv
<1>2. \A d \in Dirs : Stored(d)
  BY RangeEmpty DEF Init, Stored, Disjoint, Once, Waiting
<1> QED  BY <1>1, <1>2 DEF StoreInv

(* Every step preserves the invariant about the waiting messages.          *)
LEMMA NextStore == StoreInv /\ [Next]_vars => StoreInv'
  BY NextType, NextFifo, NextStored DEF StoreInv, FifoInv, InOrder
-----------------------------------------------------------------------------
(* The server fetches and sends only while it holds the shared state, and  *)
(* gives it up only between two fetches.                                   *)
GoneInv == /\ StoreInv
           /\ ~server => phase["c2s"] = "idle" /\ ~sending

(* Every step preserves this.                                              *)
LEMMA NextGone == GoneInv /\ [Next]_vars => GoneInv'
<1> SUFFICES ASSUME GoneInv, [Next]_vars PROVE GoneInv'
  OBVIOUS
<1> USE DEF GoneInv
<1>0. StoreInv' /\ TypeOK
  BY NextStore DEF StoreInv, FifoInv
<1>1. CASE ClientConnect \/ ClientDisconnect \/ UNCHANGED vars
  BY <1>0, <1>1 DEF ClientConnect, ClientDisconnect, vars
<1>2. CASE ClientSend \/ ClientSwap \/ ClientFetched
  BY <1>0, <1>2 DEF ClientSend, ClientSwap, ClientFetched, Swap, connVars, TypeOK, Dirs
<1>3. CASE ServerTestFlag \/ ServerSend
  BY <1>0, <1>3 DEF ServerTestFlag, ServerSend, connVars
<1>4. CASE ServerSwap \/ Keep \/ ServerFetched \/ ServerReadFlag
  BY <1>0, <1>4 DEF ServerSwap, Keep, ServerFetched, ServerReadFlag, connVars
<1>5. CASE ServerGiveUp \/ ServerDrop
  BY <1>0, <1>5 DEF ServerGiveUp, ServerDrop
<1>6. ASSUME NEW d \in Dirs, Accept(d) PROVE GoneInv'
  BY <1>0, <1>6 DEF Accept, connVars
<1> QED  BY <1>1, <1>2, <1>3, <1>4, <1>5, <1>6 DEF Next

(* That invariant implies that only late messages are lost.                *)
LEMMA LateOnly == GoneInv => OnlyLateMessagesLost
<1> SUFFICES ASSUME GoneInv, ~server, NEW m \in 1..swapped["c2s"]
             PROVE  \/ m \in SeqRange(handled["c2s"])
                    \/ MayKeep /\ m \in SeqRange(front["c2s"]) \cup SeqRange(back["c2s"])
  BY DEF OnlyLateMessagesLost
<1>1. "c2s" \in Dirs /\ TypeOK /\ Stored("c2s")
  BY DEF Dirs, GoneInv, StoreInv, FifoInv
<1>2. CASE MayKeep
  <2>1. m \in 1..sent["c2s"]
    BY <1>1 DEF Stored, TypeOK
  <2>2. todo["c2s"] = <<>>
    BY <1>1 DEF GoneInv, Stored
  <2>3. SeqRange(todo["c2s"]) = {}
    BY <2>2, RangeEmpty
  <2> QED  BY <1>1, <1>2, <2>1, <2>3 DEF Stored, Waiting
<1>3. CASE ~MayKeep
  <2>1. Fifo("c2s") /\ todo["c2s"] = <<>>
    BY <1>1, <1>3 DEF GoneInv, StoreInv, FifoInv, InOrder, Fifo
  <2>2. Len(handled["c2s"]) \in Nat /\ swapped["c2s"] = Len(handled["c2s"])
    BY <1>1, <2>1, Lengths, EmptySeq DEF Fifo
  <2>3. m \in 1..Len(handled["c2s"]) /\ handled["c2s"][m] = m
    BY <2>1, <2>2 DEF Fifo, Counts
  <2> QED  BY <2>3 DEF SeqRange
<1> QED  BY <1>2, <1>3

(* Whatever the server fetched before it dropped its side of the           *)
(* connection was handled or refused: only what the client sent after the  *)
(* last swap of the buffers can be lost.                                   *)
THEOREM LateOnlyCorrect == Spec => []OnlyLateMessagesLost
<1>1. Init => GoneInv
  BY InitStore DEF Init, GoneInv
<1> QED  BY <1>1, NextGone, LateOnly, PTL DEF Spec
-----------------------------------------------------------------------------
(* In a direction with order, what is handled next was sent first.         *)
LEMMA FirstWaiting ==
    ASSUME TypeOK, NEW d \in Dirs, Fifo(d), todo[d] # <<>>
    PROVE  \A n \in Waiting(d) : Head(todo[d]) <= n
<1> DEFINE h == Len(handled[d])  t == Len(todo[d])
<1>1. /\ h \in Nat /\ t \in Nat /\ Len(back[d]) \in Nat /\ front[d] = <<>>
      /\ Head(todo[d]) = h + 1
      /\ Counts(todo[d], h) /\ Counts(back[d], h + t)
  BY Lengths, CountsTail DEF Fifo
<1> HIDE DEF h, t
<1>2. \A i \in 1..Len(todo[d]) : h + 1 <= todo[d][i]
  BY <1>1 DEF Counts, t
<1>3. \A i \in 1..Len(back[d]) : h + 1 <= back[d][i]
  BY <1>1 DEF Counts
<1> QED  BY <1>1, <1>2, <1>3, RangeEmpty DEF Waiting, SeqRange

(* The client-to-server half is a channel, ordered unless the handler may  *)
(* refuse messages; the server-to-client half is an ordered channel.       *)
THEOREM DirectionsAreChannels == Spec => EachDirectionIsChannel
<1>0. "c2s" \in Dirs /\ "s2c" \in Dirs
  BY DEF Dirs
<1>1. Init => StoreInv /\ C2S!Init /\ S2C!Init
  <2> SUFFICES ASSUME Init PROVE C2S!Init /\ S2C!Init
    BY InitStore
  <2> QED  BY <1>0, RangeEmpty DEF Init, C2S!Init, S2C!Init, Waiting
<1>2. StoreInv /\ [Next]_vars => [C2S!Next]_(C2S!chanVars)
  <2> SUFFICES ASSUME StoreInv, [Next]_vars PROVE [C2S!Next]_(C2S!chanVars)
    OBVIOUS
  <2>1. ChannelStep("c2s") /\ TypeOK
    BY <1>0, NextStored DEF StoreInv, FifoInv
  <2>2. CASE ChannelSend("c2s")
    BY <2>2 DEF ChannelSend, C2S!Next, C2S!Send
  <2>3. CASE ChannelDeliver("c2s")
    <3>1. ~MayKeep => \A n \in Waiting("c2s") : Head(todo["c2s"]) <= n
      BY <1>0, <2>1, <2>3, FirstWaiting DEF StoreInv, FifoInv, InOrder, ChannelDeliver
    <3> QED  BY <2>3, <3>1 DEF ChannelDeliver, C2S!Next, C2S!Deliver
  <2>4. CASE ChannelStill("c2s")
    BY <2>4 DEF ChannelStill, C2S!chanVars
  <2> QED  BY <2>1, <2>2, <2>3, <2>4 DEF ChannelStep
<1>3. StoreInv /\ [Next]_vars => [S2C!Next]_(S2C!chanVars)
  <2> SUFFICES ASSUME StoreInv, [Next]_vars PROVE [S2C!Next]_(S2C!chanVars)
    OBVIOUS
  <2>1. ChannelStep("s2c") /\ TypeOK
    BY <1>0, NextStored DEF StoreInv, FifoInv
  <2>2. CASE ChannelSend("s2c")
    BY <2>2 DEF ChannelSend, S2C!Next, S2C!Send
  <2>3. CASE ChannelDeliver("s2c")
    <3>1. \A n \in Waiting("s2c") : Head(todo["s2c"]) <= n
      BY <1>0, <2>1, <2>3, FirstWaiting DEF StoreInv, FifoInv, InOrder, ChannelDeliver
    <3> QED  BY <2>3, <3>1 DEF ChannelDeliver, S2C!Next, S2C!Deliver
  <2>4. CASE ChannelStill("s2c")
    BY <2>4 DEF ChannelStill, S2C!chanVars
  <2> QED  BY <2>1, <2>2, <2>3, <2>4 DEF ChannelStep
<1> QED
  BY <1>1, <1>2, <1>3, NextStore, PTL
     DEF Spec, EachDirectionIsChannel, C2S!Spec, S2C!Spec
=============================================================================
