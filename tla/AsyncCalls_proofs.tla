-------------------------- MODULE AsyncCalls_proofs --------------------------
(***************************************************************************)
(* Proofs about AsyncCalls, for any invokers, workers and bounds.          *)
(***************************************************************************)
EXTENDS AsyncCalls, SequenceTheorems, TLAPS

(* A call is the pair of its invoker and its number.                       *)
LEMMA CallPair ==
    ASSUME NEW c \in Calls
    PROVE  c[1] \in Invokers /\ c[2] \in Numbers /\ c = <<c[1], c[2]>>
  BY DEF Calls

(* A sequence of one element.                                              *)
LEMMA OneElement ==
    ASSUME NEW S, NEW x \in S
    PROVE  <<x>> \in Seq(S) /\ Len(<<x>>) = 1 /\ <<x>>[1] = x
  OBVIOUS

(* A worker that works on a call is not about to fetch, nor asleep.        *)
LEMMA WithWork ==
    ASSUME TypeOK, NEW w \in Workers, worker[w].step \in {"work", "deliver"}
    PROVE  worker[w] \in HasWork /\ worker[w].unit \in Numbers
<1>1. \A v \in {Fetching, Asleep, Woken, Ended} : v.step \notin {"work", "deliver"}
  BY DEF Fetching, Asleep, Woken, Ended, At
<1>2. worker[w] \in {Fetching, Asleep, Woken, Ended} \cup HasWork
  BY DEF TypeOK
<1>3. worker[w] \in HasWork
  BY <1>1, <1>2
<1> QED
  BY <1>3 DEF HasWork

(* What a handler is called with is one result or timeout, or nothing.     *)
LEMMA ToldType ==
    ASSUME NEW c \in Calls, NEW a \in Answer
    PROVE  /\ Told(c, a) \in Seq(Calls \cup {Timeout})
           /\ Told(c, a) \in {<<>>, <<Timeout>>, <<a.value>>}
<1>1. Told(c, a) \in {<<>>, <<Timeout>>, <<a.value>>}
  BY DEF Told
<1>2. a.value \in Calls
  BY DEF Answer
<1>3. Timeout \in Calls \cup {Timeout} /\ a.value \in Calls \cup {Timeout}
  BY <1>2
<1>4. /\ <<Timeout>> \in Seq(Calls \cup {Timeout})
      /\ <<a.value>> \in Seq(Calls \cup {Timeout})
  BY <1>3, OneElement
<1>5. <<>> \in Seq(Calls \cup {Timeout})
  BY EmptySeq
<1> QED
  BY <1>1, <1>4, <1>5

(* The type invariant holds initially ...                                  *)
LEMMA InitType == Init => TypeOK
<1> SUFFICES ASSUME Init PROVE TypeOK
  OBVIOUS
<1>1. 0 \in 0..MaxCalls
  BY CallsAssumption
<1>2. outcome \in [Calls -> Seq(Calls \cup {Timeout})]
  BY EmptySeq DEF Init
<1>3. queue \in Seq(Numbers)
  BY EmptySeq DEF Init
<1>4. DOMAIN pending = {}
  BY DEF Init
<1> QED
  BY <1>1, <1>2, <1>3, <1>4 DEF Init, TypeOK

(* A call that is finished, or about to be, has the result of its own      *)
(* arguments, which are those of the invoker that it is answered to.       *)
Results ==
    /\ \A n \in DOMAIN pending : pending[n].args = <<pending[n].by, n>>
    /\ \A n \in DOMAIN pending :
          pending[n].finished => pending[n].result = pending[n].args
    /\ \A w \in Workers :
          worker[w].step = "deliver"
              => pending[worker[w].unit].result = pending[worker[w].unit].args

(* ... and every step preserves it, as only finished calls are answered.   *)
LEMMA NextType == TypeOK /\ Results /\ [Next]_vars => TypeOK'
<1> SUFFICES ASSUME TypeOK, Results, [Next]_vars PROVE TypeOK'
  OBVIOUS
<1> USE DEF invokerVars, workshopVars
<1>1. ASSUME NEW i \in Invokers, Invoke(i) PROVE TypeOK'
  <2>1. made[i] \in 0..MaxCalls /\ made[i] + 1 \in Numbers
    <3>1. made[i] \in 0..MaxCalls /\ Quota[i] \in 0..MaxCalls /\ MaxCalls \in Nat
      BY CallsAssumption DEF TypeOK
    <3>2. made[i] < Quota[i]
      BY <1>1 DEF Invoke
    <3> QED
      BY <3>1, <3>2 DEF Numbers
  <2>2. made' \in [Invokers -> 0..MaxCalls] /\ made'[i] = made[i] + 1
    BY <1>1, <2>1 DEF TypeOK, Invoke, Numbers
  <2>3. promises' \in [Invokers -> SUBSET Numbers]
    BY <1>1, <2>1, <2>2 DEF TypeOK, Invoke
  <2>4. requests' \subseteq Calls
    BY <1>1, <2>1, <2>2 DEF TypeOK, Invoke, Calls
  <2> QED
    BY <1>1, <2>2, <2>3, <2>4 DEF TypeOK, Invoke
<1>2. ASSUME NEW i \in Invokers, NEW n \in Numbers, BecomeLate(i, n) PROVE TypeOK'
  BY <1>2 DEF TypeOK, BecomeLate, Calls
<1>3. ASSUME NEW a \in answers, Fulfill(a) PROVE TypeOK'
  <2>1. a \in Answer /\ a.to \in Invokers
    BY DEF TypeOK, Answer
  <2>2. promises' \in [Invokers -> SUBSET Numbers]
    BY <1>3, <2>1 DEF TypeOK, Fulfill
  <2>3. ASSUME NEW c \in Calls
        PROVE  outcome[c] \o Told(c, a) \in Seq(Calls \cup {Timeout})
    BY <2>1, ToldType, ConcatProperties DEF TypeOK
  <2>4. outcome' \in [Calls -> Seq(Calls \cup {Timeout})]
    BY <1>3, <2>3 DEF Fulfill
  <2> QED
    BY <1>3, <2>2, <2>4 DEF TypeOK, Fulfill
<1>4. ASSUME NEW c \in Calls, Enqueue(c) PROVE TypeOK'
  <2>1. CASE c[2] \in DOMAIN pending
    BY <1>4, <2>1 DEF TypeOK, Enqueue
  <2>2. CASE c[2] \notin DOMAIN pending
    <3>1. Call(c) \in PendingCall
      BY CallPair DEF Call, PendingCall
    <3>2. /\ DOMAIN pending' \subseteq Numbers
          /\ \A n \in DOMAIN pending' : pending'[n] \in PendingCall
      BY <1>4, <2>2, <3>1, CallPair DEF TypeOK, Enqueue, With
    <3>3. queue' \in Seq(Numbers)
      <4>1. queue' = Append(queue, c[2]) /\ c[2] \in Numbers /\ queue \in Seq(Numbers)
        BY <1>4, <2>2, CallPair DEF TypeOK, Enqueue
      <4> QED
        BY <4>1, AppendProperties
    <3>4. worker' \in [Workers -> {Fetching, Asleep, Woken, Ended} \cup HasWork]
      BY <1>4, <2>2 DEF TypeOK, Enqueue, Notify
    <3>5. idler' \in {"away", "waiting", "woken", "returned"}
      BY <1>4, <2>2 DEF TypeOK, Enqueue, Notify
    <3>6. UNCHANGED <<invokerVars, answers, closing, dropped, lost>> /\ requests' \subseteq requests
      BY <1>4, <2>2 DEF Enqueue
    <3> QED
      BY <3>2, <3>3, <3>4, <3>5, <3>6 DEF TypeOK
  <2> QED
    BY <2>1, <2>2
<1>5. ASSUME NEW c \in Calls, Lose(c) PROVE TypeOK'
  BY <1>5 DEF TypeOK, Lose
<1>6. ASSUME NEW n \in Numbers, HandleOne(n) PROVE TypeOK'
  <2>1. pending[n] \in PendingCall /\ pending[n].result \in Calls
    BY <1>6 DEF TypeOK, Results, HandleOne, PendingCall
  <2>2. answers' \subseteq Answer
    BY <1>6, <2>1 DEF TypeOK, HandleOne, Answer, PendingCall
  <2>3. /\ DOMAIN pending' \subseteq Numbers
        /\ \A m \in DOMAIN pending' : pending'[m] \in PendingCall
    BY <1>6 DEF TypeOK, HandleOne, Without
  <2> QED
    BY <1>6, <2>2, <2>3 DEF TypeOK, HandleOne
<1>7. ASSUME NEW w \in Workers, Fetch(w) PROVE TypeOK'
  <2>1. CASE queue = <<>>
    BY <1>7, <2>1 DEF TypeOK, Fetch
  <2>2. CASE queue # <<>> /\ closing /\ worker[w] = Fetching
    BY <1>7, <2>2 DEF TypeOK, Fetch
  <2>3. CASE queue # <<>> /\ ~(closing /\ worker[w] = Fetching)
    <3>1. Head(queue) \in Numbers /\ Tail(queue) \in Seq(Numbers)
      BY <2>3, HeadTailProperties DEF TypeOK
    <3>2. At("work", Head(queue)) \in HasWork
      BY <3>1 DEF At, HasWork
    <3>3. worker' \in [Workers -> {Fetching, Asleep, Woken, Ended} \cup HasWork] /\ queue' \in Seq(Numbers)
      BY <1>7, <2>3, <3>1, <3>2 DEF TypeOK, Fetch
    <3>4. UNCHANGED <<invokerVars, requests, answers, pending, closing, idler, dropped,
                      lost>>
      BY <1>7 DEF Fetch
    <3> QED
      BY <3>3, <3>4 DEF TypeOK
  <2> QED
    BY <2>1, <2>2, <2>3
<1>8. ASSUME NEW w \in Workers, DoIt(w) PROVE TypeOK'
  <2>1. worker[w] \in HasWork
    BY <1>8, WithWork DEF DoIt
  <2>2. At("deliver", worker[w].unit) \in HasWork
    BY <2>1 DEF At, HasWork
  <2>3. /\ DOMAIN pending' \subseteq Numbers
        /\ \A n \in DOMAIN pending' : pending'[n] \in PendingCall
    BY <1>8 DEF TypeOK, DoIt, PendingCall
  <2>4. worker' \in [Workers -> {Fetching, Asleep, Woken, Ended} \cup HasWork]
    BY <1>8, <2>2 DEF TypeOK, DoIt
  <2>5. UNCHANGED <<invokerVars, requests, answers, queue, closing, idler, dropped, lost>>
    BY <1>8 DEF DoIt
  <2> QED
    BY <2>3, <2>4, <2>5 DEF TypeOK
<1>9. ASSUME NEW w \in Workers, Deliver(w) PROVE TypeOK'
  <2>1. /\ DOMAIN pending' \subseteq Numbers
        /\ \A n \in DOMAIN pending' : pending'[n] \in PendingCall
    BY <1>9 DEF TypeOK, Deliver, PendingCall
  <2>2. \A v \in Workers : Wake(worker[v]) \in {worker[v], Woken}
    BY DEF Wake
  <2>3. worker' \in [Workers -> {Fetching, Asleep, Woken, Ended} \cup HasWork]
    BY <1>9, <2>2 DEF TypeOK, Deliver
  <2>4. idler' \in {"away", "waiting", "woken", "returned"}
    BY <1>9 DEF TypeOK, Deliver, WakeIdler
  <2>5. UNCHANGED <<invokerVars, requests, answers, queue, closing, dropped, lost>>
    BY <1>9 DEF Deliver
  <2> QED
    BY <2>1, <2>3, <2>4, <2>5 DEF TypeOK
<1>10. CASE Close
  <2>1. \A w \in Workers : Wake(worker[w]) \in {worker[w], Woken}
    BY DEF Wake
  <2>2. worker' \in [Workers -> {Fetching, Asleep, Woken, Ended} \cup HasWork]
    BY <1>10, <2>1 DEF TypeOK, Close
  <2> QED
    BY <1>10, <2>2 DEF TypeOK, Close, WakeIdler
<1>11. CASE WaitIdle
  BY <1>11 DEF TypeOK, WaitIdle
<1>12. CASE UNCHANGED vars
  BY <1>12 DEF TypeOK, vars
<1> QED
  BY <1>1, <1>2, <1>3, <1>4, <1>5, <1>6, <1>7, <1>8, <1>9, <1>10, <1>11, <1>12 DEF Next
-----------------------------------------------------------------------------
(* Initially there is no work ...                                          *)
LEMMA InitWork == Init => WorkAlive /\ Results
  BY DEF Init, WorkAlive, Results, Busy, Fetching, At

(* ... and every step keeps the calls that are waited for or worked on     *)
(* in the skeleton, each with one user, and the results with their calls.  *)
LEMMA NextWork == TypeOK /\ WorkAlive /\ Results /\ [Next]_vars
                      => WorkAlive' /\ Results'
<1> SUFFICES ASSUME TypeOK, WorkAlive, Results, [Next]_vars
             PROVE  WorkAlive' /\ Results'
  OBVIOUS
<1> USE DEF invokerVars, workshopVars
<1>1. CASE UNCHANGED <<pending, queue, worker>>
  BY <1>1 DEF WorkAlive, Results, Alive, Busy
<1>2. ASSUME NEW i \in Invokers, Invoke(i) PROVE WorkAlive' /\ Results'
  BY <1>1, <1>2 DEF Invoke
<1>3. ASSUME NEW i \in Invokers, NEW n \in Numbers, BecomeLate(i, n)
      PROVE  WorkAlive' /\ Results'
  BY <1>1, <1>3 DEF BecomeLate
<1>4. ASSUME NEW a \in answers, Fulfill(a) PROVE WorkAlive' /\ Results'
  BY <1>1, <1>4 DEF Fulfill
<1>5. ASSUME NEW c \in Calls, Lose(c) PROVE WorkAlive' /\ Results'
  BY <1>1, <1>5 DEF Lose
<1>6. ASSUME NEW c \in Calls, Enqueue(c) PROVE WorkAlive' /\ Results'
  <2>1. CASE c[2] \in DOMAIN pending
    BY <1>1, <1>6, <2>1 DEF Enqueue
  <2>2. CASE c[2] \notin DOMAIN pending
    <3> DEFINE n == c[2]
    <3>1. /\ n \in Numbers
          /\ DOMAIN pending' = DOMAIN pending \cup {n}
          /\ pending'[n] = Call(c)
          /\ \A m \in DOMAIN pending : pending'[m] = pending[m]
      BY <1>6, <2>2, CallPair DEF Enqueue, With
    <3>2. /\ Len(queue') = Len(queue) + 1
          /\ DOMAIN queue' = 1..(Len(queue) + 1) /\ DOMAIN queue = 1..Len(queue)
          /\ queue'[Len(queue) + 1] = n
          /\ \A k \in DOMAIN queue : queue'[k] = queue[k]
      <4>1. queue' = Append(queue, n) /\ queue \in Seq(Numbers)
        BY <1>6, <2>2 DEF TypeOK, Enqueue
      <4> QED
        BY <3>1, <4>1, AppendProperties, LenProperties
    <3>3. \A w \in Workers : worker'[w] = worker[w] \/ worker'[w] = Woken
      BY <1>6, <2>2 DEF TypeOK, Enqueue, Notify
    <3>4. Woken.step = "woken"
      BY DEF Woken, At
    <3>5. Busy' \subseteq Busy /\ \A w \in Busy' : worker'[w] = worker[w]
      BY <3>3, <3>4 DEF Busy
    <3>6. Len(queue) \in Nat
      BY LenProperties DEF TypeOK
    <3>7. WorkAlive'
      <4>1. \A k \in DOMAIN queue : queue[k] \in DOMAIN pending /\ queue[k] # n
        BY <2>2 DEF WorkAlive, Alive
      <4>2. \A w \in Busy : worker[w].unit \in DOMAIN pending /\ worker[w].unit # n
        BY <2>2 DEF WorkAlive, Alive
      <4>3. \A m : Alive(m) => Alive(m)'
        BY <3>1 DEF Alive
      <4>4. Alive(n)'
        BY <3>1 DEF Alive, Call
      <4>5. \A k \in DOMAIN queue' : k \in DOMAIN queue \/ k = Len(queue) + 1
        BY <3>2, <3>6
      <4> QED
        BY <3>2, <3>5, <3>6, <4>1, <4>2, <4>3, <4>4, <4>5 DEF WorkAlive
    <3>8. Results'
      BY <2>2, <3>1, <3>3, <3>4, CallPair DEF Results, WorkAlive, Alive, Busy, Call
    <3> QED
      BY <3>7, <3>8
  <2> QED
    BY <2>1, <2>2
<1>7. ASSUME NEW n \in Numbers, HandleOne(n) PROVE WorkAlive' /\ Results'
  <2>1. /\ DOMAIN pending' = DOMAIN pending \ {n}
        /\ \A m \in DOMAIN pending' : pending'[m] = pending[m]
        /\ queue' = queue /\ worker' = worker /\ pending[n].finished
    BY <1>7 DEF HandleOne, Without
  <2>2. \A m : Alive(m) => Alive(m)'
    BY <2>1 DEF Alive
  <2> QED
    BY <2>1, <2>2 DEF WorkAlive, Results, Busy, Alive
<1>8. ASSUME NEW w \in Workers, Fetch(w) PROVE WorkAlive' /\ Results'
  <2>1. Ended.step = "ended" /\ Asleep.step = "asleep" /\ w \notin Busy
    BY <1>8 DEF Fetch, Fetching, Woken, Asleep, Ended, At, Busy
  <2>2. CASE queue = <<>> \/ (closing /\ worker[w] = Fetching)
    <3>1. /\ worker' \in {[worker EXCEPT ![w] = Asleep], [worker EXCEPT ![w] = Ended]}
          /\ queue' = queue /\ pending' = pending
      BY <1>8, <2>2 DEF Fetch
    <3>2. /\ worker'[w].step \in {"asleep", "ended"}
          /\ \A v \in Workers : v # w => worker'[v] = worker[v]
      BY <2>1, <3>1 DEF TypeOK
    <3>3. Busy' = Busy /\ \A v \in Busy : worker'[v] = worker[v]
      BY <2>1, <3>2 DEF Busy
    <3>4. WorkAlive'
      BY <3>1, <3>3 DEF WorkAlive, Alive
    <3>5. Results'
      BY <3>1, <3>2 DEF Results
    <3> QED
      BY <3>4, <3>5
  <2>3. CASE queue # <<>> /\ ~(closing /\ worker[w] = Fetching)
    <3> DEFINE n == Head(queue)
    <3>1. /\ worker' = [worker EXCEPT ![w] = At("work", n)]
          /\ queue' = Tail(queue) /\ pending' = pending
      BY <1>8, <2>3 DEF Fetch
    <3>2. /\ Len(queue) \in Nat /\ Len(queue) > 0 /\ DOMAIN queue = 1..Len(queue)
          /\ n = queue[1] /\ DOMAIN queue' = 1..(Len(queue) - 1)
          /\ \A k \in DOMAIN queue' : queue'[k] = queue[k + 1]
      BY <2>3, <3>1, HeadTailProperties, LenProperties DEF TypeOK
    <3>3. At("work", n).step = "work" /\ At("work", n).unit = n
      BY DEF At
    <3>4. /\ Busy' = Busy \cup {w}
          /\ worker'[w] = At("work", n)
          /\ \A v \in Workers : v # w => worker'[v] = worker[v]
      BY <2>1, <3>1, <3>3 DEF Busy, TypeOK
    <3>5. \A k \in DOMAIN queue' : k + 1 \in DOMAIN queue /\ k + 1 # 1 /\ k \in Nat
      BY <3>2
    <3>6. 1 \in DOMAIN queue
      BY <3>2
    <3>7. \A m : Alive(m)' <=> Alive(m)
      BY <3>1 DEF Alive
    <3>8. WorkAlive'
      <4>1. \A k \in DOMAIN queue' :
               Alive(queue'[k]) /\ \A l \in DOMAIN queue' : queue'[k] = queue'[l] => k = l
        BY <3>2, <3>5 DEF WorkAlive
      <4>2. Alive(n) /\ \A k \in DOMAIN queue' : queue'[k] # n
        BY <3>2, <3>5, <3>6 DEF WorkAlive
      <4>3. \A v \in Busy : worker[v].unit # n /\ v # w
        BY <2>1, <3>2, <3>6 DEF WorkAlive
      <4>4. \A v \in Busy : \A k \in DOMAIN queue' : queue'[k] # worker[v].unit
        BY <3>2, <3>5 DEF WorkAlive
      <4>5. /\ worker'[w].unit = n
            /\ \A v \in Busy : worker'[v] = worker[v]
        BY <2>1, <3>3, <3>4 DEF Busy
      <4> QED
        BY <3>4, <3>7, <4>1, <4>2, <4>3, <4>4, <4>5 DEF WorkAlive
    <3>9. Results'
      BY <3>1, <3>3, <3>4 DEF Results
    <3> QED
      BY <3>8, <3>9
  <2> QED
    BY <2>2, <2>3
<1>9. ASSUME NEW w \in Workers, DoIt(w) PROVE WorkAlive' /\ Results'
  <2> DEFINE n == worker[w].unit
  <2>1. w \in Busy /\ n \in DOMAIN pending /\ ~pending[n].finished
    BY <1>9 DEF DoIt, Busy, WorkAlive, Alive
  <2>2. /\ worker' = [worker EXCEPT ![w] = At("deliver", n)]
        /\ pending' = [pending EXCEPT ![n].result = pending[n].args]
        /\ queue' = queue
    BY <1>9, <2>1 DEF DoIt
  <2>3. At("deliver", n).step = "deliver" /\ At("deliver", n).unit = n
    BY DEF At
  <2>4. /\ Busy' = Busy
        /\ \A v \in Workers : worker'[v].unit = worker[v].unit
        /\ \A v \in Workers : v # w => worker'[v] = worker[v]
    BY <2>1, <2>2, <2>3 DEF Busy, TypeOK
  <2>5. /\ DOMAIN pending' = DOMAIN pending
        /\ \A m \in DOMAIN pending :
              /\ m # n => pending'[m] = pending[m]
              /\ pending'[m].finished = pending[m].finished
              /\ pending'[m].args = pending[m].args
              /\ pending'[m].by = pending[m].by
        /\ pending'[n].result = pending'[n].args
    BY <2>1, <2>2 DEF TypeOK, PendingCall
  <2>6. WorkAlive'
    BY <2>2, <2>4, <2>5 DEF WorkAlive, Alive, Busy
  <2>7. \A v \in Workers : worker[v].step = "deliver" => worker[v].unit \in DOMAIN pending
    BY DEF WorkAlive, Alive, Busy
  <2>8. Results'
    BY <2>1, <2>4, <2>5, <2>7 DEF Results
  <2> QED
    BY <2>6, <2>8
<1>10. ASSUME NEW w \in Workers, Deliver(w) PROVE WorkAlive' /\ Results'
  <2> DEFINE n == worker[w].unit
  <2>1. w \in Busy /\ n \in DOMAIN pending /\ worker[w].step = "deliver"
    BY <1>10 DEF Deliver, Busy, WorkAlive, Alive
  <2>2. /\ worker' = [v \in Workers |-> IF v = w THEN Fetching ELSE Wake(worker[v])]
        /\ pending' = [pending EXCEPT ![n].finished = TRUE]
        /\ queue' = queue
    BY <1>10, <2>1 DEF Deliver
  <2>3. Fetching.step = "fetch" /\ Woken.step = "woken"
    BY DEF Fetching, Woken, At
  <2>4. \A v \in Workers :
            worker'[v] \in {Fetching, Woken} \/ (v # w /\ worker'[v] = worker[v])
    <3>1. \A v \in Workers :
             worker'[v] = IF v = w THEN Fetching ELSE Wake(worker[v])
      BY <2>2
    <3>2. \A v \in Workers : Wake(worker[v]) = Woken \/ Wake(worker[v]) = worker[v]
      BY DEF Wake
    <3> QED
      BY <3>1, <3>2
  <2>5. Busy' \subseteq Busy \ {w} /\ \A v \in Busy' : worker'[v] = worker[v]
    BY <2>3, <2>4 DEF Busy
  <2>6. /\ DOMAIN pending' = DOMAIN pending
        /\ \A m \in DOMAIN pending :
              /\ m # n => pending'[m] = pending[m]
              /\ pending'[m].result = pending[m].result
              /\ pending'[m].args = pending[m].args
              /\ pending'[m].by = pending[m].by
    BY <2>1, <2>2 DEF TypeOK, PendingCall
  <2>7. /\ \A v \in Busy' : worker[v].unit # n
        /\ \A k \in DOMAIN queue : queue[k] # n
    BY <2>1, <2>5 DEF WorkAlive
  <2>8. WorkAlive'
    <3>1. \A m : Alive(m) /\ m # n => Alive(m)'
      BY <2>6 DEF Alive
    <3>2. Busy' \subseteq Busy /\ \A v \in Busy' : worker'[v].unit = worker[v].unit
      BY <2>5
    <3> QED
      BY <2>2, <2>7, <3>1, <3>2 DEF WorkAlive
  <2>9. pending[n].result = pending[n].args
    BY <2>1 DEF Results, Busy
  <2>10. Results'
    BY <2>3, <2>4, <2>5, <2>6, <2>9 DEF Results, Busy, WorkAlive, Alive
  <2> QED
    BY <2>8, <2>10
<1>11. CASE Close
  <2>1. Woken.step = "woken"
    BY DEF Woken, At
  <2>2. \A v \in Workers : worker'[v] = Woken \/ worker'[v] = worker[v]
    BY <1>11 DEF Close, Wake
  <2>3. pending' = pending /\ queue' = queue
    BY <1>11 DEF Close
  <2>4. Busy' \subseteq Busy /\ \A v \in Busy' : worker'[v] = worker[v]
    BY <2>1, <2>2 DEF Busy
  <2>5. WorkAlive'
    BY <2>3, <2>4 DEF WorkAlive, Alive
  <2>6. Results'
    BY <2>1, <2>2, <2>3 DEF Results
  <2> QED
    BY <2>5, <2>6
<1>12. CASE WaitIdle
  BY <1>1, <1>12 DEF WaitIdle
<1>13. CASE UNCHANGED vars
  BY <1>1, <1>13 DEF vars
<1> QED
  BY <1>2, <1>3, <1>4, <1>5, <1>6, <1>7, <1>8, <1>9, <1>10, <1>11, <1>12, <1>13 DEF Next
-----------------------------------------------------------------------------
(* Answers carry the result of the call that they are for.                 *)
AnswersRight == \A a \in answers : a.value = <<a.to, a.number>>

(* Only calls that were made have a promise, and the handlers of a call    *)
(* are not called while its promise is there.                              *)
Settled ==
    /\ \A i \in Invokers : \A n \in promises[i] : n <= made[i]
    /\ \A c \in Calls :
          /\ outcome[c] \in {<<>>, <<c>>, <<Timeout>>}
          /\ outcome[c] # <<>> => c[2] <= made[c[1]] /\ c[2] \notin promises[c[1]]

(* Initially there is neither an answer nor a call.                        *)
LEMMA InitSettled == Init => AnswersRight /\ Settled
  BY CallPair DEF Init, AnswersRight, Settled

(* Answers are made from the results of the calls of the skeleton.         *)
LEMMA NextAnswers == TypeOK /\ Results /\ AnswersRight /\ [Next]_vars => AnswersRight'
<1> SUFFICES ASSUME TypeOK, Results, AnswersRight, [Next]_vars PROVE AnswersRight'
  OBVIOUS
<1>1. CASE answers' \subseteq answers
  BY <1>1 DEF AnswersRight
<1>2. ASSUME NEW n \in Numbers, HandleOne(n) PROVE AnswersRight'
  BY <1>2 DEF HandleOne, AnswersRight, Results
<1> QED
  BY <1>1, <1>2 DEF Next, vars, invokerVars, Invoke, BecomeLate, Fulfill, Enqueue,
                    Lose, Fetch, DoIt, Deliver, Close, WaitIdle

(* A new call has a number that no call was settled with; an answer or a   *)
(* timeout reaches the handlers of a call when its promise is erased.      *)
LEMMA NextSettled == TypeOK /\ AnswersRight /\ Settled /\ [Next]_vars => Settled'
<1> SUFFICES ASSUME TypeOK, AnswersRight, Settled, [Next]_vars PROVE Settled'
  OBVIOUS
<1>1. CASE UNCHANGED <<made, promises, outcome>>
  BY <1>1 DEF Settled
<1>2. ASSUME NEW i \in Invokers, Invoke(i) PROVE Settled'
  <2>1. \A j \in Invokers : made[j] \in Nat
    BY CallsAssumption DEF TypeOK
  <2>2. /\ made' = [made EXCEPT ![i] = made[i] + 1]
        /\ promises' = [promises EXCEPT ![i] = promises[i] \cup {made[i] + 1}]
        /\ outcome' = outcome
    BY <1>2 DEF Invoke, invokerVars, TypeOK
  <2>3. ASSUME NEW c \in Calls, outcome[c] # <<>>
        PROVE  c[2] <= made'[c[1]] /\ c[2] \notin promises'[c[1]]
    <3>1. c[1] \in Invokers /\ c[2] \in Nat
      BY CallPair DEF Numbers
    <3>2. c[2] <= made[c[1]] /\ c[2] \notin promises[c[1]]
      BY <2>3 DEF Settled
    <3> QED
      BY <2>1, <2>2, <3>1, <3>2 DEF TypeOK
  <2>4. \A j \in Invokers : \A n \in promises'[j] : n <= made'[j]
    <3>1. \A j \in Invokers : promises[j] \subseteq Nat
      BY DEF TypeOK, Numbers
    <3> QED
      BY <2>1, <2>2, <3>1 DEF TypeOK, Settled
  <2> QED
    BY <2>2, <2>3, <2>4 DEF Settled
<1>3. ASSUME NEW a \in answers, Fulfill(a) PROVE Settled'
  <2>1. /\ made' = made
        /\ \A j \in Invokers : promises'[j] =
              IF j = a.to
              THEN {n \in promises[j] : n # a.number /\ <<j, n>> \notin late}
              ELSE promises[j]
        /\ \A c \in Calls : outcome'[c] = outcome[c] \o Told(c, a)
    BY <1>3 DEF Fulfill, TypeOK
  <2>2. a.value = <<a.to, a.number>>
    BY DEF AnswersRight
  <2>3. ASSUME NEW c \in Calls
        PROVE  /\ outcome'[c] \in {<<>>, <<c>>, <<Timeout>>}
               /\ outcome'[c] # <<>> => /\ c[2] <= made'[c[1]]
                                        /\ c[2] \notin promises'[c[1]]
    <3>1. c[1] \in Invokers /\ c = <<c[1], c[2]>>
      BY CallPair
    <3>2. promises'[c[1]] \subseteq promises[c[1]]
      BY <2>1, <3>1
    <3>3. CASE Told(c, a) = <<>>
      <4>1. outcome'[c] = outcome[c]
        BY <2>1, <3>3, ConcatEmptySeq DEF TypeOK
      <4> QED
        BY <2>1, <3>2, <4>1 DEF Settled
    <3>4. CASE Told(c, a) # <<>>
      <4>1. /\ c[1] = a.to /\ c[2] \in promises[c[1]]
            /\ \/ c \in late /\ Told(c, a) = <<Timeout>>
               \/ c[2] = a.number /\ Told(c, a) = <<a.value>>
        BY <3>4 DEF Told
      <4>2. Told(c, a) \in {<<c>>, <<Timeout>>} /\ c[2] \notin promises'[c[1]]
        <5>1. promises'[c[1]] = {n \in promises[c[1]] :
                                    n # a.number /\ <<c[1], n>> \notin late}
          BY <2>1, <3>1, <4>1
        <5>2. c[2] = a.number => a.value = c
          BY <2>2, <3>1, <4>1
        <5>3. Told(c, a) \in {<<c>>, <<Timeout>>}
          BY <4>1, <5>2
        <5>4. c \in late => <<c[1], c[2]>> \in late
          BY <3>1
        <5>5. c[2] \notin promises'[c[1]]
          BY <4>1, <5>1, <5>4
        <5> QED
          BY <5>3, <5>5
      <4>3. outcome[c] = <<>>
        BY <4>1 DEF Settled
      <4>4. Told(c, a) \in Seq(Calls \cup {Timeout})
        <5>1. c \in Calls \cup {Timeout} /\ Timeout \in Calls \cup {Timeout}
          OBVIOUS
        <5>2. <<c>> \in Seq(Calls \cup {Timeout}) /\ <<Timeout>> \in Seq(Calls \cup {Timeout})
          BY <5>1, OneElement
        <5> QED
          BY <4>2, <5>2
      <4>5. outcome'[c] = Told(c, a)
        BY <2>1, <4>3, <4>4, ConcatEmptySeq
      <4>6. c[2] <= made'[c[1]]
        BY <2>1, <3>1, <4>1 DEF Settled
      <4> QED
        BY <4>2, <4>5, <4>6
    <3> QED
      BY <3>3, <3>4
  <2>4. \A j \in Invokers : \A n \in promises'[j] : n <= made'[j]
    BY <2>1 DEF Settled
  <2> QED
    BY <2>3, <2>4 DEF Settled
<1> QED
  BY <1>1, <1>2, <1>3 DEF Next, vars, invokerVars, BecomeLate, Enqueue, Lose,
                          HandleOne, Fetch, DoIt, Deliver, Close, WaitIdle

(* The inductive invariant.                                                *)
AsyncInv == TypeOK /\ WorkAlive /\ Results /\ AnswersRight /\ Settled

(* It holds always.                                                        *)
LEMMA InvCorrect == Spec => []AsyncInv
<1>1. Init => AsyncInv
  BY InitType, InitWork, InitSettled DEF AsyncInv
<1>2. AsyncInv /\ [Next]_vars => AsyncInv'
  BY NextType, NextWork, NextAnswers, NextSettled DEF AsyncInv
<1> QED
  BY <1>1, <1>2, PTL DEF Spec

(* All variables keep their types.                                         *)
THEOREM TypeCorrect == Spec => []TypeOK
<1>1. AsyncInv => TypeOK
  BY DEF AsyncInv
<1> QED
  BY <1>1, InvCorrect, PTL

(* The queue of the workshop and the workers never use a call that the     *)
(* skeleton has erased, and no two of them use the same.                   *)
THEOREM WorkCorrect == Spec => []WorkAlive
<1>1. AsyncInv => WorkAlive
  BY DEF AsyncInv
<1> QED
  BY <1>1, InvCorrect, PTL

(* The handlers of a call are called at most once, and with the result of  *)
(* this call, for any number of invokers that all count from 1.            *)
THEOREM OutcomeCorrect == Spec => []OutcomeRight
<1>1. AsyncInv => OutcomeRight
  BY DEF AsyncInv, Settled, OutcomeRight
<1> QED
  BY <1>1, InvCorrect, PTL
=============================================================================
