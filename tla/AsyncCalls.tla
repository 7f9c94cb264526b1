----------------------------- MODULE AsyncCalls -----------------------------
(***************************************************************************)
(* Calls over the bus that are answered asynchronously: invokers keep a    *)
(* promise for each call that they made (invoker.hpp, future.hpp), an      *)
(* asynchronous skeleton keeps the calls that wait for their result        *)
(* (skeleton.hpp), and the threads of a workshop compute it                *)
(* (workshop.hpp).                                                         *)
(*                                                                         *)
(* A call is a pair of an invoker and the number it gave the call; it      *)
(* stands for the arguments as well as for the result that belongs to      *)
(* them.  Sections under the mutex of the workshop are one step.  The      *)
(* skeleton reads the flag finished without that mutex, so a value that is *)
(* out of date may be seen; a flag that is seen to be set implies that the *)
(* result is there.                                                        *)
(*                                                                         *)
(* Definitions named Dev_X are deviations of the definition X that follows *)
(* them, made as a plausible mistake in the code would make them.          *)
(***************************************************************************)
EXTENDS Naturals, FiniteSets, Sequences

CONSTANTS Invokers,  \* endpoints with an invoker
          Workers,   \* the threads of the workshop
          MaxCalls,  \* bound: the numbers of calls
          Quota,     \* bound: calls per invoker
          MaxLost    \* bound: calls whose request or answer the bus loses

ASSUME CallsAssumption == /\ MaxCalls \in Nat /\ MaxLost \in Nat
                          /\ Quota \in [Invokers -> 0..MaxCalls]

Numbers == 1..MaxCalls
Calls == Invokers \X Numbers
NoResult == <<>>
Timeout == <<>>

VARIABLES
    made,     \* per invoker: _id_seq
    promises, \* per invoker: the numbers in _promises
    late,     \* the calls with too_late
    outcome,  \* per call: what its handlers were called with
    requests, \* the requests under way
    answers,  \* the answers under way
    pending,  \* the skeleton's _pending, by the number of the call
    queue,    \* the _work_queue of the workshop
    worker,   \* per worker: what it does, and on which call
    closing,  \* _shutdown
    idler,    \* a thread that may call wait_until_idle()
    dropped,  \* the calls that enqueue() refused
    lost      \* the calls whose request or answer was lost

invokerVars == <<made, promises, late, outcome>>
workshopVars == <<queue, worker, closing, idler>>
vars == <<invokerVars, requests, answers, pending, workshopVars, dropped, lost>>

Answer == [to : Invokers, number : Numbers, value : Calls]
At(step, n) == [step |-> step, unit |-> n]
Fetching == At("fetch", 0)
Asleep == At("asleep", 0)
Woken == At("woken", 0)
Ended == At("ended", 0)

Init == /\ made = [i \in Invokers |-> 0]
        /\ promises = [i \in Invokers |-> {}]
        /\ late = {}
        /\ outcome = [c \in Calls |-> <<>>]
        /\ requests = {}
        /\ answers = {}
        /\ pending = <<>>
        /\ queue = <<>>
        /\ worker = [w \in Workers |-> Fetching]
        /\ closing = FALSE
        /\ idler = "away"
        /\ dropped = {}
        /\ lost = {}
-----------------------------------------------------------------------------
(* The invokers.                                                           *)

Invoke(i) ==
    /\ made[i] < Quota[i]
    /\ made' = [made EXCEPT ![i] = @ + 1]
    /\ promises' = [promises EXCEPT ![i] = @ \cup {made'[i]}]
    /\ requests' = requests \cup {<<i, made'[i]>>}
    /\ UNCHANGED <<late, outcome, answers, pending, workshopVars, dropped, lost>>

(* The timeout of a promise is over; nobody is told until the next answer. *)
BecomeLate(i, n) ==
    /\ n \in promises[i]
    /\ late' = late \cup {<<i, n>>}
    /\ UNCHANGED <<made, promises, outcome, requests, answers, pending,
                   workshopVars, dropped, lost>>

(* What the handlers of call c are called with when answer a comes:        *)
(* promise::fulfill for the call with the number of the answer, and then   *)
(* promise::should_be_removed for all others.                              *)
Told(c, a) ==
    IF c[1] # a.to \/ c[2] \notin promises[c[1]] THEN <<>>
    ELSE IF c \in late THEN <<Timeout>>
    ELSE IF c[2] = a.number THEN <<a.value>> ELSE <<>>

Dev_Fulfill(a) ==
    /\ answers' = answers \ {a}
    /\ outcome' = [c \in Calls |-> outcome[c] \o Told(c, a)]
    /\ promises' = [promises EXCEPT ![a.to] = @ \ {a.number}]
    /\ UNCHANGED <<made, late, requests, pending, workshopVars, dropped, lost>>
Fulfill(a) ==
    /\ answers' = answers \ {a}
    /\ outcome' = [c \in Calls |-> outcome[c] \o Told(c, a)]
    /\ promises' = [promises EXCEPT ![a.to] =
                       {n \in @ : n # a.number /\ <<a.to, n>> \notin late}]
    /\ UNCHANGED <<made, late, requests, pending, workshopVars, dropped, lost>>
-----------------------------------------------------------------------------
(* The skeleton, in the thread of its endpoint.                            *)

Call(c) == [by |-> c[1], args |-> c, result |-> NoResult, finished |-> FALSE]

With(f, n, v) == [m \in DOMAIN f \cup {n} |-> IF m = n THEN v ELSE f[m]]
Without(f, n) == [m \in DOMAIN f \ {n} |-> f[m]]

(* workshop::enqueue wakes one of the threads that wait: one of the        *)
(* workers, or the one that waits for the queue to be empty.               *)
Wake(w) == IF w = Asleep THEN Woken ELSE w
WakeIdler == IF idler = "waiting" THEN "woken" ELSE idler

Dev_Notify == UNCHANGED <<worker, idler>>
Notify == \/ \E w \in Workers : /\ worker[w] = Asleep
                                /\ worker' = [worker EXCEPT ![w] = Woken]
                                /\ UNCHANGED idler
          \/ /\ idler = "waiting"
             /\ idler' = "woken"
             /\ UNCHANGED worker
          \/ /\ \A w \in Workers : worker[w] # Asleep
             /\ idler # "waiting"
             /\ UNCHANGED <<worker, idler>>

(* enqueue() has no place for a call with a number that is pending, also   *)
(* if it is another invoker's; the handler takes the request all the same. *)
Enqueue(c) ==
    /\ c \in requests
    /\ requests' = requests \ {c}
    /\ IF c[2] \in DOMAIN pending
       THEN /\ dropped' = dropped \cup {c}
            /\ UNCHANGED <<pending, workshopVars>>
       ELSE /\ pending' = With(pending, c[2], Call(c))
            /\ queue' = Append(queue, c[2])
            /\ Notify
            /\ UNCHANGED <<closing, dropped>>
    /\ UNCHANGED <<invokerVars, answers, lost>>

(* handle_one answers the first call that it sees finished.  It may miss   *)
(* that an earlier one is.                                                 *)
Dev_HandleOne(n) ==
    /\ n \in DOMAIN pending
    /\ pending[n].result # NoResult
    /\ answers' = answers \cup {[to |-> pending[n].by, number |-> n,
                                 value |-> pending[n].result]}
    /\ pending' = Without(pending, n)
    /\ UNCHANGED <<invokerVars, requests, workshopVars, dropped, lost>>
HandleOne(n) ==
    /\ n \in DOMAIN pending
    /\ pending[n].finished
    /\ answers' = answers \cup {[to |-> pending[n].by, number |-> n,
                                 value |-> pending[n].result]}
    /\ pending' = Without(pending, n)
    /\ UNCHANGED <<invokerVars, requests, workshopVars, dropped, lost>>
-----------------------------------------------------------------------------
(* The workshop: its workers, and the threads that wait for it.            *)

(* _fetch takes the first work unit, or waits for one; a worker that finds *)
(* the workshop closing ends, but one that it woke takes a unit first, if  *)
(* there is one.                                                           *)
Fetch(w) ==
    /\ worker[w] \in {Fetching, Woken}
    /\ IF closing /\ (worker[w] = Fetching \/ queue = <<>>)
       THEN worker' = [worker EXCEPT ![w] = Ended] /\ UNCHANGED queue
       ELSE IF queue = <<>>
       THEN worker' = [worker EXCEPT ![w] = Asleep] /\ UNCHANGED queue
       ELSE /\ worker' = [worker EXCEPT ![w] = At("work", Head(queue))]
            /\ queue' = Tail(queue)
    /\ UNCHANGED <<invokerVars, requests, answers, pending, closing, idler, dropped,
                   lost>>

(* do_it applies the function to the arguments, without the mutex.  (A     *)
(* unit whose call is gone would be a dangling pointer: see WorkAlive.)    *)
DoIt(w) ==
    LET n == worker[w].unit
    IN  /\ worker[w].step = "work"
        /\ worker' = [worker EXCEPT ![w] = At("deliver", n)]
        /\ pending' = IF n \in DOMAIN pending
                      THEN [pending EXCEPT ![n].result = pending[n].args]
                      ELSE pending
        /\ UNCHANGED <<invokerVars, requests, answers, queue, closing, idler,
                       dropped, lost>>

(* deliver sets finished, and all threads that wait are woken.             *)
Dev_Deliver(w) ==
    LET n == worker[w].unit
    IN  /\ worker[w].step = "deliver"
        /\ worker' = [worker EXCEPT ![w] = Fetching]
        /\ pending' = IF n \in DOMAIN pending
                      THEN [pending EXCEPT ![n].finished = TRUE] ELSE pending
        /\ UNCHANGED <<invokerVars, requests, answers, queue, closing, idler,
                       dropped, lost>>
Deliver(w) ==
    LET n == worker[w].unit
    IN  /\ worker[w].step = "deliver"
        /\ worker' = [v \in Workers |-> IF v = w THEN Fetching ELSE Wake(worker[v])]
        /\ idler' = WakeIdler
        /\ pending' = IF n \in DOMAIN pending
                      THEN [pending EXCEPT ![n].finished = TRUE] ELSE pending
        /\ UNCHANGED <<invokerVars, requests, answers, queue, closing, dropped, lost>>

(* shutdown, which wakes all threads that wait.                            *)
Close == /\ ~closing
         /\ closing' = TRUE
         /\ worker' = [w \in Workers |-> Wake(worker[w])]
         /\ idler' = WakeIdler
         /\ UNCHANGED <<invokerVars, requests, answers, pending, queue, dropped, lost>>

(* wait_until_idle, which returns when it finds the queue empty.           *)
WaitIdle == /\ idler \in {"away", "woken"}
            /\ idler' = IF queue = <<>> THEN "returned" ELSE "waiting"
            /\ UNCHANGED <<invokerVars, requests, answers, pending, queue, worker,
                           closing, dropped, lost>>

(* The bus.                                                                *)
Lose(c) ==
    /\ Cardinality(lost) < MaxLost
    /\ lost' = lost \cup {c}
    /\ \/ c \in requests /\ requests' = requests \ {c} /\ UNCHANGED answers
       \/ \E a \in answers : /\ <<a.to, a.number>> = c
                             /\ answers' = answers \ {a}
                             /\ UNCHANGED requests
    /\ UNCHANGED <<invokerVars, pending, workshopVars, dropped>>

Next == \/ \E i \in Invokers : Invoke(i) \/ \E n \in Numbers : BecomeLate(i, n)
        \/ \E a \in answers : Fulfill(a)
        \/ \E c \in Calls : Enqueue(c) \/ Lose(c)
        \/ \E n \in Numbers : HandleOne(n)
        \/ \E w \in Workers : Fetch(w) \/ DoIt(w) \/ Deliver(w)
        \/ Close
        \/ WaitIdle

Spec == Init /\ [][Next]_vars

(* The endpoints are updated all the time and the workers run; what was    *)
(* written to the flag is seen in the end, and what the bus does not lose  *)
(* arrives.                                                                *)
Fairness == /\ \A c \in Calls : WF_vars(Enqueue(c))
            /\ \A a \in Answer : WF_vars(a \in answers /\ Fulfill(a))
            /\ \A n \in Numbers : WF_vars(HandleOne(n))
            /\ \A w \in Workers : WF_vars(Fetch(w) \/ DoIt(w) \/ Deliver(w))
            /\ WF_vars(idler = "woken" /\ WaitIdle)

FairSpec == Spec /\ Fairness
-----------------------------------------------------------------------------
PendingCall == [by : Invokers, args : Calls, result : Calls \cup {NoResult},
                finished : BOOLEAN]
HasWork == [step : {"work", "deliver"}, unit : Numbers]

(* All variables have their types: numbers of calls begin with 1, and each *)
(* worker waits, fetches work, has it, or has ended.                       *)
TypeOK == /\ made \in [Invokers -> 0..MaxCalls]
          /\ promises \in [Invokers -> SUBSET Numbers]
          /\ late \subseteq Calls
          /\ outcome \in [Calls -> Seq(Calls \cup {Timeout})]
          /\ requests \subseteq Calls
          /\ answers \subseteq Answer
          /\ DOMAIN pending \subseteq Numbers
          /\ \A n \in DOMAIN pending : pending[n] \in PendingCall
          /\ queue \in Seq(Numbers)
          /\ worker \in [Workers -> {Fetching, Asleep, Woken, Ended} \cup HasWork]
          /\ closing \in BOOLEAN
          /\ idler \in {"away", "waiting", "woken", "returned"}
          /\ dropped \subseteq Calls
          /\ lost \subseteq Calls

(* A call that the skeleton has and that is not finished.                  *)
Alive(n) == n \in DOMAIN pending /\ ~pending[n].finished
Busy == {w \in Workers : worker[w].step \in {"work", "deliver"}}

(* A work unit that waits in the queue or that a worker uses is a call     *)
(* that the skeleton still has and that nobody else works on: the queue    *)
(* holds plain pointers into the map that handle_one erases from.          *)
WorkAlive ==
    /\ \A k \in DOMAIN queue :
          Alive(queue[k]) /\ \A l \in DOMAIN queue : queue[k] = queue[l] => k = l
    /\ \A w \in Busy :
          /\ Alive(worker[w].unit)
          /\ \A v \in Busy : worker[v].unit = worker[w].unit => v = w
          /\ \A k \in DOMAIN queue : queue[k] # worker[w].unit

(* The handlers of a call are called at most once, with a timeout or with  *)
(* the result of this very call: however the timeout and the answer race,  *)
(* and although the skeleton tells calls apart by their numbers only,      *)
(* which all invokers count from 1.                                        *)
OutcomeRight == \A c \in Calls : outcome[c] \in {<<>>, <<c>>, <<Timeout>>}

(* A call gets its answer, or its timeout is reported, unless the bus lost *)
(* its request or its answer, the skeleton had no place for its number, or *)
(* the workshop closes: what waits in its queue then is left there.        *)
EventuallyResolved ==
    \A c \in Calls : (c[2] <= made[c[1]])
                         ~> (outcome[c] # <<>> \/ c \in lost \cup dropped \/ closing)

(* Who waits for the workshop returns: in wait_until_idle, although it     *)
(* shares the condition variable with the workers and may be woken in      *)
(* place of one, unless the workshop closes; and in wait_until_closed,     *)
(* which joins the workers.                                                *)
WaitersReturn == /\ idler = "waiting" ~> (idler = "returned" \/ closing)
                 /\ closing ~> \A w \in Workers : worker[w] = Ended
=============================================================================
