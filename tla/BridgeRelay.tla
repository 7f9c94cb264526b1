----------------------------- MODULE BridgeRelay -----------------------------
(***************************************************************************)
(* How a pair of bridges (message_bus/bridge.inl) passes messages from one *)
(* router to another one.  A bridge has a connection to its router, and    *)
(* its standard output is, over a pipe or ssh, the standard input of the   *)
(* opposite bridge.  Three threads work in each of them: the main thread   *)
(* repeats update(), one thread writes the output and one reads the input. *)
(* They share two double buffers of messages.                              *)
(*                                                                         *)
(* The module follows one direction: from the connection of the near       *)
(* bridge through its main and its output thread into the pipe, and        *)
(* through the input and the main thread of the far bridge into the        *)
(* connection there.  The other direction is the same with the names       *)
(* exchanged.  Messages are numbered in the order in which the near router *)
(* sends them; bytes are counted in units, of which a read takes ReadStep. *)
(*                                                                         *)
(* Definitions named Dev_X are deviations of the definition X that follows *)
(* them, made as a plausible mistake in the code would make them.          *)
(***************************************************************************)
EXTENDS Naturals, Sequences, FiniteSets

CONSTANTS MaxSaid,      \* bound: messages from the near router
          Sizes,        \* bound: the sizes of encoded messages, in units
          ReadStep      \* units per read (256 bytes in scan_until)

ASSUME BridgeAssumption == /\ MaxSaid \in Nat
                           /\ Sizes \subseteq Nat \ {0}
                           /\ ReadStep \in Nat \ {0}

VARIABLES
    said,      \* how many messages the near router sent
    waiting,   \* those in the connection of the near bridge
    back,      \* its _outgoing.back()
    front,     \* its _outgoing.front()
    writer,    \* its output thread: "waiting", "notified", or "writing"
    near,      \* its main thread
    pipe,      \* the units on their way to the far bridge
    source,    \* its _source: units that were read but not popped
    good,      \* FALSE when its input met the end
    inBack,    \* its _incoming.back()
    inFront,   \* its _incoming.front()
    far,       \* its main thread
    relayed,   \* what its connection accepted, by number
    gone,      \* what was too old, handled or refused on the way, by number
    heeded     \* (history) the output thread waited when it was to be notified
               \* of the bye-bye of the near bridge, at first or again

output == <<back, front, writer>>
stream == <<pipe, source, good>>
input == <<inBack, inFront, far>>
fate == <<relayed, gone>>
vars == <<said, waiting, output, near, stream, input, fate, heeded>>

Bye == 0                \* the number of the bye-bye of the near bridge itself
Message == [no : 0..MaxSaid, size : Sizes]
Unit == [no : 0..MaxSaid, last : BOOLEAN]

Init == /\ said = 0
        /\ waiting = <<>> /\ back = <<>> /\ front = <<>>
        /\ writer = "waiting"
        /\ near = "updating"
        /\ pipe = <<>> /\ source = <<>>
        /\ good = TRUE
        /\ inBack = <<>> /\ inFront = <<>>
        /\ far = "updating"
        /\ relayed = <<>>
        /\ gone = {}
        /\ heeded = FALSE

NearRuns == near \notin {"ended", "crashed"}
FarRuns == far \notin {"ended", "crashed"}

(* The near router sends.                                                  *)
Say == /\ said < MaxSaid
       /\ NearRuns
       /\ said' = said + 1
       /\ \E s \in Sizes : waiting' = Append(waiting, [no |-> said + 1, size |-> s])
       /\ UNCHANGED <<output, near, stream, input, fate, heeded>>
-----------------------------------------------------------------------------
(* The main thread of the near bridge.                                     *)

(* _forward_messages, one message of the connection: it is too old, it is  *)
(* special and _handle_special handles it, or it is pushed under the lock. *)
Forward ==
    /\ near \in {"updating", "forwarded", "leaving", "finishing"}
    /\ waiting # <<>>
    /\ waiting' = Tail(waiting)
    /\ \/ /\ gone' = gone \cup {Head(waiting).no}
          /\ UNCHANGED <<back, near>>
       \/ /\ back' = Append(back, Head(waiting))
          /\ near' = IF near \in {"updating", "forwarded"} THEN "forwarded"
                     ELSE "leaving"
          /\ UNCHANGED gone
    /\ UNCHANGED <<said, front, writer, stream, input, relayed, heeded>>

(* notify_output_ready() comes after the messages in each update(), if     *)
(* there were any or not: when nobody waits the notification is lost.      *)
Notified == IF writer = "waiting" THEN "notified" ELSE writer

Dev_Notify == /\ near = "forwarded"
              /\ near' = "updating"
              /\ writer' = Notified
              /\ UNCHANGED <<said, waiting, back, front, stream, input, fate, heeded>>
Notify == /\ near \in {"updating", "forwarded"}
          /\ near' = "updating"
          /\ writer' = Notified
          /\ UNCHANGED <<said, waiting, back, front, stream, input, fate, heeded>>

(* The main loop ends when a signal or a shutdown request comes, when the  *)
(* connection was idle for too long, or a stream is not good any more.     *)
(* say_bye() then pushes the bye-bye and notifies the output thread, ...   *)
SayBye == /\ near = "updating"
          /\ near' = "sleeping"
          /\ \E s \in Sizes : back' = Append(back, [no |-> Bye, size |-> s])
          /\ writer' = Notified
          /\ heeded' = (writer = "waiting")
          /\ UNCHANGED <<said, waiting, front, stream, input, fate>>

(* ... sleeps for a second, whatever the thread does in it, ...            *)
Slept == /\ near = "sleeping"
         /\ near' = "leaving"
         /\ UNCHANGED <<said, waiting, output, stream, input, fate, heeded>>

(* ... and forwards what is in the connection; finish() repeats update()   *)
(* for another second.  Each time the thread is notified.                  *)
Dev_NotifyLast == /\ near \in {"leaving", "finishing"}
                  /\ near' = "finishing"
                  /\ heeded' = (heeded \/ writer = "waiting")
                  /\ UNCHANGED <<said, waiting, output, stream, input, fate>>
NotifyLast == /\ near \in {"leaving", "finishing"}
              /\ near' = "finishing"
              /\ writer' = Notified
              /\ heeded' = (heeded \/ writer = "waiting")
              /\ UNCHANGED <<said, waiting, back, front, stream, input, fate>>

(* The process ends, whatever its threads do.                              *)
End == /\ near = "finishing"
       /\ near' = "ended"
       /\ UNCHANGED <<said, waiting, output, stream, input, fate, heeded>>

Crash == /\ NearRuns
         /\ near' = "crashed"
         /\ UNCHANGED <<said, waiting, output, stream, input, fate, heeded>>
-----------------------------------------------------------------------------
(* The output thread of the near bridge, send_output().                    *)

(* _output_ready.wait() has no predicate: it returns when it was notified, *)
(* or for no reason.  The buffers are swapped under the lock.              *)
Dev_Swap == /\ NearRuns
            /\ front' = back
            /\ back' = front
            /\ writer' = "writing"
            /\ UNCHANGED <<said, waiting, near, stream, input, fate, heeded>>
Swap == /\ NearRuns
        /\ writer \in {"waiting", "notified"}
        /\ front' = back
        /\ back' = front
        /\ writer' = "writing"
        /\ UNCHANGED <<said, waiting, near, stream, input, fate, heeded>>

Line(m) == [i \in 1..m.size |-> [no |-> m.no, last |-> i = m.size]]

(* One message of the front buffer, without the lock: it is dropped when   *)
(* it is too old, or written as a line and flushed.  When the far bridge   *)
(* has ended nobody reads it.                                              *)
Write ==
    /\ NearRuns
    /\ writer = "writing"
    /\ front # <<>>
    /\ front' = Tail(front)
    /\ \/ /\ gone' = gone \cup {Head(front).no}
          /\ UNCHANGED pipe
       \/ /\ pipe' = pipe \o Line(Head(front))
          /\ UNCHANGED gone
    /\ UNCHANGED <<said, waiting, back, writer, near, source, good, input,
                   relayed, heeded>>

Wait == /\ NearRuns
        /\ writer = "writing"
        /\ front = <<>>
        /\ writer' = "waiting"
        /\ UNCHANGED <<said, waiting, back, front, near, stream, input, fate, heeded>>
-----------------------------------------------------------------------------
(* The input thread of the far bridge, recv_input().                       *)

Unread == source \o pipe
Lasts(s) == {i \in DOMAIN s : s[i].last}
FirstLast(s) == CHOOSE i \in Lasts(s) : \A j \in Lasts(s) : i <= j

(* scan_for looks for the end of a line in as many whole steps as it takes *)
(* and istream::read returns only with all the units of a step, or at the  *)
(* end of the input.                                                       *)
Scanned(k) == ((k + ReadStep - 1) \div ReadStep) * ReadStep
MeetsEnd(k) == Scanned(k) > Len(Unread)

(* The line is taken from the source; what was read behind it is kept.     *)
RecvInput ==
    /\ FarRuns
    /\ Lasts(Unread) # {}
    /\ LET k == FirstLast(Unread)
           n == IF MeetsEnd(k) THEN Len(Unread)
                ELSE IF Len(source) > Scanned(k) THEN Len(source) ELSE Scanned(k)
       IN  /\ MeetsEnd(k) => ~NearRuns
           /\ source' = SubSeq(Unread, k + 1, n)
           /\ pipe' = SubSeq(Unread, n + 1, Len(Unread))
           /\ good' = (good /\ ~MeetsEnd(k))
           /\ inBack' = Append(inBack, Unread[k].no)
    /\ UNCHANGED <<said, waiting, output, near, inFront, far, fate, heeded>>

(* The input ends without another line.                                    *)
InputEnds == /\ FarRuns
             /\ ~NearRuns
             /\ Lasts(Unread) = {}
             /\ good
             /\ good' = FALSE
             /\ UNCHANGED <<said, waiting, output, near, pipe, source, input, fate,
                            heeded>>
-----------------------------------------------------------------------------
(* The main thread of the far bridge.                                      *)

(* fetch_messages swaps the buffers under the lock, ...                    *)
Fetch == /\ far \in {"updating", "leaving", "finishing"}
         /\ inFront = <<>>
         /\ inBack # <<>> \/ far = "leaving"
         /\ inFront' = inBack
         /\ inBack' = inFront
         /\ far' = IF far = "leaving" THEN "finishing" ELSE far
         /\ UNCHANGED <<said, waiting, output, near, stream, fate, heeded>>

(* ... and each message is sent to the connection, unless it is too old or *)
(* handled here; if the connection refuses it then it is lost.             *)
ForwardInput ==
    /\ far \in {"updating", "finishing"}
    /\ inFront # <<>>
    /\ inFront' = Tail(inFront)
    /\ \/ /\ gone' = gone \cup {Head(inFront)}
          /\ UNCHANGED relayed
       \/ /\ relayed' = Append(relayed, Head(inFront))
          /\ UNCHANGED gone
    /\ UNCHANGED <<said, waiting, output, near, stream, inBack, far, heeded>>

(* The main loop ends for the same reasons as that of the near bridge.     *)
(* say_bye() sleeps for a second, in which the input thread reads more or  *)
(* does not, and what was read is forwarded, again and again in finish()   *)
(* for another second, until the process ends.                             *)
FarDone == /\ far = "updating"
           /\ inFront = <<>>
           /\ far' = "sleeping"
           /\ UNCHANGED <<said, waiting, output, near, stream, inBack, inFront,
                          fate, heeded>>

FarSlept == /\ far = "sleeping"
            /\ far' = "leaving"
            /\ UNCHANGED <<said, waiting, output, near, stream, inBack, inFront,
                           fate, heeded>>

FarEnd == /\ far = "finishing"
          /\ inFront = <<>>
          /\ far' = "ended"
          /\ UNCHANGED <<said, waiting, output, near, stream, inBack, inFront,
                         fate, heeded>>

FarCrash == /\ FarRuns
            /\ far' = "crashed"
            /\ UNCHANGED <<said, waiting, output, near, stream, inBack, inFront,
                           fate, heeded>>

NearNext == Forward \/ Notify \/ SayBye \/ Slept \/ NotifyLast \/ End \/ Crash
FarNext == Fetch \/ ForwardInput \/ FarDone \/ FarSlept \/ FarEnd \/ FarCrash

Next == Say \/ NearNext \/ Swap \/ Write \/ Wait \/ RecvInput \/ InputEnds \/ FarNext

Spec == Init /\ [][Next]_vars

(* The threads run and the seconds pass.  A main loop does not have to end *)
(* but for the end of the input, nor does wait() have to return for no     *)
(* reason.                                                                 *)
Fairness == /\ WF_vars(Forward) /\ WF_vars(Notify)
            /\ WF_vars(Slept) /\ WF_vars(NotifyLast) /\ WF_vars(End)
            /\ WF_vars(writer = "notified" /\ Swap)
            /\ WF_vars(Write) /\ WF_vars(Wait)
            /\ WF_vars(RecvInput) /\ WF_vars(InputEnds)
            /\ WF_vars(Fetch) /\ WF_vars(ForwardInput)
            /\ WF_vars(~good /\ FarDone) /\ WF_vars(FarSlept) /\ WF_vars(FarEnd)

FairSpec == Spec /\ Fairness
-----------------------------------------------------------------------------
(* All variables have their types: in particular the output thread waits   *)
(* only when it has written its buffer.                                    *)
TypeOK == /\ said \in 0..MaxSaid
          /\ waiting \in Seq(Message) /\ back \in Seq(Message)
          /\ front \in Seq(Message)
          /\ writer \in {"waiting", "notified", "writing"}
          /\ writer # "writing" => front = <<>>
          /\ near \in {"updating", "forwarded", "sleeping", "leaving", "finishing",
                       "ended", "crashed"}
          /\ pipe \in Seq(Unit) /\ source \in Seq(Unit)
          /\ good \in BOOLEAN
          /\ inBack \in Seq(0..MaxSaid) /\ inFront \in Seq(0..MaxSaid)
          /\ far \in {"updating", "sleeping", "leaving", "finishing", "ended",
                      "crashed"}
          /\ relayed \in Seq(0..MaxSaid)
          /\ gone \subseteq 0..said
          /\ heeded \in BOOLEAN

(* All that is on its way, place by place, the farthest first.  What is in *)
(* the pipe or read from it is a message at the last unit of its line.     *)
Taken(s) == [i \in DOMAIN s |-> [no |-> s[i], last |-> TRUE]]
Whole(s) == [i \in DOMAIN s |-> [no |-> s[i].no, last |-> TRUE]]
Places == <<Taken(relayed), Taken(inFront), Taken(inBack), Unread,
            Whole(front), Whole(back), Whole(waiting)>>

Counted(w) == {i \in DOMAIN w : w[i].last /\ w[i].no # Bye}
NumbersIn(w) == {w[i].no : i \in Counted(w)}
InOrder(w) == \A i, j \in Counted(w) : i < j => w[i].no < w[j].no

(* Whatever the threads do to the double buffers, every message that was   *)
(* said is in one place, or was taken out on the way: none is lost or      *)
(* doubled, and none overtakes another one.  (The bye-bye of the bridge    *)
(* itself goes before the messages that it finds in the connection later.) *)
RelayedInOrder ==
    /\ \A k \in DOMAIN Places : InOrder(Places[k])
    /\ \A k, l \in DOMAIN Places :
          k < l => \A m \in NumbersIn(Places[k]), n \in NumbersIn(Places[l]) : m < n
    /\ UNION {NumbersIn(Places[k]) : k \in DOMAIN Places} = (1..said) \ gone

(* The threads are where they can be, and the messages too.                *)
RelayInv == TypeOK /\ RelayedInOrder

(* The input thread waits for more bytes than there are: istream::read     *)
(* blocks until it has a whole step.                                       *)
Short == /\ NearRuns
         /\ \/ Len(Unread) < ReadStep
            \/ \A i \in 1..(Len(Unread) \div ReadStep) * ReadStep : ~Unread[i].last

(* In the end the far router has all messages that were not taken out on   *)
(* the way, but for those that wait in the pipe for bytes to follow them,  *)
(* those that the near bridge had not written when it ended, and those     *)
(* that the far bridge had not read or not fetched when it ended.          *)
EventuallyRelayed ==
    <>[](/\ FarRuns => /\ inFront = <<>> /\ inBack = <<>>
                       /\ Lasts(Unread) # {} => Short
         /\ far = "ended" => inFront = <<>>
         /\ waiting \o front \o back # <<>> => ~NearRuns)

(* A bridge sleeps, notifies and ends without asking if its bye-bye was    *)
(* written.  It was, if the output thread waited at one of the             *)
(* notifications and waits when the bridge ends; then it gets to the far   *)
(* router, unless it is taken out on the way or the far bridge ends before *)
(* it has read or fetched it.                                              *)
ByeHeeded ==
    near = "ended" /\ heeded /\ writer = "waiting"
        ~> \/ Bye \in gone
           \/ \E i \in DOMAIN relayed : relayed[i] = Bye
           \/ ~FarRuns /\ \/ \E i \in DOMAIN Unread : Unread[i].no = Bye
                          \/ \E i \in DOMAIN inBack : inBack[i] = Bye
                          \/ far = "crashed"
=============================================================================
