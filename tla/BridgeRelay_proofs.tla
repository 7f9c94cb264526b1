-------------------------- MODULE BridgeRelay_proofs --------------------------
(***************************************************************************)
(* Proofs about BridgeRelay, for any number of messages, sizes of lines    *)
(* and steps of reading.                                                   *)
(*                                                                         *)
(* The argument: the messages are in seven places one after the other.  A  *)
(* step of a thread takes the beginning of one place away, and puts what   *)
(* counts of it, or nothing, at the end of the place before it (Shifted).  *)
(* A double buffer swaps two neighbouring places of which the farther one  *)
(* is empty, which is a shift of a whole place: here enters that a thread  *)
(* waits, or fetches, only when it has emptied its buffer.                 *)
(***************************************************************************)
EXTENDS BridgeRelay, Integers, SequenceTheorems, WellFoundedInduction, TLAPS

Place == 1..7

(* What RelayedInOrder says of the places, and what they hold.             *)
PlacesInOrder(P) ==
    /\ \A k \in Place : InOrder(P[k])
    /\ \A k, l \in Place :
          k < l => \A m \in NumbersIn(P[k]), n \in NumbersIn(P[l]) : m < n

Held(P) == UNION {NumbersIn(P[k]) : k \in Place}

(* Numbers are numbers.                                                    *)
LEMMA NumbersType ==
    ASSUME NEW w \in Seq(Unit) PROVE NumbersIn(w) \subseteq Nat
<1>1. ASSUME NEW i \in DOMAIN w PROVE w[i].no \in Nat
  <2>1. w[i] \in Unit
    OBVIOUS
  <2> QED
    BY <2>1, BridgeAssumption DEF Unit
<1> QED
  BY <1>1 DEF NumbersIn, Counted

(* Two sequences, one behind the other.                                    *)
LEMMA Joined ==
    ASSUME NEW v \in Seq(Unit), NEW w \in Seq(Unit)
    PROVE  /\ v \o w \in Seq(Unit)
           /\ NumbersIn(v \o w) = NumbersIn(v) \cup NumbersIn(w)
           /\ InOrder(v \o w) <=>
                 /\ InOrder(v) /\ InOrder(w)
                 /\ \A m \in NumbersIn(v), n \in NumbersIn(w) : m < n
<1> DEFINE x == v \o w
           a == Len(v)
           b == Len(w)
<1>1. /\ a \in Nat /\ b \in Nat /\ x \in Seq(Unit)
      /\ DOMAIN v = 1..a /\ DOMAIN w = 1..b /\ DOMAIN x = 1..(a + b)
      /\ \A i \in 1..a : x[i] = v[i]
      /\ \A i \in 1..b : x[a + i] = w[i]
  OBVIOUS
<1> HIDE DEF x, a, b
<1>2. /\ \A i \in Counted(v) : i \in 1..a /\ i \in Counted(x) /\ x[i] = v[i]
      /\ \A i \in Counted(w) : i \in 1..b /\ a + i \in Counted(x) /\ x[a + i] = w[i]
  BY <1>1 DEF Counted
<1>3. ASSUME NEW i \in Counted(x)
      PROVE  \/ i \in Counted(v) /\ x[i] = v[i]
             \/ i - a \in Counted(w) /\ x[i] = w[i - a] /\ i > a
  <2>1. i \in 1..(a + b)
    BY <1>1 DEF Counted
  <2>2. CASE i <= a
    BY <1>1, <1>3, <2>1, <2>2 DEF Counted
  <2>3. CASE i > a
    <3>1. i - a \in 1..b /\ a + (i - a) = i
      BY <1>1, <2>1, <2>3
    <3> QED
      BY <1>1, <1>3, <2>3, <3>1 DEF Counted
  <2> QED
    BY <1>1, <2>1, <2>2, <2>3
<1>4. NumbersIn(x) = NumbersIn(v) \cup NumbersIn(w)
  BY <1>2, <1>3 DEF NumbersIn
<1>5. ASSUME InOrder(x)
      PROVE  /\ InOrder(v) /\ InOrder(w)
             /\ \A m \in NumbersIn(v), n \in NumbersIn(w) : m < n
  <2>1. InOrder(v)
    BY <1>2, <1>5 DEF InOrder
  <2>2. InOrder(w)
    <3>1. ASSUME NEW i \in Counted(w), NEW j \in Counted(w), i < j
          PROVE  w[i].no < w[j].no
      <4>1. a + i < a + j
        BY <1>1, <1>2, <3>1
      <4> QED
        BY <1>2, <1>5, <4>1 DEF InOrder
    <3> QED
      BY <3>1 DEF InOrder
  <2>3. ASSUME NEW i \in Counted(v), NEW j \in Counted(w)
        PROVE  v[i].no < w[j].no
    <3>1. i < a + j
      BY <1>1, <1>2
    <3> QED
      BY <1>2, <1>5, <3>1 DEF InOrder
  <2> QED
    BY <2>1, <2>2, <2>3 DEF NumbersIn
<1>6. ASSUME InOrder(v), InOrder(w),
             \A m \in NumbersIn(v), n \in NumbersIn(w) : m < n
      PROVE  InOrder(x)
  <2> SUFFICES ASSUME NEW i \in Counted(x), NEW j \in Counted(x), i < j
               PROVE  x[i].no < x[j].no
    BY DEF InOrder
  <2>0. i \in Nat /\ j \in Nat
    BY <1>1 DEF Counted
  <2>1. CASE i \in Counted(v) /\ x[i] = v[i]
    <3>1. CASE j \in Counted(v) /\ x[j] = v[j]
      BY <1>6, <2>1, <3>1 DEF InOrder
    <3>2. CASE j - a \in Counted(w) /\ x[j] = w[j - a]
      BY <1>6, <2>1, <3>2 DEF NumbersIn
    <3> QED
      BY <1>3, <3>1, <3>2
  <2>2. CASE i - a \in Counted(w) /\ x[i] = w[i - a] /\ i > a
    <3>1. j - a \in Counted(w) /\ x[j] = w[j - a]
      BY <1>1, <1>2, <1>3, <2>0, <2>2
    <3>2. i - a < j - a
      BY <1>1, <2>0
    <3> QED
      BY <1>6, <2>2, <3>1, <3>2 DEF InOrder
  <2> QED
    BY <1>3, <2>1, <2>2
<1> QED
  BY <1>1, <1>4, <1>5, <1>6 DEF x

(* Nothing, and one unit.                                                  *)
LEMMA Single ==
    /\ NumbersIn(<<>>) = {} /\ InOrder(<<>>)
    /\ \A u \in Unit : /\ InOrder(<<u>>)
                       /\ NumbersIn(<<u>>) = IF u.last /\ u.no # Bye THEN {u.no} ELSE {}
<1>1. NumbersIn(<<>>) = {} /\ InOrder(<<>>)
  BY DEF NumbersIn, InOrder, Counted
<1>2. ASSUME NEW u \in Unit
      PROVE  /\ InOrder(<<u>>)
             /\ NumbersIn(<<u>>) = IF u.last /\ u.no # Bye THEN {u.no} ELSE {}
  <2>1. DOMAIN <<u>> = {1} /\ <<u>>[1] = u
    OBVIOUS
  <2>2. Counted(<<u>>) = IF u.last /\ u.no # Bye THEN {1} ELSE {}
    BY <2>1 DEF Counted
  <2>3. InOrder(<<u>>)
    BY <2>2 DEF InOrder
  <2>4. NumbersIn(<<u>>) = IF u.last /\ u.no # Bye THEN {u.no} ELSE {}
    BY <2>1, <2>2 DEF NumbersIn
  <2> QED
    BY <2>3, <2>4
<1> QED
  BY <1>1, <1>2

(* The beginning x0 of a place goes, and x comes to the end of the place   *)
(* before it: the order stays, and only what was in x0 is gone.            *)
Shifted(P, Q, k, x0, x, rest) ==
    /\ k \in 1..6
    /\ x0 \in Seq(Unit) /\ x \in Seq(Unit) /\ rest \in Seq(Unit)
    /\ \A l \in Place : P[l] \in Seq(Unit)
    /\ P[k + 1] = x0 \o rest /\ Q[k + 1] = rest
    /\ Q[k] = P[k] \o x
    /\ InOrder(x) /\ NumbersIn(x) \subseteq NumbersIn(x0)
    /\ \A l \in Place \ {k, k + 1} : Q[l] = P[l]

(* What is kept by a shift.                                                *)
LEMMA ShiftKeeps ==
    ASSUME NEW P, NEW Q, NEW k, NEW x0, NEW x, NEW rest,
           Shifted(P, Q, k, x0, x, rest), PlacesInOrder(P)
    PROVE  /\ PlacesInOrder(Q)
           /\ Held(Q) = Held(P) \ (NumbersIn(x0) \ NumbersIn(x))
<1>a. /\ k \in 1..6 /\ x0 \in Seq(Unit) /\ x \in Seq(Unit) /\ rest \in Seq(Unit)
      /\ P[k + 1] = x0 \o rest /\ Q[k + 1] = rest /\ Q[k] = P[k] \o x
      /\ InOrder(x) /\ NumbersIn(x) \subseteq NumbersIn(x0)
      /\ \A l \in Place \ {k, k + 1} : Q[l] = P[l]
      /\ \A l \in Place : P[l] \in Seq(Unit)
      /\ k \in Place /\ k + 1 \in Place /\ k < k + 1
  BY DEF Shifted, Place
<1>b. \A l \in Place : NumbersIn(P[l]) \subseteq Nat
  BY <1>a, NumbersType
<1>1. /\ NumbersIn(P[k + 1]) = NumbersIn(x0) \cup NumbersIn(rest)
      /\ InOrder(rest)
      /\ \A m \in NumbersIn(x0), n \in NumbersIn(rest) : m < n
  <2>1. InOrder(P[k + 1])
    BY <1>a DEF PlacesInOrder
  <2> QED
    BY <1>a, <2>1, Joined
<1>2. NumbersIn(Q[k]) = NumbersIn(P[k]) \cup NumbersIn(x)
  BY <1>a, Joined
<1>3. \A m \in NumbersIn(P[k]), n \in NumbersIn(P[k + 1]) : m < n
  BY <1>a DEF PlacesInOrder
<1>4. InOrder(Q[k])
  <2>1. InOrder(P[k]) /\ \A m \in NumbersIn(P[k]), n \in NumbersIn(x) : m < n
    BY <1>a, <1>1, <1>3 DEF PlacesInOrder
  <2> QED
    BY <1>a, <2>1, Joined
<1>5. ASSUME NEW l \in Place PROVE InOrder(Q[l])
  BY <1>a, <1>1, <1>4 DEF PlacesInOrder
<1>6. ASSUME NEW i \in Place, NEW j \in Place, i < j,
             NEW m \in NumbersIn(Q[i]), NEW n \in NumbersIn(Q[j])
      PROVE  m < n
  <2>1. \/ m \in NumbersIn(P[i])
        \/ i = k /\ m \in NumbersIn(x)
    BY <1>a, <1>1, <1>2
  <2>2. \/ n \in NumbersIn(P[j])
        \/ j = k /\ n \in NumbersIn(x)
    BY <1>a, <1>1, <1>2
  <2>3. CASE m \in NumbersIn(P[i]) /\ n \in NumbersIn(P[j])
    BY <1>6, <2>3 DEF PlacesInOrder
  <2>4. CASE i = k /\ m \in NumbersIn(x)
    <3>1. m \in NumbersIn(P[k + 1])
      BY <1>a, <1>1, <2>4
    <3>2. j # k /\ n \in NumbersIn(P[j])
      BY <1>a, <1>6, <2>2, <2>4 DEF Place
    <3>3. CASE j = k + 1
      BY <1>a, <1>1, <1>6, <2>4, <3>3
    <3>4. CASE j # k + 1
      <4>1. k + 1 < j
        BY <1>a, <1>6, <2>4, <3>4 DEF Place
      <4> QED
        BY <1>a, <3>1, <3>2, <4>1 DEF PlacesInOrder
    <3> QED
      BY <3>3, <3>4
  <2>5. CASE j = k /\ n \in NumbersIn(x)
    <3>1. n \in NumbersIn(P[k + 1])
      BY <1>a, <1>1, <2>5
    <3>2. i < k + 1 /\ m \in NumbersIn(P[i])
      BY <1>a, <1>6, <2>1, <2>5 DEF Place
    <3> QED
      BY <1>a, <3>1, <3>2 DEF PlacesInOrder
  <2> QED
    BY <2>1, <2>2, <2>3, <2>4, <2>5
<1>7. PlacesInOrder(Q)
  BY <1>5, <1>6 DEF PlacesInOrder
<1>8. Held(Q) = Held(P) \ (NumbersIn(x0) \ NumbersIn(x))
  <2>1. ASSUME NEW l \in Place, NEW n \in NumbersIn(Q[l])
        PROVE  n \in Held(P) /\ n \notin NumbersIn(x0) \ NumbersIn(x)
    <3>1. n \in Held(P)
      BY <1>a, <1>1, <1>2, <2>1 DEF Held
    <3>2. ASSUME n \in NumbersIn(x0), n \notin NumbersIn(x) PROVE FALSE
      <4>1. n \in NumbersIn(P[k + 1]) /\ n \in Nat
        BY <1>a, <1>b, <1>1, <3>2
      <4>2. CASE l = k + 1
        BY <1>a, <1>1, <2>1, <3>2, <4>1, <4>2
      <4>3. CASE l # k + 1
        <5>1. n \in NumbersIn(P[l])
          BY <1>a, <1>2, <2>1, <3>2, <4>3
        <5>2. l < k + 1 \/ k + 1 < l
          BY <1>a, <4>3 DEF Place
        <5>3. n < n
          BY <1>a, <4>1, <5>1, <5>2 DEF PlacesInOrder
        <5> QED
          BY <4>1, <5>3
      <4> QED
        BY <4>2, <4>3
    <3> QED
      BY <3>1, <3>2
  <2>2. ASSUME NEW l \in Place, NEW n \in NumbersIn(P[l]),
               n \notin NumbersIn(x0) \ NumbersIn(x)
        PROVE  n \in Held(Q)
    <3>1. CASE l = k + 1
      BY <1>a, <1>1, <1>2, <2>2, <3>1 DEF Held
    <3>2. CASE l # k + 1
      BY <1>a, <1>2, <2>2, <3>2 DEF Held
    <3> QED
      BY <3>1, <3>2
  <2> QED
    BY <2>1, <2>2 DEF Held
<1> QED
  BY <1>7, <1>8
-----------------------------------------------------------------------------
(* A message in a buffer, as a unit that counts.                           *)
Mark(n) == [no |-> n, last |-> TRUE]
Number == 0..MaxSaid

(* Buffers of numbers, seen as places.                                     *)
LEMMA TakenFacts ==
    ASSUME NEW s \in Seq(Number)
    PROVE  /\ Taken(s) \in Seq(Unit)
           /\ s = <<>> => Taken(s) = <<>>
           /\ s # <<>> => Taken(s) = <<Mark(Head(s))>> \o Taken(Tail(s))
           /\ \A n \in Number : Taken(Append(s, n)) = Taken(s) \o <<Mark(n)>>
<1>1. ASSUME NEW t \in Seq(Number)
      PROVE  Taken(t) \in Seq(Unit) /\ Len(Taken(t)) = Len(t)
             /\ \A i \in 1..Len(t) : Taken(t)[i] = Mark(t[i])
  <2>1. DOMAIN t = 1..Len(t) /\ Len(t) \in Nat
    OBVIOUS
  <2>2. \A i \in 1..Len(t) : [no |-> t[i], last |-> TRUE] \in Unit
    <3>1. \A i \in 1..Len(t) : t[i] \in Number
      OBVIOUS
    <3> QED
      BY <3>1 DEF Unit, Number
  <2>3. Taken(t) = [i \in 1..Len(t) |-> [no |-> t[i], last |-> TRUE]]
    BY <2>1 DEF Taken
  <2> QED
    BY <2>1, <2>2, <2>3 DEF Mark
<1>2. \A n \in Number : Mark(n) \in Unit
  BY DEF Mark, Unit, Number
<1>3. ASSUME s # <<>> PROVE Taken(s) = <<Mark(Head(s))>> \o Taken(Tail(s))
  <2>1. /\ Tail(s) \in Seq(Number) /\ Len(Tail(s)) \in Nat /\ Head(s) \in Number
        /\ Len(s) = Len(Tail(s)) + 1 /\ Head(s) = s[1]
        /\ \A i \in 1..Len(Tail(s)) : Tail(s)[i] = s[i + 1]
    BY <1>3
  <2>2. /\ <<Mark(Head(s))>> \in Seq(Unit) /\ Len(<<Mark(Head(s))>>) = 1
        /\ <<Mark(Head(s))>>[1] = Mark(Head(s))
    BY <1>2, <2>1
  <2> DEFINE v == <<Mark(Head(s))>>
             w == Taken(Tail(s))
  <2>3. /\ w \in Seq(Unit) /\ Len(w) = Len(Tail(s))
        /\ \A i \in 1..Len(Tail(s)) : w[i] = Mark(Tail(s)[i])
    BY <1>1, <2>1
  <2> HIDE DEF v, w
  <2>4. v \in Seq(Unit) /\ Len(v) = 1 /\ v[1] = Mark(Head(s))
    BY <2>2 DEF v
  <2>5. /\ v \o w \in Seq(Unit) /\ Len(v \o w) = Len(s)
        /\ \A i \in 1..Len(s) : (v \o w)[i] = IF i <= 1 THEN v[i] ELSE w[i - 1]
    <3>1. Len(v) + Len(w) = Len(s) /\ Len(v) = 1
      BY <2>1, <2>3, <2>4
    <3>2. /\ v \o w \in Seq(Unit) /\ Len(v \o w) = Len(v) + Len(w)
          /\ \A i \in 1..Len(v) + Len(w) :
                (v \o w)[i] = IF i <= Len(v) THEN v[i] ELSE w[i - Len(v)]
      BY <2>3, <2>4, ConcatProperties
    <3> QED
      BY <3>1, <3>2
  <2>6. ASSUME NEW i \in 1..Len(s) PROVE (v \o w)[i] = Mark(s[i])
    <3>1. CASE i = 1
      BY <2>1, <2>4, <2>5, <3>1
    <3>2. CASE i # 1
      <4>1. i - 1 \in 1..Len(Tail(s)) /\ (i - 1) + 1 = i
        BY <2>1, <3>2
      <4>2. w[i - 1] = Mark(s[i])
        BY <2>1, <2>3, <4>1
      <4> QED
        BY <2>5, <3>2, <4>2
    <3> QED
      BY <3>1, <3>2
  <2>7. Taken(s) \in Seq(Unit) /\ Len(Taken(s)) = Len(s)
        /\ \A i \in 1..Len(s) : Taken(s)[i] = Mark(s[i])
    BY <1>1
  <2>8. Taken(s) = v \o w
    BY <2>5, <2>6, <2>7, SeqEqual
  <2> QED
    BY <2>8 DEF v, w
<1>4. ASSUME NEW n \in Number
      PROVE  Taken(Append(s, n)) = Taken(s) \o <<Mark(n)>>
  <2> DEFINE t == Append(s, n)
             v == Taken(s)
             w == <<Mark(n)>>
  <2>1. /\ t \in Seq(Number) /\ Len(t) = Len(s) + 1 /\ t[Len(s) + 1] = n
        /\ \A i \in 1..Len(s) : t[i] = s[i]
    OBVIOUS
  <2>2. w \in Seq(Unit) /\ Len(w) = 1 /\ w[1] = Mark(n)
    BY <1>2
  <2> HIDE DEF t, v, w
  <2>3. /\ v \in Seq(Unit) /\ Len(v) = Len(s)
        /\ \A i \in 1..Len(s) : v[i] = Mark(s[i])
    BY <1>1 DEF v
  <2>4. /\ Taken(t) \in Seq(Unit) /\ Len(Taken(t)) = Len(t)
        /\ \A i \in 1..Len(t) : Taken(t)[i] = Mark(t[i])
    BY <1>1, <2>1
  <2>5. /\ v \o w \in Seq(Unit) /\ Len(v \o w) = Len(t)
        /\ \A i \in 1..Len(t) : (v \o w)[i] = IF i <= Len(s) THEN v[i] ELSE w[i - Len(s)]
    <3>1. Len(v) + Len(w) = Len(t) /\ Len(v) = Len(s)
      BY <2>1, <2>2, <2>3
    <3>2. /\ v \o w \in Seq(Unit) /\ Len(v \o w) = Len(v) + Len(w)
          /\ \A i \in 1..Len(v) + Len(w) :
                (v \o w)[i] = IF i <= Len(v) THEN v[i] ELSE w[i - Len(v)]
      BY <2>2, <2>3, ConcatProperties
    <3> QED
      BY <3>1, <3>2
  <2>6. ASSUME NEW i \in 1..Len(t) PROVE (v \o w)[i] = Mark(t[i])
    <3>1. CASE i <= Len(s)
      BY <2>1, <2>3, <2>5, <3>1
    <3>2. CASE i = Len(s) + 1
      BY <2>1, <2>2, <2>5, <3>2
    <3>3. i <= Len(s) \/ i = Len(s) + 1
      BY <2>1
    <3> QED
      BY <3>1, <3>2, <3>3
  <2>7. Taken(t) = v \o w
    BY <2>4, <2>5, <2>6, SeqEqual
  <2> QED
    BY <2>7 DEF t, v, w
<1>5. s = <<>> => Taken(s) = <<>>
  BY DEF Taken
<1> QED
  BY <1>1, <1>3, <1>4, <1>5

(* Buffers of messages, seen as places: as those of their numbers.         *)
Numbered(s) == [i \in DOMAIN s |-> s[i].no]

(* Numbered keeps the structure, so that the facts carry over.             *)
LEMMA WholeFacts ==
    ASSUME NEW s \in Seq(Message)
    PROVE  /\ Whole(s) \in Seq(Unit)
           /\ s = <<>> => Whole(s) = <<>>
           /\ s # <<>> => Whole(s) = <<Mark(Head(s).no)>> \o Whole(Tail(s))
           /\ \A m \in Message : Whole(Append(s, m)) = Whole(s) \o <<Mark(m.no)>>
<1>1. ASSUME NEW t \in Seq(Message)
      PROVE  /\ Numbered(t) \in Seq(Number) /\ Len(Numbered(t)) = Len(t)
             /\ \A i \in 1..Len(t) : Numbered(t)[i] = t[i].no
             /\ Whole(t) = Taken(Numbered(t))
  <2>1. DOMAIN t = 1..Len(t) /\ Len(t) \in Nat
    OBVIOUS
  <2>2. \A i \in 1..Len(t) : t[i].no \in Number
    <3>1. \A i \in 1..Len(t) : t[i] \in Message
      OBVIOUS
    <3> QED
      BY <3>1 DEF Message, Number
  <2>3. Numbered(t) = [i \in 1..Len(t) |-> t[i].no]
    BY <2>1 DEF Numbered
  <2>4. /\ Numbered(t) \in Seq(Number) /\ Len(Numbered(t)) = Len(t)
        /\ DOMAIN Numbered(t) = DOMAIN t
    BY <2>1, <2>2, <2>3
  <2>5. Whole(t) = Taken(Numbered(t))
    BY <2>1, <2>3, <2>4 DEF Whole, Taken
  <2> QED
    BY <2>3, <2>4, <2>5
<1>2. ASSUME s # <<>> PROVE Whole(s) = <<Mark(Head(s).no)>> \o Whole(Tail(s))
  <2>1. /\ Tail(s) \in Seq(Message) /\ Head(s) = s[1]
        /\ Len(s) = Len(Tail(s)) + 1 /\ Len(Tail(s)) \in Nat
        /\ \A i \in 1..Len(Tail(s)) : Tail(s)[i] = s[i + 1]
    BY <1>2
  <2> DEFINE n == Numbered(s)
             r == Numbered(Tail(s))
  <2>2. n \in Seq(Number) /\ Len(n) = Len(s) /\ \A i \in 1..Len(s) : n[i] = s[i].no
    BY <1>1
  <2>3. /\ r \in Seq(Number) /\ Len(r) = Len(Tail(s))
        /\ \A i \in 1..Len(Tail(s)) : r[i] = Tail(s)[i].no
    BY <1>1, <2>1
  <2> HIDE DEF n, r
  <2>4. n # <<>> /\ Head(n) = Head(s).no
    BY <2>1, <2>2
  <2>5. /\ Tail(n) \in Seq(Number) /\ Len(Tail(n)) = Len(r)
        /\ \A i \in 1..Len(r) : Tail(n)[i] = n[i + 1]
    BY <2>1, <2>2, <2>3, <2>4
  <2>6. ASSUME NEW i \in 1..Len(r) PROVE Tail(n)[i] = r[i]
    <3>1. i \in 1..Len(Tail(s)) /\ i + 1 \in 1..Len(s)
      BY <2>1, <2>3
    <3> QED
      BY <2>1, <2>2, <2>3, <2>5, <3>1
  <2>7. Tail(n) = r
    BY <2>3, <2>5, <2>6, SeqEqual
  <2>8. Taken(n) = <<Mark(Head(n))>> \o Taken(Tail(n))
    BY <2>2, <2>4, TakenFacts
  <2>9. Whole(s) = Taken(n) /\ Whole(Tail(s)) = Taken(r)
    BY <1>1, <2>1 DEF n, r
  <2> QED
    BY <2>4, <2>7, <2>8, <2>9
<1>3. ASSUME NEW m \in Message PROVE Whole(Append(s, m)) = Whole(s) \o <<Mark(m.no)>>
  <2>1. /\ Append(s, m) \in Seq(Message) /\ Len(Append(s, m)) = Len(s) + 1
        /\ Append(s, m)[Len(s) + 1] = m
        /\ \A i \in 1..Len(s) : Append(s, m)[i] = s[i]
    OBVIOUS
  <2>2. m.no \in Number
    BY DEF Message, Number
  <2> DEFINE n == Numbered(s)
             a == Numbered(Append(s, m))
             b == Append(n, m.no)
  <2>3. n \in Seq(Number) /\ Len(n) = Len(s) /\ \A i \in 1..Len(s) : n[i] = s[i].no
    BY <1>1
  <2>4. /\ a \in Seq(Number) /\ Len(a) = Len(s) + 1
        /\ \A i \in 1..(Len(s) + 1) : a[i] = Append(s, m)[i].no
    BY <1>1, <2>1
  <2> HIDE DEF n, a
  <2>5. /\ b \in Seq(Number) /\ Len(b) = Len(s) + 1 /\ b[Len(s) + 1] = m.no
        /\ \A i \in 1..Len(s) : b[i] = n[i]
    BY <2>2, <2>3
  <2> HIDE DEF b
  <2>6. ASSUME NEW i \in 1..Len(a) PROVE a[i] = b[i]
    <3>1. CASE i \in 1..Len(s)
      BY <2>1, <2>3, <2>4, <2>5, <3>1
    <3>2. CASE i = Len(s) + 1
      BY <2>1, <2>4, <2>5, <3>2
    <3> QED
      BY <2>4, <3>1, <3>2
  <2>7. a = b
    BY <2>4, <2>5, <2>6, SeqEqual
  <2>8. Taken(b) = Taken(n) \o <<Mark(m.no)>>
    BY <2>2, <2>3, TakenFacts DEF b
  <2>9. Whole(s) = Taken(n) /\ Whole(Append(s, m)) = Taken(a)
    BY <1>1, <2>1 DEF n, a
  <2> QED
    BY <2>7, <2>8, <2>9
<1>4. Whole(s) \in Seq(Unit)
  BY <1>1, TakenFacts
<1>5. s = <<>> => Whole(s) = <<>>
  BY DEF Whole
<1> QED
  BY <1>2, <1>3, <1>4, <1>5

(* A line that is written has the number of its message, once.             *)
LEMMA LineFacts ==
    ASSUME NEW m \in Message
    PROVE  /\ Line(m) \in Seq(Unit) /\ InOrder(Line(m))
           /\ NumbersIn(Line(m)) = {m.no} \ {Bye}
<1>1. m.no \in Number /\ m.size \in Nat \ {0}
  BY BridgeAssumption DEF Message, Number
<1>2. /\ DOMAIN Line(m) = 1..m.size
      /\ \A i \in 1..m.size : Line(m)[i] = [no |-> m.no, last |-> i = m.size]
  BY DEF Line
<1>3. Line(m) \in Seq(Unit)
  <2>1. \A i \in 1..m.size : [no |-> m.no, last |-> i = m.size] \in Unit
    BY <1>1 DEF Unit, Number
  <2> QED
    BY <1>1, <2>1 DEF Line
<1>4. Counted(Line(m)) = IF m.no = Bye THEN {} ELSE {m.size}
  <2>1. ASSUME NEW i \in 1..m.size PROVE Line(m)[i].last <=> i = m.size
    <3>1. i = m.size => Line(m)[i] = [no |-> m.no, last |-> TRUE]
      BY <1>2, Zenon
    <3>2. i # m.size => Line(m)[i] = [no |-> m.no, last |-> FALSE]
      BY <1>2, Zenon
    <3> QED
      BY <3>1, <3>2
  <2>2. ASSUME NEW i \in 1..m.size PROVE Line(m)[i].no = m.no
    <3>1. Line(m)[i] = [no |-> m.no, last |-> i = m.size]
      BY <1>2
    <3>2. [no |-> m.no, last |-> i = m.size].no = m.no
      OBVIOUS
    <3> QED
      BY <3>1, <3>2, Zenon
  <2>3. m.size \in 1..m.size
    BY <1>1
  <2> QED
    BY <1>2, <2>1, <2>2, <2>3 DEF Counted
<1>5. InOrder(Line(m))
  BY <1>1, <1>4 DEF InOrder
<1>6. NumbersIn(Line(m)) = {m.no} \ {Bye}
  <2>1. m.size \in 1..m.size
    BY <1>1
  <2>2. Line(m)[m.size].no = m.no
    <3>1. Line(m)[m.size] = [no |-> m.no, last |-> TRUE]
      BY <1>2, <2>1, Zenon
    <3> QED
      BY <3>1
  <2> QED
    BY <1>4, <2>2 DEF NumbersIn
<1> QED
  BY <1>3, <1>5, <1>6

(* A step of reading takes in a whole line.                                *)
LEMMA ScannedFacts == ASSUME NEW k \in Nat PROVE Scanned(k) \in Nat /\ Scanned(k) >= k
<1> DEFINE d == (k + ReadStep - 1) \div ReadStep
<1>1. ReadStep \in Nat \ {0}
  BY BridgeAssumption
<1>2. d \in Nat /\ k + ReadStep - 1 < ReadStep * d + ReadStep
  BY <1>1, Z3
<1>3. Scanned(k) = d * ReadStep
  BY DEF Scanned
<1> HIDE DEF d
<1>4. d * ReadStep = ReadStep * d /\ ReadStep * d \in Nat
  BY <1>1, <1>2
<1> QED
  BY <1>1, <1>2, <1>3, <1>4
-----------------------------------------------------------------------------
(* The places are sequences of units.                                      *)
LEMMA PlacesType ==
    ASSUME TypeOK PROVE \A l \in Place : Places[l] \in Seq(Unit)
<1>1. /\ Taken(relayed) \in Seq(Unit) /\ Taken(inFront) \in Seq(Unit)
      /\ Taken(inBack) \in Seq(Unit)
  BY TakenFacts DEF TypeOK, Number
<1>2. /\ Whole(front) \in Seq(Unit) /\ Whole(back) \in Seq(Unit)
      /\ Whole(waiting) \in Seq(Unit)
  BY WholeFacts DEF TypeOK
<1>3. Unread \in Seq(Unit)
  BY Joined DEF TypeOK, Unread
<1> QED
  BY <1>1, <1>2, <1>3 DEF Place, Places

(* RelayedInOrder in terms of the places, ...                              *)
LEMMA OrderOf ==
    ASSUME RelayedInOrder
    PROVE  PlacesInOrder(Places) /\ Held(Places) = (1..said) \ gone
<1>1. DOMAIN Places = Place
  BY DEF Places, Place
<1>2. PlacesInOrder(Places)
  BY <1>1 DEF RelayedInOrder, PlacesInOrder
<1>3. Held(Places) = (1..said) \ gone
  BY <1>1 DEF RelayedInOrder, Held
<1> QED
  BY <1>2, <1>3

(* ... after a step.                                                       *)
LEMMA OrderAfter ==
    ASSUME PlacesInOrder(Places'), Held(Places') = (1..said') \ gone'
    PROVE  RelayedInOrder'
<1>1. DOMAIN Places' = Place
  BY DEF Places, Place
<1> QED
  BY <1>1 DEF RelayedInOrder, PlacesInOrder, Held

(* A step that shifts what is on its way and takes nothing else out.       *)
LEMMA StepShift ==
    ASSUME TypeOK, RelayedInOrder, NEW k, NEW x0, NEW x, NEW rest,
           Shifted(Places, Places', k, x0, x, rest), said' = said,
           \/ gone' = gone /\ NumbersIn(x0) \subseteq NumbersIn(x)
           \/ \E n \in Nat : /\ gone' = gone \cup {n}
                             /\ NumbersIn(x) = {} /\ NumbersIn(x0) = {n} \ {Bye}
    PROVE  RelayedInOrder' /\ gone' \subseteq 0..said'
<1> DEFINE out == NumbersIn(x0) \ NumbersIn(x)
<1>1. PlacesInOrder(Places) /\ Held(Places) = (1..said) \ gone
  BY OrderOf
<1>2. PlacesInOrder(Places') /\ Held(Places') = Held(Places) \ out
  BY <1>1, ShiftKeeps
<1>3. said \in Nat /\ gone \subseteq 0..said
  BY BridgeAssumption DEF TypeOK
<1>4. NumbersIn(x0) \subseteq Held(Places)
  <2>1. k + 1 \in Place /\ x0 \in Seq(Unit) /\ rest \in Seq(Unit)
        /\ Places[k + 1] = x0 \o rest
    BY DEF Shifted, Place
  <2>2. NumbersIn(x0) \subseteq NumbersIn(Places[k + 1])
    BY <2>1, Joined
  <2> QED
    BY <2>1, <2>2 DEF Held
<1> HIDE DEF out
<1>5. (1..said) \ gone' = ((1..said) \ gone) \ out /\ gone' \subseteq 0..said
  <2>1. CASE gone' = gone /\ NumbersIn(x0) \subseteq NumbersIn(x)
    BY <1>3, <2>1 DEF out
  <2>2. ASSUME NEW n \in Nat, gone' = gone \cup {n}, NumbersIn(x) = {},
               NumbersIn(x0) = {n} \ {Bye}
        PROVE  (1..said) \ gone' = ((1..said) \ gone) \ out /\ gone' \subseteq 0..said
    <3>1. out = {n} \ {0}
      BY <2>2 DEF out, Bye
    <3>2. n \in 0..said
      BY <1>1, <1>3, <1>4, <2>2 DEF Bye
    <3>3. 0 \notin 1..said
      OBVIOUS
    <3> QED
      BY <1>3, <2>2, <3>1, <3>2, <3>3
  <2> QED
    BY <2>1, <2>2
<1>6. Held(Places') = (1..said') \ gone'
  BY <1>1, <1>2, <1>5
<1> QED
  BY <1>2, <1>5, <1>6, OrderAfter

(* A step that takes nothing and adds nothing that counts.                 *)
LEMMA StepNeutral ==
    ASSUME TypeOK, RelayedInOrder, said' = said, gone' = gone,
           \A l \in Place : /\ NumbersIn(Places'[l]) = NumbersIn(Places[l])
                            /\ InOrder(Places'[l])
    PROVE  RelayedInOrder' /\ gone' \subseteq 0..said'
<1>1. PlacesInOrder(Places) /\ Held(Places) = (1..said) \ gone
  BY OrderOf
<1>2. PlacesInOrder(Places')
  BY <1>1 DEF PlacesInOrder
<1>3. Held(Places') = Held(Places)
  BY DEF Held
<1> QED
  BY <1>1, <1>2, <1>3, OrderAfter DEF TypeOK

(* A double buffer is swapped: a whole place moves.                        *)
LEMMA StepSwap ==
    ASSUME TypeOK, RelayedInOrder, NEW k \in 1..6, said' = said, gone' = gone,
           Places[k] = <<>>, Places'[k] = Places[k + 1], Places'[k + 1] = <<>>,
           \A l \in Place \ {k, k + 1} : Places'[l] = Places[l]
    PROVE  RelayedInOrder' /\ gone' \subseteq 0..said'
<1> DEFINE x == Places[k + 1]
<1>1. k + 1 \in Place /\ x \in Seq(Unit) /\ <<>> \in Seq(Unit)
  BY PlacesType DEF Place
<1>2. InOrder(x)
  BY <1>1, OrderOf DEF PlacesInOrder
<1>3. x = x \o <<>> /\ x = <<>> \o x
  BY <1>1, ConcatEmptySeq
<1> HIDE DEF x
<1>4. Places[k + 1] = x \o <<>> /\ Places'[k] = Places[k] \o x
  BY <1>3 DEF x
<1>5. Shifted(Places, Places', k, x, x, <<>>)
  BY <1>1, <1>2, <1>4, PlacesType DEF Shifted
<1> QED
  BY <1>5, StepShift
-----------------------------------------------------------------------------
(* The places, one by one, before and after a step.                        *)
LEMMA PlacesAre ==
    /\ Places[1] = Taken(relayed) /\ Places'[1] = Taken(relayed')
    /\ Places[2] = Taken(inFront) /\ Places'[2] = Taken(inFront')
    /\ Places[3] = Taken(inBack) /\ Places'[3] = Taken(inBack')
    /\ Places[4] = Unread /\ Places'[4] = Unread'
    /\ Places[5] = Whole(front) /\ Places'[5] = Whole(front')
    /\ Places[6] = Whole(back) /\ Places'[6] = Whole(back')
    /\ Places[7] = Whole(waiting) /\ Places'[7] = Whole(waiting')
  BY DEF Places

(* The unit of a message in a buffer.                                      *)
LEMMA MarkFacts ==
    ASSUME NEW n \in Number
    PROVE  /\ n \in Nat /\ <<Mark(n)>> \in Seq(Unit) /\ InOrder(<<Mark(n)>>)
           /\ NumbersIn(<<Mark(n)>>) = {n} \ {Bye}
<1>1. n \in Nat /\ Mark(n) \in Unit /\ Mark(n).no = n /\ Mark(n).last
  BY BridgeAssumption DEF Mark, Unit, Number
<1>2. InOrder(<<Mark(n)>>)
  BY <1>1, Single
<1>3. NumbersIn(<<Mark(n)>>) = {n} \ {Bye}
  BY <1>1, Single
<1> QED
  BY <1>1, <1>2, <1>3

(* A message is said: it comes behind all others.                          *)
LEMMA SayInv == ASSUME RelayInv, Say PROVE RelayInv'
<1>1. TypeOK /\ RelayedInOrder /\ said \in Nat /\ gone \subseteq 0..said
  BY BridgeAssumption DEF RelayInv, TypeOK
<1>2. PICK s \in Sizes : waiting' = Append(waiting, [no |-> said + 1, size |-> s])
  BY DEF Say
<1> DEFINE m == [no |-> said + 1, size |-> s]
           n == said + 1
<1>3. m \in Message /\ n \in Number /\ m.no = n
  BY <1>1, BridgeAssumption DEF Message, Number, TypeOK, Say
<1>4. TypeOK'
  <2>1. waiting' \in Seq(Message)
    BY <1>1, <1>2, <1>3 DEF TypeOK
  <2>2. said' \in 0..MaxSaid /\ gone' \subseteq 0..said'
    BY <1>1, BridgeAssumption DEF TypeOK, Say, fate
  <2> QED
    BY <1>1, <2>1, <2>2 DEF TypeOK, Say, output, stream, input, fate
<1> HIDE DEF m
<1>5. Whole(waiting') = Whole(waiting) \o <<Mark(n)>>
  BY <1>1, <1>2, <1>3, WholeFacts DEF TypeOK, m
<1>6. /\ Places'[7] = Places[7] \o <<Mark(n)>>
      /\ \A l \in Place : l # 7 => Places'[l] = Places[l]
  <2>1. Places'[7] = Places[7] \o <<Mark(n)>>
    BY <1>5, PlacesAre
  <2>2. UNCHANGED <<relayed, inFront, inBack, front, back>> /\ Unread' = Unread
    BY DEF Say, output, stream, input, fate, Unread
  <2>3. ASSUME NEW l \in Place, l # 7 PROVE Places'[l] = Places[l]
    <3>1. l \in {1, 2, 3, 4, 5, 6}
      BY <2>3 DEF Place
    <3> QED
      BY <2>2, <3>1, PlacesAre
  <2> QED
    BY <2>1, <2>3
<1>7. PlacesInOrder(Places) /\ Held(Places) = (1..said) \ gone
  BY <1>1, OrderOf
<1>8. /\ <<Mark(n)>> \in Seq(Unit) /\ InOrder(<<Mark(n)>>)
      /\ NumbersIn(<<Mark(n)>>) = {n}
  <2>1. n # Bye
    BY <1>1 DEF Bye
  <2> QED
    BY <1>3, <2>1, MarkFacts
<1>9. ASSUME NEW l \in Place, NEW i \in NumbersIn(Places[l]) PROVE i < n
  <2>1. i \in 1..said
    BY <1>7, <1>9 DEF Held
  <2> QED
    BY <1>1, <2>1
<1>10. /\ NumbersIn(Places'[7]) = NumbersIn(Places[7]) \cup {n}
       /\ InOrder(Places'[7])
  <2>1. Places[7] \in Seq(Unit) /\ InOrder(Places[7]) /\ 7 \in Place
    BY <1>1, <1>7, PlacesType DEF PlacesInOrder, Place
  <2>2. \A i \in NumbersIn(Places[7]), j \in NumbersIn(<<Mark(n)>>) : i < j
    BY <1>8, <1>9, <2>1
  <2> DEFINE v == <<Mark(n)>>
  <2> HIDE DEF v
  <2>3. /\ v \in Seq(Unit) /\ InOrder(v) /\ NumbersIn(v) = {n}
        /\ Places'[7] = Places[7] \o v
        /\ \A i \in NumbersIn(Places[7]), j \in NumbersIn(v) : i < j
    BY <1>6, <1>8, <2>2 DEF v
  <2> QED
    BY <2>1, <2>3, Joined
<1>11. PlacesInOrder(Places')
  <2>1. \A l \in Place : InOrder(Places'[l])
    BY <1>6, <1>7, <1>10 DEF PlacesInOrder
  <2>2. ASSUME NEW i \in Place, NEW j \in Place, i < j,
               NEW a \in NumbersIn(Places'[i]), NEW b \in NumbersIn(Places'[j])
        PROVE  a < b
    <3>1. i # 7
      BY <2>2 DEF Place
    <3>2. a \in NumbersIn(Places[i])
      BY <1>6, <2>2, <3>1
    <3>3. b \in NumbersIn(Places[j]) \/ b = n
      BY <1>6, <1>10, <2>2
    <3> QED
      BY <1>7, <1>9, <2>2, <3>2, <3>3 DEF PlacesInOrder
  <2> QED
    BY <2>1, <2>2 DEF PlacesInOrder
<1>12. Held(Places') = Held(Places) \cup {n}
  <2>1. 7 \in Place
    BY DEF Place
  <2>2. \A l \in Place : l # 7 => NumbersIn(Places'[l]) = NumbersIn(Places[l])
    BY <1>6
  <2>3. \A l \in Place : NumbersIn(Places'[l]) \subseteq Held(Places) \cup {n}
    BY <1>10, <2>2 DEF Held
  <2>4. \A l \in Place : NumbersIn(Places[l]) \subseteq Held(Places')
    BY <1>10, <2>1, <2>2 DEF Held
  <2>5. n \in Held(Places')
    BY <1>10, <2>1 DEF Held
  <2> QED
    BY <2>3, <2>4, <2>5 DEF Held
<1>13. Held(Places') = (1..said') \ gone'
  <2>1. said' = said + 1 /\ gone' = gone
    BY DEF Say, fate
  <2>2. 1..(said + 1) = (1..said) \cup {said + 1} /\ said + 1 \notin gone
    BY <1>1
  <2> QED
    BY <1>7, <1>12, <2>1, <2>2
<1> QED
  BY <1>4, <1>11, <1>13, OrderAfter DEF RelayInv

(* The near main thread moves a message into the buffer, or takes it out.  *)
LEMMA ForwardInv == ASSUME RelayInv, Forward PROVE RelayInv'
<1>1. TypeOK /\ RelayedInOrder /\ waiting \in Seq(Message) /\ waiting # <<>>
      /\ back \in Seq(Message)
  BY DEF RelayInv, TypeOK, Forward
<1> DEFINE n == Head(waiting).no
           u == <<Mark(n)>>
<1>2. /\ Head(waiting) \in Message /\ n \in Number /\ waiting' = Tail(waiting)
      /\ Tail(waiting) \in Seq(Message)
  <2>1. Head(waiting) \in Message /\ Tail(waiting) \in Seq(Message)
    BY <1>1
  <2> QED
    BY <2>1 DEF Forward, Message, Number
<1>3. Whole(waiting) = u \o Whole(waiting')
  BY <1>1, <1>2, WholeFacts
<1> HIDE DEF n
<1>4. u \in Seq(Unit) /\ NumbersIn(u) = {n} \ {Bye} /\ InOrder(u) /\ n \in Nat
  BY <1>2, MarkFacts
<1>5. /\ Places[7] = u \o Whole(waiting') /\ Places'[7] = Whole(waiting')
      /\ Places[6] = Whole(back) /\ Places'[6] = Whole(back')
      /\ \A l \in Place \ {6, 7} : Places'[l] = Places[l]
  <2>2. UNCHANGED <<relayed, inFront, inBack, front>> /\ Unread' = Unread
    BY DEF Forward, stream, input, Unread
  <2>3. ASSUME NEW l \in Place \ {6, 7} PROVE Places'[l] = Places[l]
    <3>1. l \in {1, 2, 3, 4, 5}
      BY DEF Place
    <3> QED
      BY <2>2, <3>1, PlacesAre
  <2> QED
    BY <1>3, <2>3, PlacesAre
<1>6. Whole(waiting') \in Seq(Unit) /\ Whole(back) \in Seq(Unit)
  BY <1>1, <1>2, WholeFacts
<1> HIDE DEF u
<1>7. RelayedInOrder' /\ gone' \subseteq 0..said'
  <2>1. CASE gone' = gone \cup {n} /\ UNCHANGED back
    <3>1. Places'[6] = Places[6] \o <<>>
      BY <1>5, <1>6, <2>1, ConcatEmptySeq
    <3>2. Shifted(Places, Places', 6, u, <<>>, Whole(waiting'))
      BY <1>1, <1>4, <1>5, <1>6, <3>1, PlacesType, Single DEF Shifted
    <3>3. said' = said
      BY DEF Forward
    <3> QED
      BY <1>1, <1>4, <2>1, <3>2, <3>3, StepShift, Single
  <2>2. CASE back' = Append(back, Head(waiting)) /\ UNCHANGED gone
    <3>1. Places'[6] = Places[6] \o u
      BY <1>1, <1>2, <1>5, <2>2, WholeFacts DEF u, n
    <3>2. Shifted(Places, Places', 6, u, u, Whole(waiting'))
      BY <1>1, <1>4, <1>5, <1>6, <3>1, PlacesType DEF Shifted
    <3>3. said' = said
      BY DEF Forward
    <3> QED
      BY <1>1, <2>2, <3>2, <3>3, StepShift
  <2> QED
    BY <2>1, <2>2 DEF Forward, n
<1>8. TypeOK'
  <2>1. back' \in Seq(Message) /\ waiting' \in Seq(Message)
    BY <1>1, <1>2 DEF Forward
  <2>2. near' \in {"updating", "forwarded", "leaving", "finishing"}
    BY DEF Forward
  <2> QED
    BY <1>1, <1>7, <2>1, <2>2 DEF TypeOK, Forward, stream, input
<1> QED
  BY <1>7, <1>8 DEF RelayInv

(* A message of the front buffer is written, or taken out.                 *)
LEMMA WriteInv == ASSUME RelayInv, Write PROVE RelayInv'
<1>1. TypeOK /\ RelayedInOrder /\ front \in Seq(Message) /\ front # <<>>
      /\ pipe \in Seq(Unit) /\ source \in Seq(Unit)
  BY DEF RelayInv, TypeOK, Write
<1> DEFINE m == Head(front)
           u == <<Mark(m.no)>>
<1>2. /\ m \in Message /\ m.no \in Number /\ front' = Tail(front)
      /\ Tail(front) \in Seq(Message)
  <2>1. m \in Message /\ Tail(front) \in Seq(Message)
    BY <1>1
  <2> QED
    BY <2>1 DEF Write, Message, Number
<1>3. Whole(front) = u \o Whole(front')
  BY <1>1, <1>2, WholeFacts
<1> HIDE DEF m
<1>4. u \in Seq(Unit) /\ NumbersIn(u) = {m.no} \ {Bye} /\ m.no \in Nat
  BY <1>2, MarkFacts
<1>5. /\ Places[5] = u \o Whole(front') /\ Places'[5] = Whole(front')
      /\ Places[4] = Unread /\ Places'[4] = Unread'
      /\ \A l \in Place \ {4, 5} : Places'[l] = Places[l]
  BY <1>3, PlacesAre DEF Place, Write, input
<1>6. Whole(front') \in Seq(Unit) /\ Unread \in Seq(Unit)
  BY <1>1, <1>2, WholeFacts, Joined DEF Unread
<1> HIDE DEF u
<1>7. RelayedInOrder' /\ gone' \subseteq 0..said'
  <2>1. CASE gone' = gone \cup {m.no} /\ UNCHANGED pipe
    <3>1. Places'[4] = Places[4] \o <<>>
      BY <1>5, <1>6, <2>1, ConcatEmptySeq DEF Write, Unread
    <3>2. Shifted(Places, Places', 4, u, <<>>, Whole(front'))
      BY <1>1, <1>4, <1>5, <1>6, <3>1, PlacesType, Single DEF Shifted
    <3>3. said' = said
      BY DEF Write
    <3> QED
      BY <1>1, <1>4, <2>1, <3>2, <3>3, StepShift, Single
  <2>2. CASE pipe' = pipe \o Line(m) /\ UNCHANGED gone
    <3>0. Line(m) \in Seq(Unit) /\ InOrder(Line(m)) /\ NumbersIn(Line(m)) = NumbersIn(u)
      BY <1>2, <1>4, LineFacts
    <3>1. Places'[4] = Places[4] \o Line(m)
      <4> DEFINE v == Line(m)
      <4> HIDE DEF v
      <4>0. v \in Seq(Unit)
        BY <3>0 DEF v
      <4>1. source \o (pipe \o v) = (source \o pipe) \o v
        BY <1>1, <4>0, ConcatAssociative
      <4> QED
        BY <1>5, <2>2, <4>1 DEF Write, Unread, v
    <3>2. Shifted(Places, Places', 4, u, Line(m), Whole(front'))
      BY <1>1, <1>4, <1>5, <1>6, <3>0, <3>1, PlacesType DEF Shifted
    <3>3. said' = said
      BY DEF Write
    <3> QED
      BY <1>1, <2>2, <3>0, <3>2, <3>3, StepShift
  <2> QED
    BY <2>1, <2>2 DEF Write, m
<1>8. TypeOK'
  <2>1. front' \in Seq(Message)
    BY <1>2
  <2>2. pipe' \in Seq(Unit)
    <3>1. pipe \o Line(m) \in Seq(Unit)
      BY <1>1, <1>2, LineFacts, Joined
    <3> QED
      BY <1>1, <3>1 DEF Write, m
  <2> QED
    BY <1>1, <1>7, <2>1, <2>2 DEF TypeOK, Write, input
<1> QED
  BY <1>7, <1>8 DEF RelayInv
(* What is read has a first line, if there is the end of one.              *)
LEMMA FirstExists ==
    ASSUME NEW w \in Seq(Unit), Lasts(w) # {}
    PROVE  FirstLast(w) \in Lasts(w) /\ \A j \in Lasts(w) : FirstLast(w) <= j
<1>1. Lasts(w) \subseteq Nat
  BY DEF Lasts
<1>2. PICK i \in Lasts(w) : \A j \in Lasts(w) : ~ (<<j, i>> \in OpToRel(<, Nat))
  BY <1>1, NatLessThanWellFounded, WFMin, Zenon
<1>3. \A j \in Lasts(w) : ~ (j < i)
  BY <1>1, <1>2 DEF OpToRel
<1>4. \A j \in Lasts(w) : i <= j
  BY <1>1, <1>3
<1> QED
  BY <1>4, Zenon DEF FirstLast

(* The first line of what is read, and what is behind it.                  *)
LEMMA FirstLine ==
    ASSUME NEW w \in Seq(Unit), Lasts(w) # {}, NEW k, k = FirstLast(w)
    PROVE  /\ k \in 1..Len(w) /\ w[k].no \in Number
           /\ SubSeq(w, 1, k) \in Seq(Unit) /\ SubSeq(w, k + 1, Len(w)) \in Seq(Unit)
           /\ w = SubSeq(w, 1, k) \o SubSeq(w, k + 1, Len(w))
           /\ NumbersIn(SubSeq(w, 1, k)) = {w[k].no} \ {Bye}
<1>1. k \in 1..Len(w) /\ w[k].last /\ \A j \in 1..Len(w) : w[j].last => k <= j
  BY FirstExists DEF Lasts
<1>2. \A j \in 1..Len(w) : w[j] \in Unit
  OBVIOUS
<1>3. w[k].no \in Number
  BY <1>1, <1>2 DEF Unit, Number
<1> DEFINE x == SubSeq(w, 1, k)
           r == SubSeq(w, k + 1, Len(w))
<1>4. x \in Seq(Unit) /\ Len(x) = k /\ \A i \in 1..k : x[i] = w[i]
  BY <1>1
<1>5. r \in Seq(Unit) /\ Len(r) = Len(w) - k /\ \A i \in 1..(Len(w) - k) : r[i] = w[k + i]
  BY <1>1
<1> HIDE DEF x, r
<1>6. w = x \o r
  <2>1. /\ x \o r \in Seq(Unit) /\ Len(x \o r) = Len(x) + Len(r)
        /\ \A i \in 1..Len(x) + Len(r) :
              (x \o r)[i] = IF i <= Len(x) THEN x[i] ELSE r[i - Len(x)]
    BY <1>4, <1>5, ConcatProperties
  <2>2. Len(x) + Len(r) = Len(w) /\ Len(x) = k
    BY <1>1, <1>4, <1>5
  <2>3. /\ Len(x \o r) = Len(w)
        /\ \A i \in 1..Len(w) : (x \o r)[i] = IF i <= k THEN x[i] ELSE r[i - k]
    BY <2>1, <2>2
  <2>4. ASSUME NEW i \in 1..Len(w) PROVE w[i] = (x \o r)[i]
    <3>1. CASE i <= k
      <4>1. i \in 1..k
        BY <1>1, <3>1
      <4> QED
        BY <1>4, <2>3, <3>1, <4>1
    <3>2. CASE i > k
      <4>1. i - k \in 1..(Len(w) - k) /\ k + (i - k) = i /\ ~ (i <= k)
        BY <1>1, <3>2
      <4> QED
        BY <1>5, <2>3, <4>1
    <3>3. i \in Int /\ k \in Int
      BY <1>1
    <3>4. i <= k \/ i > k
      BY <3>3
    <3> QED
      BY <3>1, <3>2, <3>4
  <2> QED
    BY <2>1, <2>3, <2>4, SeqEqual
<1>7. NumbersIn(x) = {w[k].no} \ {Bye}
  <2>1. DOMAIN x = 1..k /\ k \in 1..k
    BY <1>1, <1>4
  <2>2. \A i \in 1..k : x[i].last <=> i = k
    BY <1>1, <1>4
  <2>3. Counted(x) = IF w[k].no = Bye THEN {} ELSE {k}
    BY <1>4, <2>1, <2>2 DEF Counted
  <2> QED
    BY <1>4, <2>1, <2>3 DEF NumbersIn
<1> QED
  BY <1>1, <1>3, <1>4, <1>5, <1>6, <1>7 DEF x, r

(* Two neighbouring pieces of a sequence are one.                          *)
LEMMA Rejoined ==
    ASSUME NEW w \in Seq(Unit), NEW k \in 0..Len(w), NEW n \in k..Len(w)
    PROVE  /\ SubSeq(w, k + 1, n) \in Seq(Unit) /\ SubSeq(w, n + 1, Len(w)) \in Seq(Unit)
           /\ SubSeq(w, k + 1, n) \o SubSeq(w, n + 1, Len(w)) = SubSeq(w, k + 1, Len(w))
<1> DEFINE a == SubSeq(w, k + 1, n)
           b == SubSeq(w, n + 1, Len(w))
           c == SubSeq(w, k + 1, Len(w))
<1>1. k \in Nat /\ n \in Nat /\ Len(w) \in Nat /\ k <= n /\ n <= Len(w)
  OBVIOUS
<1>2. a \in Seq(Unit) /\ Len(a) = n - k /\ \A i \in 1..(n - k) : a[i] = w[k + i]
  BY <1>1
<1>3. b \in Seq(Unit) /\ Len(b) = Len(w) - n /\ \A i \in 1..(Len(w) - n) : b[i] = w[n + i]
  BY <1>1
<1>4. c \in Seq(Unit) /\ Len(c) = Len(w) - k /\ \A i \in 1..(Len(w) - k) : c[i] = w[k + i]
  BY <1>1
<1> HIDE DEF a, b, c
<1>5. /\ a \o b \in Seq(Unit) /\ Len(a \o b) = Len(a) + Len(b)
      /\ \A i \in 1..Len(a) + Len(b) :
            (a \o b)[i] = IF i <= Len(a) THEN a[i] ELSE b[i - Len(a)]
  BY <1>2, <1>3, ConcatProperties
<1>6. Len(a) + Len(b) = Len(c) /\ Len(a) = n - k /\ Len(c) = Len(w) - k
  BY <1>1, <1>2, <1>3, <1>4
<1>7. /\ Len(a \o b) = Len(c)
      /\ \A i \in 1..Len(c) : (a \o b)[i] = IF i <= n - k THEN a[i] ELSE b[i - (n - k)]
  BY <1>5, <1>6
<1>8. ASSUME NEW i \in 1..Len(c) PROVE (a \o b)[i] = c[i]
  <2>0. i \in 1..(Len(w) - k)
    BY <1>6
  <2>1. CASE i <= n - k
    <3>1. i \in 1..(n - k)
      BY <1>1, <2>0, <2>1
    <3> QED
      BY <1>2, <1>4, <1>7, <2>0, <2>1, <3>1
  <2>2. CASE ~ (i <= n - k)
    <3>1. i - (n - k) \in 1..(Len(w) - n) /\ n + (i - (n - k)) = k + i
      BY <1>1, <2>0, <2>2
    <3> QED
      BY <1>3, <1>4, <1>7, <2>0, <2>2, <3>1
  <2> QED
    BY <2>1, <2>2
<1>9. a \o b = c
  BY <1>4, <1>5, <1>7, <1>8, SeqEqual
<1> QED
  BY <1>2, <1>3, <1>9 DEF a, b, c

(* The far input thread takes a line.                                      *)
LEMMA RecvInv == ASSUME RelayInv, RecvInput PROVE RelayInv'
<1>1. TypeOK /\ RelayedInOrder /\ pipe \in Seq(Unit) /\ source \in Seq(Unit)
      /\ inBack \in Seq(Number)
  BY DEF RelayInv, TypeOK, Number
<1>2. PICK w, k, n :
         /\ w = Unread /\ k = FirstLast(w)
         /\ n = IF MeetsEnd(k) THEN Len(w)
                ELSE IF Len(source) > Scanned(k) THEN Len(source) ELSE Scanned(k)
  OBVIOUS
<1>3. w \in Seq(Unit) /\ Len(w) \in Nat /\ Len(source) \in Nat /\ Len(source) <= Len(w)
  BY <1>1, <1>2, Joined DEF Unread
<1>4. /\ Lasts(w) # {} /\ source' = SubSeq(w, k + 1, n) /\ pipe' = SubSeq(w, n + 1, Len(w))
      /\ inBack' = Append(inBack, w[k].no) /\ good' \in BOOLEAN
      /\ UNCHANGED <<said, waiting, output, near, inFront, far, fate, heeded>>
  BY <1>1, <1>2 DEF RecvInput, TypeOK
<1>5. /\ k \in 1..Len(w) /\ w[k].no \in Number
      /\ SubSeq(w, 1, k) \in Seq(Unit) /\ SubSeq(w, k + 1, Len(w)) \in Seq(Unit)
      /\ w = SubSeq(w, 1, k) \o SubSeq(w, k + 1, Len(w))
      /\ NumbersIn(SubSeq(w, 1, k)) = {w[k].no} \ {Bye}
  BY <1>2, <1>3, <1>4, FirstLine
<1>6. n \in k..Len(w) /\ k \in 0..Len(w)
  <2>1. k \in Nat /\ k <= Len(w)
    BY <1>3, <1>5
  <2>2. Scanned(k) \in Nat /\ Scanned(k) >= k
    BY <2>1, ScannedFacts
  <2>3. MeetsEnd(k) <=> Scanned(k) > Len(w)
    BY <1>2 DEF MeetsEnd
  <2> QED
    BY <1>2, <1>3, <2>1, <2>2, <2>3
<1>7. /\ source' \in Seq(Unit) /\ pipe' \in Seq(Unit)
      /\ Unread' = SubSeq(w, k + 1, Len(w))
  <2>1. Unread' = source' \o pipe'
    BY DEF Unread
  <2> QED
    BY <1>3, <1>4, <1>6, <2>1, Rejoined
<1> DEFINE u == <<Mark(w[k].no)>>
           x == SubSeq(w, 1, k)
           r == SubSeq(w, k + 1, Len(w))
<1>8. u \in Seq(Unit) /\ NumbersIn(u) = NumbersIn(x) /\ InOrder(u)
  BY <1>5, MarkFacts
<1>9. Taken(inBack') = Taken(inBack) \o u
  BY <1>1, <1>4, <1>5, TakenFacts
<1>10. x \in Seq(Unit) /\ r \in Seq(Unit) /\ Unread = x \o r /\ Unread' = r
  BY <1>2, <1>5, <1>7
<1> HIDE DEF u, x, r
<1>11. /\ Places[4] = x \o r /\ Places'[4] = r /\ Places'[3] = Places[3] \o u
       /\ \A l \in Place \ {3, 4} : Places'[l] = Places[l]
  <2>1. UNCHANGED <<relayed, inFront, front, back, waiting>>
    BY <1>4 DEF output, fate
  <2>2. ASSUME NEW l \in Place \ {3, 4} PROVE Places'[l] = Places[l]
    <3>1. l \in {1, 2, 5, 6, 7}
      BY DEF Place
    <3> QED
      BY <2>1, <3>1, PlacesAre
  <2> QED
    BY <1>9, <1>10, <2>2, PlacesAre
<1>12. Shifted(Places, Places', 3, x, u, r)
  BY <1>1, <1>8, <1>10, <1>11, PlacesType DEF Shifted
<1>13. RelayedInOrder'
  BY <1>1, <1>4, <1>8, <1>12, StepShift DEF fate
<1>14. TypeOK'
  <2>1. inBack' \in Seq(0..MaxSaid)
    BY <1>1, <1>4, <1>5 DEF Number
  <2> QED
    BY <1>1, <1>4, <1>7, <2>1 DEF TypeOK, output, fate
<1> QED
  BY <1>13, <1>14 DEF RelayInv

(* The far main thread sends a message to its connection, or takes it out. *)
LEMMA ForwardInputInv == ASSUME RelayInv, ForwardInput PROVE RelayInv'
<1>1. TypeOK /\ RelayedInOrder /\ inFront \in Seq(Number) /\ inFront # <<>>
      /\ relayed \in Seq(Number)
  BY DEF RelayInv, TypeOK, ForwardInput, Number
<1> DEFINE n == Head(inFront)
           u == <<Mark(n)>>
<1>2. n \in Number /\ inFront' = Tail(inFront) /\ Tail(inFront) \in Seq(Number)
  BY <1>1 DEF ForwardInput
<1>3. Taken(inFront) = u \o Taken(inFront')
  BY <1>1, <1>2, TakenFacts
<1> HIDE DEF n
<1>4. u \in Seq(Unit) /\ NumbersIn(u) = {n} \ {Bye} /\ InOrder(u) /\ n \in Nat
  BY <1>2, MarkFacts
<1> HIDE DEF u
<1>5. /\ Places[2] = u \o Taken(inFront') /\ Places'[2] = Taken(inFront')
      /\ Places[1] = Taken(relayed) /\ Places'[1] = Taken(relayed')
      /\ \A l \in Place \ {1, 2} : Places'[l] = Places[l]
  <2>1. UNCHANGED <<inBack, front, back, waiting>> /\ Unread' = Unread
    BY DEF ForwardInput, stream, output, Unread
  <2>2. ASSUME NEW l \in Place \ {1, 2} PROVE Places'[l] = Places[l]
    <3>1. l \in {3, 4, 5, 6, 7}
      BY DEF Place
    <3> QED
      BY <2>1, <3>1, PlacesAre
  <2> QED
    BY <1>3, <2>2, PlacesAre
<1>6. Taken(inFront') \in Seq(Unit) /\ Taken(relayed) \in Seq(Unit)
  BY <1>1, <1>2, TakenFacts
<1>7. RelayedInOrder' /\ gone' \subseteq 0..said'
  <2>1. CASE gone' = gone \cup {n} /\ UNCHANGED relayed
    <3>1. Places'[1] = Places[1] \o <<>>
      BY <1>5, <1>6, <2>1, ConcatEmptySeq
    <3>2. Shifted(Places, Places', 1, u, <<>>, Taken(inFront'))
      BY <1>1, <1>4, <1>5, <1>6, <3>1, PlacesType, Single DEF Shifted
    <3>3. said' = said
      BY DEF ForwardInput
    <3> QED
      BY <1>1, <1>4, <2>1, <3>2, <3>3, StepShift, Single
  <2>2. CASE relayed' = Append(relayed, n) /\ UNCHANGED gone
    <3>1. Places'[1] = Places[1] \o u
      BY <1>1, <1>2, <1>5, <2>2, TakenFacts DEF u
    <3>2. Shifted(Places, Places', 1, u, u, Taken(inFront'))
      BY <1>1, <1>4, <1>5, <1>6, <3>1, PlacesType DEF Shifted
    <3>3. said' = said
      BY DEF ForwardInput
    <3> QED
      BY <1>1, <2>2, <3>2, <3>3, StepShift
  <2> QED
    BY <2>1, <2>2 DEF ForwardInput, n
<1>8. TypeOK'
  <2>1. inFront' \in Seq(0..MaxSaid)
    BY <1>2 DEF Number
  <2>2. relayed' \in Seq(0..MaxSaid)
    BY <1>1, <1>2 DEF ForwardInput, Number, n
  <2> QED
    BY <1>1, <1>7, <2>1, <2>2 DEF TypeOK, ForwardInput, output, stream
<1> QED
  BY <1>7, <1>8 DEF RelayInv

(* The near bridge says bye-bye, which does not count.                     *)
LEMMA SayByeInv == ASSUME RelayInv, SayBye PROVE RelayInv'
<1>1. TypeOK /\ RelayedInOrder /\ back \in Seq(Message)
  BY DEF RelayInv, TypeOK
<1>2. PICK s \in Sizes : back' = Append(back, [no |-> Bye, size |-> s])
  BY DEF SayBye
<1> DEFINE m == [no |-> Bye, size |-> s]
           u == <<Mark(Bye)>>
<1>3. m \in Message /\ Bye \in Number /\ m.no = Bye
  BY BridgeAssumption DEF Message, Number, Bye
<1>4. u \in Seq(Unit) /\ NumbersIn(u) = {} /\ InOrder(u)
  BY <1>3, MarkFacts
<1> HIDE DEF m
<1>5. Whole(back') = Whole(back) \o u
  BY <1>1, <1>2, <1>3, WholeFacts DEF m
<1> HIDE DEF u
<1>6. Places'[6] = Places[6] \o u /\ \A l \in Place \ {6} : Places'[l] = Places[l]
  <2>1. UNCHANGED <<relayed, inFront, inBack, front, waiting>> /\ Unread' = Unread
    BY DEF SayBye, stream, input, fate, Unread
  <2>2. ASSUME NEW l \in Place \ {6} PROVE Places'[l] = Places[l]
    <3>1. l \in {1, 2, 3, 4, 5, 7}
      BY DEF Place
    <3> QED
      BY <2>1, <3>1, PlacesAre
  <2> QED
    BY <1>5, <2>2, PlacesAre
<1>7. \A l \in Place : InOrder(Places[l])
  BY <1>1, OrderOf DEF PlacesInOrder
<1>8. NumbersIn(Places'[6]) = NumbersIn(Places[6]) /\ InOrder(Places'[6])
  <2>1. Places[6] \in Seq(Unit) /\ InOrder(Places[6])
    BY <1>1, <1>7, PlacesType DEF Place
  <2>2. \A i \in NumbersIn(Places[6]), j \in NumbersIn(u) : i < j
    BY <1>4
  <2> DEFINE v == Places[6]
  <2>3. v \in Seq(Unit) /\ InOrder(v) /\ \A i \in NumbersIn(v), j \in NumbersIn(u) : i < j
    BY <2>1, <2>2
  <2> HIDE DEF v
  <2>4. NumbersIn(v \o u) = NumbersIn(v) \union NumbersIn(u) /\ InOrder(v \o u)
    BY <1>4, <2>3, Joined
  <2>5. Places'[6] = v \o u /\ Places[6] = v
    BY <1>6 DEF v
  <2> QED
    BY <1>4, <2>4, <2>5
<1>9. RelayedInOrder'
  <2>1. said' = said /\ gone' = gone
    BY DEF SayBye, fate
  <2> QED
    BY <1>1, <1>6, <1>7, <1>8, <2>1, StepNeutral
<1>10. TypeOK'
  <2>1. back' \in Seq(Message)
    BY <1>1, <1>2, <1>3 DEF m
  <2>2. writer' \in {"waiting", "notified", "writing"} /\ (writer' # "writing" => front = <<>>)
    BY <1>1 DEF TypeOK, SayBye, Notified
  <2>3. heeded' \in BOOLEAN
    BY DEF SayBye
  <2> QED
    BY <1>1, <2>1, <2>2, <2>3 DEF TypeOK, SayBye, stream, input, fate
<1> QED
  BY <1>9, <1>10 DEF RelayInv

(* The double buffers are swapped.                                         *)
LEMMA SwapInv == ASSUME RelayInv, Swap \/ Fetch PROVE RelayInv'
<1>1. TypeOK /\ RelayedInOrder
  BY DEF RelayInv
<1>2. CASE Swap
  <2>1. front = <<>> /\ front' = back /\ back' = <<>>
    BY <1>1, <1>2 DEF TypeOK, Swap
  <2>2. UNCHANGED <<relayed, inFront, inBack, waiting, said, gone>> /\ Unread' = Unread
    BY <1>2 DEF Swap, stream, input, fate, Unread
  <2>3. Places[5] = <<>> /\ Places'[6] = <<>> /\ Places'[5] = Places[6]
    <3>1. Whole(<<>>) = <<>>
      BY DEF Whole
    <3> QED
      BY <2>1, <3>1, PlacesAre
  <2>4. ASSUME NEW l \in Place \ {5, 6} PROVE Places'[l] = Places[l]
    <3>1. l \in {1, 2, 3, 4, 7}
      BY DEF Place
    <3> QED
      BY <2>2, <3>1, PlacesAre
  <2>5. RelayedInOrder'
    <3>1. 5 \in 1..6 /\ 5 + 1 = 6
      OBVIOUS
    <3> QED
      BY <1>1, <2>2, <2>3, <2>4, <3>1, StepSwap
  <2>6. TypeOK'
    BY <1>1, <1>2, <2>1 DEF TypeOK, Swap, stream, input, fate
  <2> QED
    BY <2>5, <2>6 DEF RelayInv
<1>3. CASE Fetch
  <2>1. inFront = <<>> /\ inFront' = inBack /\ inBack' = <<>>
    BY <1>3 DEF Fetch
  <2>2. UNCHANGED <<relayed, front, back, waiting, said, gone>> /\ Unread' = Unread
    BY <1>3 DEF Fetch, stream, output, fate, Unread
  <2>3. Places[2] = <<>> /\ Places'[3] = <<>> /\ Places'[2] = Places[3]
    <3>1. Taken(<<>>) = <<>>
      BY DEF Taken
    <3> QED
      BY <2>1, <3>1, PlacesAre
  <2>4. ASSUME NEW l \in Place \ {2, 3} PROVE Places'[l] = Places[l]
    <3>1. l \in {1, 4, 5, 6, 7}
      BY DEF Place
    <3> QED
      BY <2>2, <3>1, PlacesAre
  <2>5. RelayedInOrder'
    <3>1. 2 \in 1..6 /\ 2 + 1 = 3
      OBVIOUS
    <3> QED
      BY <1>1, <2>2, <2>3, <2>4, <3>1, StepSwap
  <2>6. TypeOK'
    BY <1>1, <1>3, <2>1 DEF TypeOK, Fetch, stream, output, fate
  <2> QED
    BY <2>5, <2>6 DEF RelayInv
<1> QED
  BY <1>2, <1>3

(* The steps of the threads that move no message.                          *)
LEMMA OtherInv ==
    ASSUME RelayInv,
           \/ Notify \/ Slept \/ NotifyLast \/ End \/ Crash \/ Wait \/ InputEnds
           \/ FarDone \/ FarSlept \/ FarEnd \/ FarCrash \/ UNCHANGED vars
    PROVE  RelayInv'
<1>1. TypeOK /\ RelayedInOrder
  BY DEF RelayInv
<1>2. UNCHANGED <<said, waiting, back, front, pipe, source, inBack, inFront, relayed, gone>>
  BY DEF Notify, Slept, NotifyLast, End, Crash, Wait, InputEnds, FarDone, FarSlept,
         FarEnd, FarCrash, vars, output, stream, input, fate
<1>3. RelayedInOrder'
  <2>1. Places' = Places
    BY <1>2 DEF Places, Unread
  <2> QED
    BY <1>1, <1>2, <2>1, OrderOf, OrderAfter
<1>4. TypeOK'
  <2>1. CASE Notify \/ NotifyLast
    BY <1>1, <1>2, <2>1 DEF TypeOK, Notify, NotifyLast, Notified, stream, input, fate
  <2>2. CASE Slept \/ End \/ Crash
    BY <1>1, <1>2, <2>2 DEF TypeOK, Slept, End, Crash, output, stream, input, fate
  <2>3. CASE Wait
    BY <1>1, <1>2, <2>3 DEF TypeOK, Wait, stream, input, fate
  <2>4. CASE InputEnds
    BY <1>1, <1>2, <2>4 DEF TypeOK, InputEnds, output, input, fate
  <2>5. CASE FarDone \/ FarSlept \/ FarEnd \/ FarCrash
    BY <1>1, <1>2, <2>5 DEF TypeOK, FarDone, FarSlept, FarEnd, FarCrash, output,
                            stream, fate
  <2>6. CASE UNCHANGED vars
    BY <1>1, <1>2, <2>6 DEF TypeOK, vars, output, stream, input, fate
  <2> QED
    BY <2>1, <2>2, <2>3, <2>4, <2>5, <2>6
<1> QED
  BY <1>3, <1>4 DEF RelayInv

(* The initial states.                                                     *)
LEMMA InitInv == Init => RelayInv
<1> SUFFICES ASSUME Init PROVE RelayInv
  OBVIOUS
<1>1. TypeOK
  <2>1. /\ said \in 0..MaxSaid /\ gone \subseteq 0..said
        /\ writer = "waiting" /\ near = "updating" /\ far = "updating"
        /\ good \in BOOLEAN /\ heeded \in BOOLEAN
    <3>1. said = 0 /\ gone = {} /\ MaxSaid \in Nat
      BY BridgeAssumption DEF Init
    <3>2. said \in 0..MaxSaid
      BY <3>1
    <3> QED
      BY <3>1, <3>2 DEF Init
  <2>2. /\ waiting \in Seq(Message) /\ back \in Seq(Message)
        /\ front = <<>> /\ front \in Seq(Message)
        /\ pipe \in Seq(Unit) /\ source \in Seq(Unit)
        /\ inBack \in Seq(0..MaxSaid) /\ inFront \in Seq(0..MaxSaid)
        /\ relayed \in Seq(0..MaxSaid)
    <3>1. \A S : <<>> \in Seq(S)
      OBVIOUS
    <3> QED
      BY <3>1 DEF Init
  <2> QED
    BY <2>1, <2>2 DEF TypeOK
<1>2. Places = <<<<>>, <<>>, <<>>, <<>>, <<>>, <<>>, <<>>>>
  <2>1. Taken(<<>>) = <<>> /\ Whole(<<>>) = <<>> /\ <<>> \o <<>> = <<>>
    BY DEF Taken, Whole
  <2> QED
    BY <2>1 DEF Init, Places, Unread
<1>3. \A k \in DOMAIN Places : Places[k] = <<>>
  BY <1>2
<1>4. (1..said) \ gone = {}
  BY DEF Init
<1>5. RelayedInOrder
  BY <1>3, <1>4, Single DEF RelayedInOrder
<1> QED
  BY <1>1, <1>5 DEF RelayInv

(* Whatever the six threads do, and whichever of the bridges ends when,    *)
(* every message that the near router sent is in one place or was taken    *)
(* out on purpose, and none overtakes another one (bridge.inl).            *)
THEOREM RelayCorrect == Spec => []RelayInv
<1>1. RelayInv /\ [Next]_vars => RelayInv'
  BY SayInv, ForwardInv, WriteInv, RecvInv, ForwardInputInv, SayByeInv, SwapInv, OtherInv
     DEF Next, NearNext, FarNext
<1> QED
  BY InitInv, <1>1, PTL DEF Spec
=============================================================================
