---------------------------- MODULE Transfer_proofs ----------------------------
(***************************************************************************)
(* Proofs about StreamConnection, for all sizes of blocks and messages,    *)
(* numbers of bits and bounds, and about BlobTransfer, for all sizes of    *)
(* blobs and fragments, numbers of blobs and receivers and bounds.         *)
(*                                                                         *)
(* StreamConnection: what is handled, in an inbox, on the wire and waiting *)
(* to be written are stations of one way.  At each of them, and from each  *)
(* to the next, two messages may only be in an order, or be the same one,  *)
(* as Allowed says (RowsAllowed, PipeAllowed); what pack_into leaves behind*)
(* is larger than what it packs after it.                                  *)
(*                                                                         *)
(* BlobTransfer: merging a part keeps sorted parts sorted and apart, and   *)
(* covers and stores what was not covered (Loop, an invariant of its loop);*)
(* what is complete is one part from offset 0 on, so that all of it was    *)
(* stored (ListsInv, IntactInv).  The fragment with offset 0 exists once:  *)
(* it is to be sent, under way, in an incoming blob or in a fetched one    *)
(* (OnceInv), as no request asks for it again.                             *)
(***************************************************************************)
EXTENDS StreamConnection, BlobTransfer, FiniteSetTheorems, SequenceTheorems,
        WellFoundedInduction, TLAPS
-----------------------------------------------------------------------------
(* Streams.                                                                *)

(* A set of naturals that has some has a least one.                        *)
LEMMA LeastNatural ==
    ASSUME NEW T \in SUBSET Nat, T # {}
    PROVE  \E n \in T : \A m \in T : n <= m
<1> DEFINE R == OpToRel(<, Nat)
<1>1. IsWellFoundedOn(R, Nat)
  BY NatLessThanWellFounded
<1>2. \A x, y \in Nat : x < y => <<x, y>> \in R
  BY DEF OpToRel
<1> HIDE DEF R
<1>3. PICK n \in T : \A y \in T : ~ (<<y, n>> \in R)
  BY <1>1, WFMin
<1>4. \A y \in T : ~(y < n) /\ y \in Nat /\ n \in Nat
  BY <1>2, <1>3
<1>5. \A y \in T : n <= y
  BY <1>4
<1> QED
  BY <1>5

(* Induction over the naturals, for the members of a set.                  *)
LEMMA SetInduction ==
    ASSUME NEW S, 0 \in S, \A n \in Nat : n \in S => n + 1 \in S
    PROVE  Nat \subseteq S
<1> SUFFICES ASSUME Nat \ S # {} PROVE FALSE
  OBVIOUS
<1>1. PICK n \in Nat \ S : \A m \in Nat \ S : n <= m
  BY LeastNatural
<1>2. n # 0 /\ n - 1 \in Nat /\ ~ (n <= n - 1) /\ (n - 1) + 1 = n
  BY <1>1
<1>3. n - 1 \in S
  BY <1>1, <1>2
<1> QED
  BY <1>1, <1>2, <1>3

-----------------------------------------------------------------------------
(* Places in order.                                                        *)

InOrderOf(f, S) ==
    /\ f \in [1..Cardinality(S) -> S]
    /\ \A i, j \in 1..Cardinality(S) : i < j => f[i] < f[j]

(* The members of a set of places can be put in order.                     *)
LEMMA OrderExists ==
    ASSUME NEW n \in Nat, NEW S \in SUBSET (1..n)
    PROVE  \E f : InOrderOf(f, S)
<1> DEFINE G == {b \in Nat : \A T \in SUBSET (1..b) : \E f : InOrderOf(f, T)}
<1>1. 0 \in G
  <2>1. \A T \in SUBSET (1..0) : T = {}
    OBVIOUS
  <2>2. Cardinality({}) = 0
    BY FS_EmptySet
  <2>3. InOrderOf([i \in 1..0 |-> 0], {})
    BY <2>2 DEF InOrderOf
  <2> QED
    BY <2>1, <2>3
<1>2. ASSUME NEW b \in Nat, b \in G PROVE b + 1 \in G
  <2>1. ASSUME NEW T \in SUBSET (1..(b + 1)) PROVE \E f : InOrderOf(f, T)
    <3> DEFINE U == T \ {b + 1}
    <3>1. U \in SUBSET (1..b)
      BY <1>2
    <3>2. IsFiniteSet(U) /\ Cardinality(U) \in Nat
      <4>1. IsFiniteSet(1..b)
        BY FS_Interval
      <4> QED
        BY <3>1, <4>1, FS_Subset, FS_CardinalityType
    <3>3. PICK f : InOrderOf(f, U)
      BY <1>2, <3>1
    <3>4. CASE b + 1 \notin T
      <4>1. U = T
        BY <3>4
      <4> QED
        BY <3>3, <4>1
    <3>5. CASE b + 1 \in T
      <4>1. T = U \cup {b + 1} /\ b + 1 \notin U
        BY <3>5
      <4>2. Cardinality(T) = Cardinality(U) + 1
        BY <3>2, <4>1, FS_AddElement
      <4> DEFINE c == Cardinality(U)
                 g == [i \in 1..(c + 1) |-> IF i = c + 1 THEN b + 1 ELSE f[i]]
      <4> HIDE DEF U
      <4>3. f \in [1..c -> U] /\ \A i, j \in 1..c : i < j => f[i] < f[j]
        BY <3>3 DEF InOrderOf
      <4> HIDE DEF c
      <4>4. c \in Nat
        BY <3>2 DEF c
      <4>5. \A i \in 1..(c + 1) : i \in 1..c \/ i = c + 1
        BY <4>4
      <4>6. g \in [1..(c + 1) -> T]
        BY <4>1, <4>3, <4>5
      <4>7. ASSUME NEW i \in 1..(c + 1), NEW j \in 1..(c + 1), i < j PROVE g[i] < g[j]
        <5>1. i \in 1..c /\ i # c + 1
          BY <4>4, <4>7
        <5>2. g[i] = f[i] /\ f[i] \in 1..b
          BY <3>1, <4>3, <5>1
        <5>3. CASE j = c + 1
          BY <5>2, <5>3
        <5>4. CASE j # c + 1
          <6>1. j \in 1..c
            BY <4>5, <5>4
          <6>2. g[j] = f[j]
            BY <5>4
          <6> QED
            BY <4>3, <4>7, <5>1, <5>2, <6>1, <6>2
        <5> QED
          BY <5>3, <5>4
      <4> HIDE DEF g
      <4>8. InOrderOf(g, T)
        BY <4>2, <4>6, <4>7 DEF InOrderOf, c
      <4> QED
        BY <4>8
    <3> QED
      BY <3>4, <3>5
  <2> QED
    BY <2>1
<1> HIDE DEF G
<1>3. n \in G
  BY <1>1, <1>2, SetInduction
<1> QED
  BY <1>3 DEF G

(* InOrder puts all members of a set of places in order.                   *)
LEMMA InOrderFacts ==
    ASSUME NEW n \in Nat, NEW S \in SUBSET (1..n)
    PROVE  /\ Cardinality(S) \in Nat
           /\ InOrderOf(InOrder(S), S)
           /\ \A x \in S : \E i \in 1..Cardinality(S) : InOrder(S)[i] = x
<1> DEFINE c == Cardinality(S)
           f == InOrder(S)
<1>1. IsFiniteSet(S) /\ c \in Nat
  <2>1. IsFiniteSet(1..n)
    BY FS_Interval
  <2>2. IsFiniteSet(S)
    BY <2>1, FS_Subset
  <2> QED
    BY <2>2, FS_CardinalityType
<1>2. InOrderOf(f, S)
  <2>1. \E g : InOrderOf(g, S)
    BY OrderExists
  <2>2. \E g \in [1..c -> S] : \A i, j \in DOMAIN g : i < j => g[i] < g[j]
    BY <2>1 DEF InOrderOf
  <2>3. f \in [1..c -> S] /\ \A i, j \in DOMAIN f : i < j => f[i] < f[j]
    BY <2>2 DEF InOrder
  <2> QED
    BY <2>3 DEF InOrderOf
<1> HIDE DEF f
<1>3. ASSUME NEW x \in S, \A i \in 1..c : f[i] # x PROVE FALSE
  <2>1. f \in [1..c -> S \ {x}]
    BY <1>2, <1>3 DEF InOrderOf
  <2>2. IsFiniteSet(S \ {x}) /\ Cardinality(S \ {x}) = c - 1
    BY <1>1, FS_RemoveElement
  <2>3. IsFiniteSet(1..c) /\ Cardinality(1..c) = c
    BY <1>1, FS_Interval
  <2>4. c - 1 < c
    BY <1>1
  <2>5. PICK i, j \in 1..c : i # j /\ f[i] = f[j]
    <3> DEFINE D == 1..c
               T == S \ {x}
    <3>1. IsFiniteSet(T) /\ IsFiniteSet(D) /\ Cardinality(T) < Cardinality(D)
      BY <2>2, <2>3, <2>4
    <3> HIDE DEF D, T, c
    <3>2. f \in [D -> T]
      BY <2>1 DEF D, T
    <3>3. \E i, j \in D : i # j /\ f[i] = f[j]
      BY <3>1, <3>2, FS_PigeonHole
    <3> QED
      BY <3>3 DEF D
  <2>6. f[i] \in 1..n /\ f[j] \in 1..n
    BY <1>2 DEF InOrderOf
  <2>7. i < j \/ j < i
    BY <1>1, <2>5
  <2> QED
    BY <1>2, <2>5, <2>6, <2>7 DEF InOrderOf
<1> QED
  BY <1>1, <1>2, <1>3 DEF f

Elements(q) == {q[i] : i \in DOMAIN q}
Row(K, q) == \A i, j \in DOMAIN q : i < j => <<q[i], q[j]>> \in K

(* The messages at some places are those at these places, in order.        *)
LEMMA OnlyFacts ==
    ASSUME NEW M, NEW q \in Seq(M), NEW S \in SUBSET DOMAIN q
    PROVE  /\ Only(q, S) \in Seq(M)
           /\ Elements(Only(q, S)) = {q[i] : i \in S}
           /\ S # {} => Only(q, S) # <<>>
           /\ Increasing(q) => Increasing(Only(q, S))
           /\ \A K : Row(K, q) => Row(K, Only(q, S))
<1> DEFINE c == Cardinality(S)
           f == InOrder(S)
           s == Only(q, S)
<1>1. Len(q) \in Nat /\ DOMAIN q = 1..Len(q) /\ \A i \in 1..Len(q) : q[i] \in M
  OBVIOUS
<1>2. /\ c \in Nat /\ f \in [1..c -> S]
      /\ \A i, j \in 1..c : i < j => f[i] < f[j]
      /\ \A x \in S : \E i \in 1..c : f[i] = x
  BY <1>1, InOrderFacts DEF InOrderOf
<1>3. s = [i \in 1..c |-> q[f[i]]]
  BY <1>2 DEF Only
<1> HIDE DEF c, f, s
<1>4. s \in [1..c -> M] /\ DOMAIN s = 1..c
  BY <1>1, <1>2, <1>3
<1>5. s \in Seq(M) /\ Len(s) = c
  BY <1>2, <1>4
<1>6. Elements(s) = {q[i] : i \in S}
  BY <1>2, <1>3, <1>4 DEF Elements
<1>7. S # {} => s # <<>>
  BY <1>2, <1>4
<1>8. ASSUME Increasing(q), NEW i \in 1..c, NEW j \in 1..c, i < j PROVE s[i].no < s[j].no
  <2>1. f[i] < f[j] /\ f[i] \in DOMAIN q /\ f[j] \in DOMAIN q
    BY <1>2, <1>8
  <2> QED
    BY <1>3, <1>8, <2>1 DEF Increasing
<1>9. ASSUME NEW K, Row(K, q), NEW i \in 1..c, NEW j \in 1..c, i < j
      PROVE  <<s[i], s[j]>> \in K
  <2>1. f[i] < f[j] /\ f[i] \in DOMAIN q /\ f[j] \in DOMAIN q
    BY <1>2, <1>9
  <2> QED
    BY <1>3, <1>9, <2>1 DEF Row
<1> QED
  BY <1>4, <1>5, <1>6, <1>7, <1>8, <1>9 DEF Increasing, Row, s
-----------------------------------------------------------------------------
(* Packing.                                                                *)

(* What Used adds at a place when so much is used before it.               *)
Taken(q, i, u) == IF i <= MaxBits /\ u + SizeLength + q[i].size <= BlockSize
                  THEN SizeLength + q[i].size
                  ELSE 0

UsedUpTo(q, n, u) ==
    u = [i \in 0..n |-> IF i = 0 THEN 0 ELSE u[i - 1] + Taken(q, i, u[i - 1])]

(* The recursion of Used is well-founded.                                  *)
LEMMA UsedExists ==
    ASSUME NEW q, NEW m \in Nat
    PROVE  \E u : UsedUpTo(q, m, u)
<1> DEFINE G == {n \in Nat : \E u : UsedUpTo(q, n, u)}
<1>1. 0 \in G
  <2> DEFINE u == [i \in 0..0 |-> 0]
  <2>1. u = [i \in 0..0 |-> IF i = 0 THEN 0 ELSE u[i - 1] + Taken(q, i, u[i - 1])]
    OBVIOUS
  <2> QED
    BY <2>1 DEF UsedUpTo
<1>2. ASSUME NEW n \in Nat, n \in G PROVE n + 1 \in G
  <2>1. PICK u : UsedUpTo(q, n, u)
    BY <1>2
  <2> DEFINE F(v, i) == IF i = 0 THEN 0 ELSE v[i - 1] + Taken(q, i, v[i - 1])
             v == [i \in 0..(n + 1) |-> F(u, i)]
  <2>2. u = [i \in 0..n |-> F(u, i)]
    BY <2>1 DEF UsedUpTo
  <2>3. \A i \in 0..n : v[i] = u[i]
    <3> HIDE DEF F
    <3> QED
      BY <1>2, <2>2
  <2>4. ASSUME NEW i \in 0..(n + 1) PROVE F(u, i) = F(v, i)
    <3>1. CASE i = 0
      BY <3>1
    <3>2. CASE i # 0
      <4>1. i - 1 \in 0..n
        BY <1>2, <3>2
      <4>2. v[i - 1] = u[i - 1]
        BY <2>3, <4>1
      <4> HIDE DEF v
      <4> QED
        BY <4>2
    <3> QED
      BY <3>1, <3>2
  <2>5. v = [i \in 0..(n + 1) |-> F(v, i)]
    <3>1. v = [i \in 0..(n + 1) |-> F(u, i)]
      OBVIOUS
    <3> HIDE DEF v, F
    <3> QED
      BY <2>4, <3>1
  <2>6. UsedUpTo(q, n + 1, v)
    BY <2>5 DEF UsedUpTo
  <2> QED
    BY <1>2, <2>6
<1> HIDE DEF G
<1>3. m \in G
  BY <1>1, <1>2, SetInduction
<1> QED
  BY <1>3 DEF G

(* Used starts at 0 and adds what is taken at each place.                  *)
LEMMA UsedFacts ==
    ASSUME NEW q \in Seq(Messages)
    PROVE  /\ Used(q)[0] = 0
           /\ \A i \in 1..Len(q) :
                 Used(q)[i] = Used(q)[i - 1] + Taken(q, i, Used(q)[i - 1])
<1>1. Len(q) \in Nat
  OBVIOUS
<1>2. Used(q) = CHOOSE u : UsedUpTo(q, Len(q), u)
  BY DEF Used, UsedUpTo, Taken
<1>3. UsedUpTo(q, Len(q), Used(q))
  BY <1>1, <1>2, UsedExists
<1> DEFINE u == Used(q)
<1>4. u = [i \in 0..Len(q) |-> IF i = 0 THEN 0 ELSE u[i - 1] + Taken(q, i, u[i - 1])]
  BY <1>3 DEF UsedUpTo
<1> HIDE DEF u
<1>5. u[0] = 0
  BY <1>1, <1>4
<1>6. ASSUME NEW i \in 1..Len(q) PROVE u[i] = u[i - 1] + Taken(q, i, u[i - 1])
  <2>1. i \in 0..Len(q) /\ i # 0
    BY <1>1
  <2> QED
    BY <1>4, <2>1
<1> QED
  BY <1>5, <1>6 DEF u

(* What is used is a number, and does not get less from place to place.    *)
LEMMA UsedGrows ==
    ASSUME NEW q \in Seq(Messages), NEW i \in 0..Len(q), NEW j \in 0..Len(q), i <= j
    PROVE  Used(q)[i] \in Nat /\ Used(q)[i] <= Used(q)[j]
<1> DEFINE u == Used(q)
           G == {n \in Nat : n \in 0..Len(q) =>
                    u[n] \in Nat /\ \A k \in 0..n : u[k] \in Nat /\ u[k] <= u[n]}
<1>1. Len(q) \in Nat /\ \A k \in 1..Len(q) : q[k] \in Messages
  OBVIOUS
<1>2. u[0] = 0 /\ \A k \in 1..Len(q) : u[k] = u[k - 1] + Taken(q, k, u[k - 1])
  BY UsedFacts
<1> HIDE DEF u
<1>3. 0 \in G
  BY <1>2
<1>4. ASSUME NEW n \in Nat, n \in G PROVE n + 1 \in G
  <2>1. SUFFICES ASSUME n + 1 \in 0..Len(q)
                 PROVE  /\ u[n + 1] \in Nat
                        /\ \A k \in 0..(n + 1) : u[k] \in Nat /\ u[k] <= u[n + 1]
    OBVIOUS
  <2>2. n + 1 \in 1..Len(q) /\ n \in 0..Len(q) /\ (n + 1) - 1 = n
    BY <1>1, <1>4, <2>1
  <2>3. u[n + 1] = u[n] + Taken(q, n + 1, u[n])
    BY <1>2, <2>2
  <2>4. u[n] \in Nat /\ \A k \in 0..n : u[k] \in Nat /\ u[k] <= u[n]
    BY <1>4, <2>2
  <2>5. Taken(q, n + 1, u[n]) \in Nat
    <3>1. q[n + 1].size \in Nat /\ SizeLength \in Nat
      BY <1>1, <2>2, StreamAssumption DEF Messages
    <3> QED
      BY <3>1 DEF Taken
  <2>6. u[n + 1] \in Nat /\ u[n] <= u[n + 1]
    BY <2>3, <2>4, <2>5
  <2>7. ASSUME NEW k \in 0..(n + 1) PROVE u[k] \in Nat /\ u[k] <= u[n + 1]
    <3>1. k = n + 1 \/ k \in 0..n
      BY <1>4
    <3> QED
      BY <2>4, <2>6, <3>1
  <2> QED
    BY <2>6, <2>7
<1> HIDE DEF G
<1>5. j \in G
  BY <1>1, <1>3, <1>4, SetInduction
<1>6. i \in 0..j
  BY <1>1
<1> QED
  BY <1>1, <1>5, <1>6 DEF G, u

(* A block is made of messages that have a bit; those that are passed over *)
(* are larger than those behind them that are packed.                      *)
LEMMA PackedFacts ==
    ASSUME NEW q \in Seq(Messages)
    PROVE  /\ Packed(q) \subseteq DOMAIN q \cap 1..MaxBits
           /\ \A i \in DOMAIN q \ Packed(q), j \in Packed(q) :
                 i < j => q[j].size < q[i].size
<1> DEFINE u == Used(q)
<1>1. /\ Len(q) \in Nat /\ DOMAIN q = 1..Len(q)
      /\ \A k \in 1..Len(q) : q[k].size \in Nat
      /\ SizeLength \in Nat \ {0} /\ BlockSize \in Nat /\ MaxBits \in Nat
  <2>1. \A k \in 1..Len(q) : q[k] \in Messages
    OBVIOUS
  <2>2. \A m \in Messages : m.size \in Nat
    BY StreamAssumption DEF Messages
  <2> QED
    BY <2>1, <2>2, StreamAssumption
<1>2. \A k \in 1..Len(q) : u[k] = u[k - 1] + Taken(q, k, u[k - 1])
  BY UsedFacts
<1>3. \A i, j \in 0..Len(q) : i <= j => u[i] \in Nat /\ u[i] <= u[j]
  BY UsedGrows
<1>4. Packed(q) = {k \in DOMAIN q : u[k] # u[k - 1]}
  BY DEF Packed
<1> HIDE DEF u
<1>5. ASSUME NEW k \in 1..Len(q)
      PROVE  k \in Packed(q) <=>
                k <= MaxBits /\ u[k - 1] + SizeLength + q[k].size <= BlockSize
  <2>1. k - 1 \in 0..Len(q)
    BY <1>1
  <2>2. u[k - 1] \in Nat
    BY <1>3, <2>1
  <2> QED
    BY <1>1, <1>2, <1>4, <2>2 DEF Taken
<1>6. Packed(q) \subseteq DOMAIN q \cap 1..MaxBits
  BY <1>1, <1>4, <1>5
<1>7. ASSUME NEW i \in DOMAIN q \ Packed(q), NEW j \in Packed(q), i < j
      PROVE  q[j].size < q[i].size
  <2>1. i \in 1..Len(q) /\ j \in 1..Len(q) /\ i - 1 \in 0..Len(q) /\ j - 1 \in 0..Len(q)
    BY <1>1, <1>4
  <2>2. i - 1 <= j - 1
    BY <1>7, <2>1
  <2>3. u[i - 1] \in Nat /\ u[j - 1] \in Nat /\ u[i - 1] <= u[j - 1]
    BY <1>3, <2>1, <2>2
  <2>4. j <= MaxBits /\ u[j - 1] + SizeLength + q[j].size <= BlockSize
    BY <1>5, <2>1
  <2>5. i <= MaxBits
    BY <1>1, <1>7, <2>1, <2>4
  <2>6. ~ (u[i - 1] + SizeLength + q[i].size <= BlockSize)
    BY <1>5, <1>7, <2>1, <2>5
  <2>7. q[i].size \in Nat /\ q[j].size \in Nat
    BY <1>1, <2>1
  <2> DEFINE a == u[i - 1]
             b == u[j - 1]
             x == q[i].size
             y == q[j].size
  <2>8. /\ a \in Nat /\ b \in Nat /\ x \in Nat /\ y \in Nat /\ a <= b
        /\ SizeLength \in Nat /\ BlockSize \in Nat
        /\ b + SizeLength + y <= BlockSize /\ ~ (a + SizeLength + x <= BlockSize)
    BY <1>1, <2>3, <2>4, <2>6, <2>7
  <2> HIDE DEF a, b, x, y
  <2>9. y < x
    BY <2>8
  <2> QED
    BY <2>9 DEF x, y
<1> QED
  BY <1>6, <1>7
-----------------------------------------------------------------------------
(* The invariant.                                                          *)

Arrived == [no : 1..MaxSent, size : Sizes \cup {0}]

(* What may come before what in the order of handling: the same message    *)
(* twice only if it was retried, and on the first connection one that was  *)
(* sent later only before a larger one, or before one that was refused.    *)
Allowed == {p \in Arrived \X Arrived :
               /\ p[1].no = p[2].no => p[1].no \in retried
               /\ breaks = 0 /\ p[2].no < p[1].no =>
                     p[1].size < p[2].size \/ p[2].no \in refused[0]}

Before(K, A, B) == \A a \in A, b \in B : <<a, b>> \in K

(* What is not being written, and waits in the outbox.                     *)
Rest == {outbox[i] : i \in DOMAIN outbox \ sending}

RowsAllowed ==
    /\ Row(Allowed, received)
    /\ \A c \in Connections : Row(Allowed, inbox[c])
    /\ \A i \in DOMAIN wire : Row(Allowed, wire[i])

(* The messages come in this order: those that were handled, those in an   *)
(* inbox, those on the wire, and those that wait.                          *)
PipeAllowed ==
    /\ \A c \in Connections :
          /\ Before(Allowed, Elements(received), Elements(inbox[c]))
          /\ Before(Allowed, Elements(inbox[c]), Rest)
          /\ \A d \in Connections \ {c} :
                Before(Allowed, Elements(inbox[c]), Elements(inbox[d]))
          /\ \A i \in DOMAIN wire : Before(Allowed, Elements(inbox[c]), Elements(wire[i]))
    /\ \A i \in DOMAIN wire :
          /\ Before(Allowed, Elements(received), Elements(wire[i]))
          /\ Before(Allowed, Elements(wire[i]), Rest)
          /\ \A j \in DOMAIN wire :
                i < j => Before(Allowed, Elements(wire[i]), Elements(wire[j]))
    /\ Before(Allowed, Elements(received), Rest)

(* Only what was accepted is on its way, and nothing for connections that  *)
(* are still to be made.                                                   *)
WayKnown ==
    /\ Numbers(received) \subseteq 1..accepted
    /\ \A c \in Connections : Numbers(inbox[c]) \subseteq 1..accepted
    /\ \A i \in DOMAIN wire : Numbers(wire[i]) \subseteq 1..accepted
    /\ \A c \in Connections : c > breaks => inbox[c] = <<>>
    /\ breaks = 0 => retried = {}

(* What is being written is on its way already, or was handled.            *)
SendingThere ==
    \A i \in sending :
        \/ outbox[i].no \in Numbers(received) \cup Numbers(inbox[breaks])
        \/ \E k \in DOMAIN wire : outbox[i].no \in Numbers(wire[k])

WayInv == TypeOK /\ RowsAllowed /\ PipeAllowed /\ WayKnown /\ SendingThere

-----------------------------------------------------------------------------
(* Sequences and the sets of their members.                                *)

(* One more message.                                                       *)
LEMMA AppendFacts ==
    ASSUME NEW M, NEW q \in Seq(M), NEW m \in M
    PROVE  /\ Append(q, m) \in Seq(M)
           /\ Elements(Append(q, m)) = Elements(q) \cup {m}
           /\ Numbers(Append(q, m)) = Numbers(q) \cup {m.no}
<1> DEFINE s == Append(q, m)
<1>1. /\ Len(q) \in Nat /\ DOMAIN q = 1..Len(q) /\ DOMAIN s = 1..(Len(q) + 1)
      /\ \A i \in 1..Len(q) : s[i] = q[i]
      /\ s[Len(q) + 1] = m /\ s \in Seq(M)
  OBVIOUS
<1> HIDE DEF s
<1>2. \A i \in 1..(Len(q) + 1) : i \in 1..Len(q) \/ i = Len(q) + 1
  BY <1>1
<1>3. 1..Len(q) \subseteq 1..(Len(q) + 1) /\ Len(q) + 1 \in 1..(Len(q) + 1)
  BY <1>1
<1>4. Elements(s) = Elements(q) \cup {m}
  BY <1>1, <1>2, <1>3 DEF Elements
<1>5. Numbers(s) = Numbers(q) \cup {m.no}
  BY <1>1, <1>2, <1>3 DEF Numbers
<1> QED
  BY <1>1, <1>4, <1>5 DEF s

(* One more message that may be behind the others.                         *)
LEMMA AppendRow ==
    ASSUME NEW M, NEW q \in Seq(M), NEW m \in M, NEW K,
           Row(K, q), Before(K, Elements(q), {m})
    PROVE  Row(K, Append(q, m))
<1> DEFINE s == Append(q, m)
<1>1. /\ Len(q) \in Nat /\ DOMAIN q = 1..Len(q) /\ DOMAIN s = 1..(Len(q) + 1)
      /\ \A i \in 1..Len(q) : s[i] = q[i]
      /\ s[Len(q) + 1] = m /\ s \in Seq(M)
  OBVIOUS
<1> HIDE DEF s
<1>2. ASSUME NEW i \in DOMAIN s, NEW j \in DOMAIN s, i < j PROVE <<s[i], s[j]>> \in K
  <2>1. i \in 1..Len(q) /\ (j \in 1..Len(q) \/ j = Len(q) + 1)
    BY <1>1, <1>2
  <2>2. CASE j \in 1..Len(q)
    BY <1>1, <1>2, <2>1, <2>2 DEF Row
  <2>3. CASE j = Len(q) + 1
    BY <1>1, <1>2, <2>1, <2>3 DEF Before, Elements
  <2> QED
    BY <2>1, <2>2, <2>3
<1> QED
  BY <1>2 DEF Row, s

(* One sequence behind another.                                            *)
LEMMA ConcatFacts ==
    ASSUME NEW M, NEW p \in Seq(M), NEW q \in Seq(M)
    PROVE  /\ p \o q \in Seq(M)
           /\ Elements(p \o q) = Elements(p) \cup Elements(q)
           /\ Numbers(p \o q) = Numbers(p) \cup Numbers(q)
           /\ \A K : Row(K, p) /\ Row(K, q) /\ Before(K, Elements(p), Elements(q))
                     => Row(K, p \o q)
<1> DEFINE s == p \o q
           a == Len(p)
           b == Len(q)
<1>1. /\ a \in Nat /\ b \in Nat /\ DOMAIN p = 1..a /\ DOMAIN q = 1..b
      /\ DOMAIN s = 1..(a + b) /\ s \in Seq(M)
      /\ \A i \in 1..(a + b) : s[i] = IF i <= a THEN p[i] ELSE q[i - a]
  OBVIOUS
<1> HIDE DEF s, a, b
<1>2. \A i \in 1..(a + b) : (i \in 1..a /\ i <= a) \/ (i - a \in 1..b /\ ~(i <= a))
  <2>1. a \in Nat /\ b \in Nat
    BY <1>1
  <2> QED
    BY <2>1
<1>3. \A i \in 1..a : i \in 1..(a + b) /\ s[i] = p[i]
  BY <1>1
<1>4. ASSUME NEW i \in 1..b PROVE a + i \in 1..(a + b) /\ s[a + i] = q[i]
  <2>1. a + i \in 1..(a + b) /\ ~(a + i <= a) /\ (a + i) - a = i
    BY <1>1
  <2> QED
    BY <1>1, <2>1
<1>5. \A i \in 1..(a + b) : (i \in 1..a /\ s[i] = p[i]) \/ (i - a \in 1..b /\ s[i] = q[i - a])
  BY <1>1, <1>2
<1>d. DOMAIN p = 1..a /\ DOMAIN q = 1..b /\ DOMAIN s = 1..(a + b)
  BY <1>1
<1>6. Elements(s) = Elements(p) \cup Elements(q)
  <2>1. Elements(p) \subseteq Elements(s)
    BY <1>d, <1>3 DEF Elements
  <2>2. ASSUME NEW i \in DOMAIN q PROVE q[i] \in Elements(s)
    <3>1. a + i \in DOMAIN s /\ s[a + i] = q[i]
      BY <1>d, <1>4
    <3> QED
      BY <3>1 DEF Elements
  <2>3. \A i \in DOMAIN s : s[i] \in Elements(p) \cup Elements(q)
    BY <1>d, <1>5 DEF Elements
  <2> QED
    BY <2>1, <2>2, <2>3 DEF Elements
<1>7. Numbers(s) = Numbers(p) \cup Numbers(q)
  <2>1. \A x : Numbers(x) = {m.no : m \in Elements(x)}
    BY DEF Numbers, Elements
  <2> QED
    BY <1>6, <2>1
<1>8. ASSUME NEW K, Row(K, p), Row(K, q), Before(K, Elements(p), Elements(q)),
             NEW i \in 1..(a + b), NEW j \in 1..(a + b), i < j
      PROVE  <<s[i], s[j]>> \in K
  <2>1. CASE i \in 1..a /\ j \in 1..a
    BY <1>1, <1>3, <1>8, <2>1 DEF Row
  <2>2. CASE i <= a /\ ~(j <= a)
    <3>1. s[i] = p[i] /\ i \in 1..a /\ s[j] = q[j - a] /\ j - a \in 1..b
      BY <1>1, <1>2, <2>2
    <3> QED
      BY <1>1, <1>8, <3>1 DEF Before, Elements
  <2>3. CASE ~(i <= a) /\ ~(j <= a)
    <3>1. /\ s[i] = q[i - a] /\ i - a \in 1..b /\ s[j] = q[j - a] /\ j - a \in 1..b
          /\ i - a < j - a
      BY <1>1, <1>2, <1>8, <2>3
    <3> QED
      BY <1>1, <1>8, <3>1 DEF Row
  <2>4. ~(i <= a) => ~(j <= a)
    BY <1>1, <1>8
  <2> QED
    BY <1>2, <2>1, <2>2, <2>3, <2>4
<1> QED
  BY <1>1, <1>6, <1>7, <1>8 DEF Row, s

(* The first and the others.                                               *)
LEMMA TailFacts ==
    ASSUME NEW M, NEW q \in Seq(M), q # <<>>
    PROVE  /\ Head(q) \in M /\ Tail(q) \in Seq(M)
           /\ Head(q) = q[1] /\ 1 \in DOMAIN q
           /\ \A i \in DOMAIN Tail(q) : Tail(q)[i] = q[i + 1] /\ i + 1 \in DOMAIN q
           /\ \A i \in DOMAIN q : i = 1 \/ (i - 1 \in DOMAIN Tail(q) /\ q[i] = Tail(q)[i - 1])
           /\ Elements(q) = {Head(q)} \cup Elements(Tail(q))
           /\ Numbers(q) = {Head(q).no} \cup Numbers(Tail(q))
           /\ \A K : Row(K, q) => Row(K, Tail(q)) /\ Before(K, {Head(q)}, Elements(Tail(q)))
<1> DEFINE t == Tail(q)
<1>1. /\ Len(q) \in Nat \ {0} /\ DOMAIN q = 1..Len(q) /\ DOMAIN t = 1..(Len(q) - 1)
      /\ t \in Seq(M) /\ Head(q) = q[1] /\ Head(q) \in M
      /\ \A i \in 1..(Len(q) - 1) : t[i] = q[i + 1]
  OBVIOUS
<1> HIDE DEF t
<1>2. \A i \in DOMAIN t : t[i] = q[i + 1] /\ i + 1 \in DOMAIN q /\ 1 < i + 1
  BY <1>1
<1>3. ASSUME NEW i \in DOMAIN q, i # 1 PROVE i - 1 \in DOMAIN t /\ q[i] = t[i - 1]
  <2>1. i - 1 \in 1..(Len(q) - 1) /\ (i - 1) + 1 = i
    BY <1>1, <1>3
  <2> QED
    BY <1>1, <2>1
<1>4. 1 \in DOMAIN q
  BY <1>1
<1>5. Elements(q) = {Head(q)} \cup Elements(t)
  BY <1>1, <1>2, <1>3, <1>4 DEF Elements
<1>6. Numbers(q) = {Head(q).no} \cup Numbers(t)
  BY <1>1, <1>2, <1>3, <1>4 DEF Numbers
<1>7. ASSUME NEW K, Row(K, q) PROVE Row(K, t) /\ Before(K, {Head(q)}, Elements(t))
  <2>1. ASSUME NEW i \in DOMAIN t, NEW j \in DOMAIN t, i < j PROVE <<t[i], t[j]>> \in K
    <3>1. i + 1 < j + 1
      BY <1>1, <2>1
    <3> QED
      BY <1>2, <1>7, <3>1 DEF Row
  <2>2. \A j \in DOMAIN t : <<Head(q), t[j]>> \in K
    BY <1>1, <1>2, <1>4, <1>7 DEF Row
  <2> QED
    BY <2>1, <2>2 DEF Row, Before, Elements
<1>8. /\ Head(q) \in M /\ t \in Seq(M) /\ Head(q) = q[1]
      /\ \A i \in DOMAIN t : t[i] = q[i + 1] /\ i + 1 \in DOMAIN q
      /\ \A i \in DOMAIN q : i = 1 \/ (i - 1 \in DOMAIN t /\ q[i] = t[i - 1])
  BY <1>1, <1>2, <1>3
<1> QED
  BY <1>4, <1>5, <1>6, <1>7, <1>8 DEF t

(* The members of a sequence, and their numbers.                           *)
LEMMA MemberFacts ==
    ASSUME NEW M, NEW q \in Seq(M)
    PROVE  /\ Elements(q) \subseteq M
           /\ Numbers(q) = {m.no : m \in Elements(q)}
           /\ q = <<>> => Elements(q) = {} /\ Numbers(q) = {}
BY DEF Elements, Numbers

(* A sequence of messages is one of messages that may be cut short.        *)
LEMMA MessagesArrive ==
    /\ Messages \subseteq Arrived
    /\ Seq(Messages) \subseteq Seq(Arrived)
    /\ \A m \in Arrived : m.no \in 1..MaxSent /\ m.size \in Nat
<1>1. Messages \subseteq Arrived
  BY DEF Messages, Arrived
<1>2. ASSUME NEW q \in Seq(Messages) PROVE q \in Seq(Arrived)
  <2>1. q \in [1..Len(q) -> Messages] /\ Len(q) \in Nat
    OBVIOUS
  <2>2. q \in [1..Len(q) -> Arrived]
    BY <1>1, <2>1
  <2> QED
    BY <2>1, <2>2
<1>3. \A m \in Arrived : m.no \in 1..MaxSent /\ m.size \in Nat
  <2>1. \A m \in Arrived : m.no \in 1..MaxSent /\ m.size \in Sizes \cup {0}
    BY DEF Arrived
  <2>2. \A n \in Sizes \cup {0} : n \in Nat
    BY StreamAssumption
  <2> QED
    BY <2>1, <2>2
<1> QED
  BY <1>1, <1>2, <1>3

(* TypeOK, in the form that the proofs use.                                *)
LEMMA TypeFacts ==
    ASSUME TypeOK
    PROVE  /\ received \in Seq(Arrived)
           /\ \A c \in Connections : inbox[c] \in Seq(Arrived)
           /\ \A i \in DOMAIN wire : wire[i] \in Seq(Messages) /\ wire[i] \in Seq(Arrived)
           /\ outbox \in Seq(Messages) /\ outbox \in Seq(Arrived)
           /\ Rest \subseteq Messages /\ Rest \subseteq Elements(outbox)
           /\ accepted \in Nat /\ breaks \in Connections /\ breaks \in Nat
           /\ Increasing(outbox) /\ Numbers(outbox) \subseteq 1..accepted
<1>1. /\ received \in Seq(Arrived)
      /\ \A c \in Connections : inbox[c] \in Seq(Arrived)
      /\ outbox \in Seq(Messages)
      /\ wire \in Seq(Seq(Messages))
      /\ accepted \in Nat /\ breaks \in Connections /\ breaks \in Nat
      /\ Increasing(outbox) /\ Numbers(outbox) \subseteq 1..accepted
  <2>1. /\ received \in Seq(Arrived)
        /\ inbox \in [Connections -> Seq(Arrived)]
        /\ outbox \in Seq(Messages)
        /\ wire \in Seq(Seq(Messages))
        /\ Increasing(outbox) /\ Numbers(outbox) \subseteq 1..accepted
    BY DEF TypeOK, Arrived
  <2>2. accepted \in Nat /\ breaks \in Connections /\ breaks \in Nat
    BY StreamAssumption DEF TypeOK, Connections
  <2> QED
    BY <2>1, <2>2
<1>2. \A i \in DOMAIN wire : wire[i] \in Seq(Messages)
  BY <1>1
<1>3. Rest \subseteq Elements(outbox)
  BY DEF Rest, Elements
<1>4. Elements(outbox) \subseteq Messages
  BY <1>1, MemberFacts
<1> QED
  BY <1>1, <1>2, <1>3, <1>4, MessagesArrive

(* send() accepts a message.                                               *)
LEMMA SendInv ==
    ASSUME WayInv, NEW s \in Sizes, Send(s)
    PROVE  WayInv'
<1> DEFINE m == [no |-> accepted + 1, size |-> s]
<1>1. /\ TypeOK /\ RowsAllowed /\ PipeAllowed /\ WayKnown /\ SendingThere
      /\ UNCHANGED <<connected, sending, wire, breaks, inbox, received, retried, refused>>
      /\ accepted' = accepted + 1 /\ outbox' = Append(outbox, m)
  BY DEF WayInv, Send
<1>2. /\ received \in Seq(Arrived) /\ outbox \in Seq(Messages)
      /\ \A c \in Connections : inbox[c] \in Seq(Arrived)
      /\ \A i \in DOMAIN wire : wire[i] \in Seq(Arrived)
      /\ accepted \in Nat /\ breaks \in Connections
      /\ Increasing(outbox) /\ Numbers(outbox) \subseteq 1..accepted
  BY <1>1, TypeFacts
<1>3. m \in Messages /\ m \in Arrived /\ m.no = accepted + 1 /\ accepted' \in 0..MaxSent
  <2>1. accepted + 1 \in 1..MaxSent
    BY <1>2, StreamAssumption DEF Send
  <2> QED
    BY <1>1, <2>1, MessagesArrive DEF Messages
<1> HIDE DEF m
<1>4. /\ Len(outbox) \in Nat /\ DOMAIN outbox = 1..Len(outbox)
      /\ DOMAIN outbox' = 1..(Len(outbox) + 1)
      /\ \A i \in 1..Len(outbox) : outbox'[i] = outbox[i]
      /\ outbox'[Len(outbox) + 1] = m /\ outbox' \in Seq(Messages)
  BY <1>1, <1>2, <1>3
<1>5. Numbers(outbox') = Numbers(outbox) \cup {m.no}
  <2>1. Numbers(Append(outbox, m)) = Numbers(outbox) \cup {m.no}
    <3>1. outbox \in Seq(Messages) /\ m \in Messages
      BY <1>2, <1>3
    <3> QED
      BY <3>1, AppendFacts
  <2> QED
    BY <1>1, <2>1
<1>6. \A i \in 1..Len(outbox) : outbox[i].no \in 1..accepted
  BY <1>2, <1>4 DEF Numbers
<1>7. Increasing(outbox')
  <2>1. ASSUME NEW i \in DOMAIN outbox', NEW j \in DOMAIN outbox', i < j
        PROVE  outbox'[i].no < outbox'[j].no
    <3>1. i \in 1..Len(outbox)
      BY <1>4, <2>1
    <3>2. CASE j \in 1..Len(outbox)
      BY <1>2, <1>4, <2>1, <3>1, <3>2 DEF Increasing
    <3>3. CASE j = Len(outbox) + 1
      BY <1>2, <1>3, <1>4, <1>6, <3>1, <3>3
    <3>4. j \in 1..Len(outbox) \/ j = Len(outbox) + 1
      BY <1>4
    <3> QED
      BY <3>2, <3>3, <3>4
  <2> QED
    BY <2>1 DEF Increasing
<1>8. TypeOK'
  <2>1. Numbers(outbox') \subseteq 1..accepted'
    BY <1>1, <1>2, <1>3, <1>5
  <2>2. sending' \subseteq DOMAIN outbox' \cap 1..MaxBits
    BY <1>1, <1>4 DEF TypeOK
  <2>3. retried' \subseteq 1..accepted'
    BY <1>1, <1>2 DEF TypeOK
  <2> QED
    BY <1>1, <1>3, <1>4, <1>7, <2>1, <2>2, <2>3 DEF TypeOK
<1>9. Allowed' = Allowed
  BY <1>1 DEF Allowed
<1>10. Rest' \subseteq Rest \cup {m}
  <2>1. ASSUME NEW i \in DOMAIN outbox' \ sending' PROVE outbox'[i] \in Rest \cup {m}
    <3>1. i \in 1..Len(outbox) \/ i = Len(outbox) + 1
      BY <1>4
    <3> QED
      BY <1>1, <1>4, <2>1, <3>1 DEF Rest
  <2> QED
    BY <2>1 DEF Rest
<1>11. ASSUME NEW q \in Seq(Arrived), Numbers(q) \subseteq 1..accepted,
              Before(Allowed, Elements(q), Rest)
       PROVE  Before(Allowed, Elements(q), Rest')
  <2>1. ASSUME NEW a \in Elements(q) PROVE <<a, m>> \in Allowed
    <3>1. a \in Arrived /\ a.no \in 1..accepted
      BY <1>11, MemberFacts
    <3>2. a.no # m.no /\ ~ (m.no < a.no)
      BY <1>2, <1>3, <3>1
    <3> QED
      BY <1>3, <3>1, <3>2 DEF Allowed
  <2> QED
    BY <1>10, <1>11, <2>1 DEF Before
<1>12. RowsAllowed'
  BY <1>1, <1>9 DEF RowsAllowed
<1>13. PipeAllowed'
  BY <1>1, <1>2, <1>9, <1>11 DEF PipeAllowed, WayKnown
<1>14. WayKnown'
  <2>1. 1..accepted \subseteq 1..accepted'
    BY <1>1, <1>2
  <2> QED
    BY <1>1, <2>1 DEF WayKnown
<1>15. SendingThere'
  <2>1. ASSUME NEW i \in sending' PROVE i \in sending /\ outbox'[i] = outbox[i]
    BY <1>1, <1>4, <2>1 DEF TypeOK
  <2> QED
    BY <1>1, <2>1 DEF SendingThere
<1> QED
  BY <1>8, <1>12, <1>13, <1>14, <1>15 DEF WayInv

(* The first messages of what waits are written as a block, if any fits.   *)
LEMMA WriteInv ==
    ASSUME WayInv, connected, outbox' \in Seq(Messages), Increasing(outbox'),
           Elements(outbox') = Rest, WriteBlock(outbox'),
           UNCHANGED <<accepted, connected, breaks, inbox, received, retried, refused>>
    PROVE  WayInv'
<1> DEFINE q == outbox'
           P == Packed(q)
           b == Block(q, P)
<1>1. TypeOK /\ RowsAllowed /\ PipeAllowed /\ WayKnown /\ SendingThere
  BY DEF WayInv
<1>2. /\ received \in Seq(Arrived) /\ Rest \subseteq Messages
      /\ \A c \in Connections : inbox[c] \in Seq(Arrived)
      /\ \A i \in DOMAIN wire : wire[i] \in Seq(Arrived)
      /\ accepted \in Nat /\ breaks \in Connections
      /\ Rest \subseteq Elements(outbox) /\ Numbers(outbox) \subseteq 1..accepted
      /\ outbox \in Seq(Messages) /\ wire \in Seq(Seq(Messages))
  BY <1>1, TypeFacts DEF TypeOK
<1>3. Allowed' = Allowed
  BY DEF Allowed
<1>4. q \in Seq(Messages) /\ Increasing(q) /\ Elements(q) = Rest
      /\ DOMAIN q = 1..Len(q) /\ Len(q) \in Nat
  OBVIOUS
<1>5. sending' = P /\ wire' = IF P = {} THEN wire ELSE Append(wire, b)
  BY DEF WriteBlock
<1> HIDE DEF q
<1>6. /\ P \subseteq DOMAIN q \cap 1..MaxBits
      /\ \A i \in DOMAIN q \ P, j \in P : i < j => q[j].size < q[i].size
  BY <1>4, PackedFacts
<1>7. Rest' = {q[i] : i \in DOMAIN q \ P}
  BY <1>5 DEF Rest, q
<1>8. Rest' \subseteq Rest
  BY <1>4, <1>7 DEF Elements
<1>9. Numbers(q) \subseteq 1..accepted
  <2>1. Numbers(q) = {m.no : m \in Rest}
    BY <1>4, MemberFacts
  <2>2. Numbers(outbox) = {m.no : m \in Elements(outbox)}
    BY <1>2, MemberFacts
  <2> QED
    BY <1>2, <2>1, <2>2
<1>10. b \in Seq(Messages) /\ Elements(b) = {q[i] : i \in P} /\ Increasing(b)
       /\ b \in Seq(Arrived) /\ Elements(b) \subseteq Rest
  <2>1. P \in SUBSET DOMAIN q
    BY <1>6
  <2> HIDE DEF P
  <2>2. b \in Seq(Messages) /\ Elements(b) = {q[i] : i \in P} /\ Increasing(b)
    BY <1>4, <2>1, OnlyFacts DEF Block
  <2>3. Elements(b) \subseteq Elements(q)
    BY <2>1, <2>2 DEF Elements
  <2> QED
    BY <1>4, <2>2, <2>3, MessagesArrive
<1> HIDE DEF P, b
<1>11. Row(Allowed, b)
  <2>1. ASSUME NEW i \in DOMAIN b, NEW j \in DOMAIN b, i < j PROVE <<b[i], b[j]>> \in Allowed
    <3>1. b[i] \in Arrived /\ b[j] \in Arrived /\ b[i].no < b[j].no
      BY <1>10, <2>1 DEF Increasing
    <3>2. b[i].no \in Nat /\ b[j].no \in Nat
      BY <3>1, MessagesArrive
    <3>3. b[i].no # b[j].no /\ ~ (b[j].no < b[i].no)
      BY <3>1, <3>2
    <3> QED
      BY <3>1, <3>3 DEF Allowed
  <2> QED
    BY <2>1 DEF Row
<1>12. Before(Allowed, Elements(b), Rest')
  <2>1. ASSUME NEW i \in P, NEW j \in DOMAIN q \ P PROVE <<q[i], q[j]>> \in Allowed
    <3>1. q[i] \in Arrived /\ q[j] \in Arrived /\ i \in DOMAIN q /\ i \in Nat /\ j \in Nat
      BY <1>4, <1>6, MessagesArrive
    <3>2. q[i].no \in Nat /\ q[j].no \in Nat
      BY <3>1, MessagesArrive
    <3>3. CASE i < j
      <4>1. q[i].no < q[j].no
        BY <1>4, <3>1, <3>3 DEF Increasing
      <4>2. q[i].no # q[j].no /\ ~ (q[j].no < q[i].no)
        BY <3>2, <4>1
      <4> QED
        BY <3>1, <4>2 DEF Allowed
    <3>4. CASE j < i
      <4>1. q[j].no < q[i].no
        BY <1>4, <3>1, <3>4 DEF Increasing
      <4>2. q[i].no # q[j].no
        BY <3>2, <4>1
      <4>3. q[i].size < q[j].size
        BY <1>6, <3>4
      <4> QED
        BY <3>1, <4>2, <4>3 DEF Allowed
    <3> QED
      BY <2>1, <3>1, <3>3, <3>4
  <2> QED
    BY <1>7, <1>10, <2>1 DEF Before
<1>13. /\ Len(wire) \in Nat /\ DOMAIN wire = 1..Len(wire)
       /\ wire' \in Seq(Seq(Messages))
       /\ \A i \in DOMAIN wire : wire'[i] = wire[i] /\ i \in DOMAIN wire'
       /\ \A i \in DOMAIN wire' :
             \/ i \in DOMAIN wire
             \/ wire'[i] = b /\ \A j \in DOMAIN wire' : ~ (i < j)
       /\ P # {} => Len(wire) + 1 \in DOMAIN wire' /\ wire'[Len(wire) + 1] = b
  <2>1. Len(wire) \in Nat /\ DOMAIN wire = 1..Len(wire)
    BY <1>2
  <2>2. CASE P = {}
    BY <1>2, <1>5, <2>1, <2>2
  <2>3. CASE P # {}
    <3>1. wire' = Append(wire, b)
      BY <1>5, <2>3
    <3>2. /\ DOMAIN wire' = 1..(Len(wire) + 1)
          /\ wire' \in Seq(Seq(Messages))
          /\ \A i \in DOMAIN wire : wire'[i] = wire[i]
          /\ wire'[Len(wire) + 1] = b
      BY <1>2, <1>10, <3>1
    <3>3. \A i \in 1..(Len(wire) + 1) :
             \/ i \in 1..Len(wire)
             \/ i = Len(wire) + 1 /\ \A j \in 1..(Len(wire) + 1) : ~ (i < j)
      BY <2>1
    <3>4. \A i \in 1..Len(wire) : i \in 1..(Len(wire) + 1)
      BY <2>1
    <3>5. Len(wire) + 1 \in 1..(Len(wire) + 1)
      BY <2>1
    <3> QED
      BY <2>1, <3>2, <3>3, <3>4, <3>5
  <2> QED
    BY <2>2, <2>3
<1>14. TypeOK'
  <2>1. sending' \subseteq DOMAIN outbox' \cap 1..MaxBits
    BY <1>5, <1>6 DEF q
  <2>2. Numbers(outbox') \subseteq 1..accepted'
    BY <1>9 DEF q
  <2> QED
    BY <1>1, <1>13, <2>1, <2>2 DEF TypeOK
<1>15. RowsAllowed'
  BY <1>1, <1>3, <1>11, <1>13 DEF RowsAllowed
<1>16. PipeAllowed'
  <2>1. ASSUME NEW i \in DOMAIN wire'
        PROVE  \/ i \in DOMAIN wire /\ wire'[i] = wire[i]
               \/ Elements(wire'[i]) = Elements(b) /\ Elements(wire'[i]) \subseteq Rest
    BY <1>10, <1>13
  <2>2. ASSUME NEW c \in Connections
        PROVE  /\ Before(Allowed, Elements(received), Elements(inbox[c]))
               /\ Before(Allowed, Elements(inbox[c]), Rest')
               /\ \A d \in Connections \ {c} :
                     Before(Allowed, Elements(inbox[c]), Elements(inbox[d]))
               /\ \A i \in DOMAIN wire' :
                     Before(Allowed, Elements(inbox[c]), Elements(wire'[i]))
    BY <1>1, <1>8, <2>1 DEF PipeAllowed, Before
  <2>3. ASSUME NEW i \in DOMAIN wire'
        PROVE  /\ Before(Allowed, Elements(received), Elements(wire'[i]))
               /\ Before(Allowed, Elements(wire'[i]), Rest')
    BY <1>1, <1>8, <1>12, <2>1 DEF PipeAllowed, Before
  <2>4. ASSUME NEW i \in DOMAIN wire', NEW j \in DOMAIN wire', i < j
        PROVE  Before(Allowed, Elements(wire'[i]), Elements(wire'[j]))
    <3>1. i \in DOMAIN wire /\ wire'[i] = wire[i]
      BY <1>13, <2>4
    <3> QED
      BY <1>1, <2>1, <2>4, <3>1 DEF PipeAllowed, Before
  <2>5. Before(Allowed, Elements(received), Rest')
    BY <1>1, <1>8 DEF PipeAllowed, Before
  <2> QED
    BY <1>3, <2>2, <2>3, <2>4, <2>5 DEF PipeAllowed
<1>17. WayKnown'
  <2>1. Numbers(b) \subseteq 1..accepted
    <3>1. Numbers(b) = {m.no : m \in Elements(b)} /\ Numbers(q) = {m.no : m \in Elements(q)}
      BY <1>4, <1>10, MemberFacts
    <3> QED
      BY <1>4, <1>9, <1>10, <3>1
  <2> QED
    BY <1>1, <1>13, <2>1 DEF WayKnown
<1>18. SendingThere'
  <2>1. ASSUME NEW i \in sending'
        PROVE  \E k \in DOMAIN wire' : outbox'[i].no \in Numbers(wire'[k])
    <3>1. i \in P /\ P # {}
      BY <1>5, <2>1
    <3>2. q[i] \in Elements(b)
      BY <1>10, <3>1
    <3>3. q[i].no \in Numbers(b)
      BY <1>10, <3>2, MemberFacts
    <3> QED
      BY <1>13, <3>1, <3>3 DEF q
  <2> QED
    BY <2>1 DEF SendingThere
<1> QED
  BY <1>14, <1>15, <1>16, <1>17, <1>18 DEF WayInv

(* start_send                                                              *)
LEMMA StartSendInv ==
    ASSUME WayInv, StartSend
    PROVE  WayInv'
<1>1. /\ TypeOK /\ connected /\ sending = {} /\ WriteBlock(outbox) /\ outbox' = outbox
      /\ UNCHANGED <<accepted, connected, breaks, inbox, received, retried, refused>>
  BY DEF WayInv, StartSend
<1>2. outbox' \in Seq(Messages) /\ Increasing(outbox')
  BY <1>1, TypeFacts
<1>3. Elements(outbox') = Rest
  BY <1>1 DEF Elements, Rest
<1>4. WriteBlock(outbox')
  BY <1>1
<1> QED
  BY <1>1, <1>2, <1>3, <1>4, WriteInv

(* handle_sent                                                             *)
LEMMA HandleSentInv ==
    ASSUME WayInv, HandleSent
    PROVE  WayInv'
<1> DEFINE S == DOMAIN outbox \ sending
<1>1. /\ TypeOK /\ connected /\ outbox' = Only(outbox, S) /\ WriteBlock(outbox')
      /\ UNCHANGED <<accepted, connected, breaks, inbox, received, retried, refused>>
  BY DEF WayInv, HandleSent, Cleanup
<1>2. outbox \in Seq(Messages) /\ Increasing(outbox) /\ S \in SUBSET DOMAIN outbox
  BY <1>1, TypeFacts
<1>3. Rest = {outbox[i] : i \in S}
  BY DEF Rest
<1> HIDE DEF S
<1>4. /\ Only(outbox, S) \in Seq(Messages) /\ Increasing(Only(outbox, S))
      /\ Elements(Only(outbox, S)) = {outbox[i] : i \in S}
  BY <1>2, OnlyFacts
<1>5. outbox' \in Seq(Messages) /\ Increasing(outbox') /\ Elements(outbox') = Rest
  BY <1>1, <1>3, <1>4
<1> QED
  BY <1>1, <1>5, WriteInv

(* What may come after the first connection broke may come in any order.   *)
LEMMA AnyOrder ==
    ASSUME breaks # 0, NEW a, NEW b, <<a, b>> \in Allowed
    PROVE  <<b, a>> \in Allowed
BY DEF Allowed

(* What goes to one inbox and what is in the others.                       *)
LEMMA OtherInboxes ==
    ASSUME TypeOK, PipeAllowed, WayKnown, NEW d \in Connections \ {breaks}, NEW i \in DOMAIN wire
    PROVE  Before(Allowed, Elements(wire[i]), Elements(inbox[d]))
<1>1. breaks \in Nat /\ d \in Nat
  BY TypeFacts DEF Connections
<1>2. CASE d > breaks
  BY <1>2 DEF WayKnown, Before, Elements
<1>3. CASE ~ (d > breaks)
  <2>1. breaks # 0
    BY <1>1, <1>3
  <2>2. Before(Allowed, Elements(inbox[d]), Elements(wire[i]))
    BY DEF PipeAllowed
  <2> QED
    BY <2>1, <2>2, AnyOrder DEF Before
<1> QED
  BY <1>2, <1>3

(* handle_received                                                         *)
LEMMA ReceiveInv ==
    ASSUME WayInv, Receive
    PROVE  WayInv'
<1> DEFINE b == Head(wire)
<1>1. /\ TypeOK /\ RowsAllowed /\ PipeAllowed /\ WayKnown /\ SendingThere
      /\ connected /\ wire # <<>> /\ wire' = Tail(wire)
      /\ inbox' = [inbox EXCEPT ![breaks] = @ \o b]
      /\ UNCHANGED <<accepted, outbox, connected, sending, breaks, received, retried, refused>>
  BY DEF WayInv, Receive
<1>2. /\ \A c \in Connections : inbox[c] \in Seq(Arrived)
      /\ wire \in Seq(Seq(Messages)) /\ breaks \in Connections
      /\ inbox \in [Connections -> Seq(Arrived)]
      /\ \A i \in DOMAIN wire : wire[i] \in Seq(Arrived)
  BY <1>1, TypeFacts DEF TypeOK, Arrived
<1>3. /\ wire' \in Seq(Seq(Messages)) /\ b = wire[1] /\ 1 \in DOMAIN wire
      /\ \A i \in DOMAIN wire' : wire'[i] = wire[i + 1] /\ i + 1 \in DOMAIN wire /\ 1 < i + 1
      /\ \A i \in DOMAIN wire : i = 1 \/ (i - 1 \in DOMAIN wire' /\ wire[i] = wire'[i - 1])
  <2>1. wire \in Seq(Seq(Messages)) /\ wire # <<>>
    BY <1>1, <1>2
  <2>2. /\ Tail(wire) \in Seq(Seq(Messages)) /\ b = wire[1] /\ 1 \in DOMAIN wire
        /\ \A i \in DOMAIN Tail(wire) : Tail(wire)[i] = wire[i + 1] /\ i + 1 \in DOMAIN wire
        /\ \A i \in DOMAIN wire :
              i = 1 \/ (i - 1 \in DOMAIN Tail(wire) /\ wire[i] = Tail(wire)[i - 1])
    BY <2>1, TailFacts
  <2>3. \A i \in DOMAIN Tail(wire) : 1 < i + 1
    BY <2>1
  <2> QED
    BY <1>1, <2>2, <2>3
<1>4. Allowed' = Allowed /\ Rest' = Rest
  BY <1>1 DEF Allowed, Rest
<1>5. b \in Seq(Arrived) /\ inbox[breaks] \in Seq(Arrived)
  BY <1>2, <1>3
<1> HIDE DEF b
<1>6. /\ inbox[breaks] \o b \in Seq(Arrived)
      /\ Elements(inbox[breaks] \o b) = Elements(inbox[breaks]) \cup Elements(b)
      /\ Numbers(inbox[breaks] \o b) = Numbers(inbox[breaks]) \cup Numbers(b)
  BY <1>5, ConcatFacts
<1>7. /\ \A c \in Connections : c # breaks => inbox'[c] = inbox[c]
      /\ inbox'[breaks] = inbox[breaks] \o b
      /\ inbox' \in [Connections -> Seq(Arrived)]
  BY <1>1, <1>2, <1>6
<1>8. TypeOK'
  BY <1>1, <1>3, <1>7 DEF TypeOK, Arrived
<1>9. RowsAllowed'
  <2>1. Row(Allowed, inbox[breaks] \o b)
    <3>1. Row(Allowed, inbox[breaks]) /\ Row(Allowed, b)
      BY <1>1, <1>2, <1>3 DEF RowsAllowed
    <3>2. Before(Allowed, Elements(inbox[breaks]), Elements(b))
      BY <1>1, <1>2, <1>3 DEF PipeAllowed
    <3> QED
      BY <1>5, <3>1, <3>2, ConcatFacts
  <2> QED
    BY <1>1, <1>3, <1>4, <1>7, <2>1 DEF RowsAllowed
<1>10. PipeAllowed'
  <2>1. \A c \in Connections : \/ inbox'[c] = inbox[c]
                               \/ /\ c = breaks
                                  /\ Elements(inbox'[c]) = Elements(inbox[c]) \cup Elements(b)
    BY <1>6, <1>7
  <2>2. ASSUME NEW c \in Connections
        PROVE  /\ Before(Allowed, Elements(received), Elements(inbox'[c]))
               /\ Before(Allowed, Elements(inbox'[c]), Rest)
    BY <1>1, <1>3, <2>1 DEF PipeAllowed, Before
  <2>3. ASSUME NEW c \in Connections, NEW d \in Connections \ {c}
        PROVE  Before(Allowed, Elements(inbox'[c]), Elements(inbox'[d]))
    <3>1. Before(Allowed, Elements(inbox[c]), Elements(inbox[d]))
      BY <1>1 DEF PipeAllowed
    <3>2. d = breaks => Before(Allowed, Elements(inbox[c]), Elements(b))
      BY <1>1, <1>3 DEF PipeAllowed
    <3>3. c = breaks => Before(Allowed, Elements(b), Elements(inbox[d]))
      BY <1>1, <1>3, OtherInboxes
    <3> QED
      BY <2>1, <3>1, <3>2, <3>3 DEF Before
  <2>4. ASSUME NEW c \in Connections, NEW i \in DOMAIN wire'
        PROVE  Before(Allowed, Elements(inbox'[c]), Elements(wire'[i]))
    <3>1. Before(Allowed, Elements(inbox[c]), Elements(wire'[i]))
      BY <1>1, <1>3 DEF PipeAllowed
    <3>2. Before(Allowed, Elements(b), Elements(wire'[i]))
      BY <1>1, <1>3 DEF PipeAllowed
    <3> QED
      BY <2>1, <3>1, <3>2 DEF Before
  <2>5. ASSUME NEW i \in DOMAIN wire'
        PROVE  /\ Before(Allowed, Elements(received), Elements(wire'[i]))
               /\ Before(Allowed, Elements(wire'[i]), Rest)
    BY <1>1, <1>3 DEF PipeAllowed
  <2>6. ASSUME NEW i \in DOMAIN wire', NEW j \in DOMAIN wire', i < j
        PROVE  Before(Allowed, Elements(wire'[i]), Elements(wire'[j]))
    <3>1. i + 1 < j + 1
      BY <1>3, <2>6
    <3> QED
      BY <1>1, <1>3, <3>1 DEF PipeAllowed
  <2>7. Before(Allowed, Elements(received), Rest)
    BY <1>1 DEF PipeAllowed
  <2> QED
    BY <1>1, <1>4, <2>2, <2>3, <2>4, <2>5, <2>6, <2>7 DEF PipeAllowed
<1>11. WayKnown'
  <2>1. Numbers(b) \subseteq 1..accepted
    BY <1>1, <1>3 DEF WayKnown
  <2>2. ~ (breaks > breaks)
    BY <1>2 DEF Connections
  <2> QED
    BY <1>1, <1>3, <1>6, <1>7, <2>1, <2>2 DEF WayKnown
<1>12. SendingThere'
  <2>1. ASSUME NEW i \in sending, NEW k \in DOMAIN wire, outbox[i].no \in Numbers(wire[k])
        PROVE  \/ outbox[i].no \in Numbers(b)
               \/ \E j \in DOMAIN wire' : outbox[i].no \in Numbers(wire'[j])
    BY <1>3, <2>1
  <2> QED
    BY <1>1, <1>6, <1>7, <2>1 DEF SendingThere
<1> QED
  BY <1>8, <1>9, <1>10, <1>11, <1>12 DEF WayInv

(* More is allowed when more was refused.                                  *)
LEMMA RefusedFacts ==
    ASSUME TypeOK, NEW c \in Connections, NEW n \in 0..Len(inbox[c]), Refused(c, n),
           UNCHANGED <<breaks, retried>>
    PROVE  /\ Allowed \subseteq Allowed'
           /\ refused' \in [Connections -> SUBSET (1..MaxSent)]
           /\ \A i \in 1..n : inbox[c][i].no \in refused'[c]
<1>1. /\ inbox[c] \in Seq(Arrived) /\ refused \in [Connections -> SUBSET (1..MaxSent)]
      /\ 0 \in Connections
  <2>1. inbox[c] \in Seq(Arrived)
    BY TypeFacts
  <2>2. refused \in [Connections -> SUBSET (1..MaxSent)]
    BY DEF TypeOK
  <2>3. 0 \in Connections
    BY StreamAssumption DEF Connections
  <2> QED
    BY <2>1, <2>2, <2>3
<1>2. \A i \in 1..n : inbox[c][i] \in Arrived
  BY <1>1
<1>3. \A i \in 1..n : inbox[c][i].no \in 1..MaxSent
  BY <1>2 DEF Arrived
<1> DEFINE new == {inbox[c][i].no : i \in 1..n}
<1>4. refused' = [refused EXCEPT ![c] = @ \cup new] /\ new \subseteq 1..MaxSent
  BY <1>3 DEF Refused
<1>5. \A i \in 1..n : inbox[c][i].no \in new
  OBVIOUS
<1> HIDE DEF new
<1>6. /\ refused' \in [Connections -> SUBSET (1..MaxSent)]
      /\ refused[0] \subseteq refused'[0] /\ new \subseteq refused'[c]
  BY <1>1, <1>4
<1>7. Allowed \subseteq Allowed'
  BY <1>6 DEF Allowed
<1> QED
  BY <1>5, <1>6, <1>7

(* The handler takes a message of an inbox, and refuses those before it.   *)
LEMMA FetchInv ==
    ASSUME WayInv, NEW c \in Connections, Fetch(c)
    PROVE  WayInv'
<1>0. PICK i \in DOMAIN inbox[c] :
         /\ Refused(c, i - 1)
         /\ received' = Append(received, inbox[c][i])
         /\ inbox' = [inbox EXCEPT ![c] = Only(@, DOMAIN @ \ {i})]
         /\ UNCHANGED <<accepted, outbox, connected, sending, wire, breaks, retried>>
  BY DEF Fetch, Without
<1> DEFINE h == inbox[c][i]
           S == DOMAIN inbox[c] \ {i}
           t == Only(inbox[c], S)
<1>1. /\ TypeOK /\ RowsAllowed /\ PipeAllowed /\ WayKnown /\ SendingThere
      /\ inbox[c] # <<>> /\ received' = Append(received, h)
      /\ UNCHANGED <<accepted, outbox, connected, sending, wire, breaks, retried>>
  BY <1>0 DEF WayInv
<1>2. /\ received \in Seq(Arrived) /\ breaks \in Connections /\ breaks \in Nat
      /\ inbox \in [Connections -> Seq(Arrived)] /\ inbox[c] \in Seq(Arrived)
  BY <1>1, TypeFacts DEF TypeOK, Arrived
<1>a. inbox' = [inbox EXCEPT ![c] = t]
  BY <1>0, <1>2
<1>b. S \in SUBSET DOMAIN inbox[c] /\ h \in Arrived
  BY <1>2
<1>c. /\ t \in Seq(Arrived) /\ Elements(t) = {inbox[c][j] : j \in S}
      /\ \A K : Row(K, inbox[c]) => Row(K, t)
  <2> HIDE DEF S
  <2> QED
    BY <1>2, <1>b, OnlyFacts
<1>3. /\ h \in Arrived /\ t \in Seq(Arrived)
      /\ Elements(inbox[c]) = {h} \cup Elements(t)
      /\ Numbers(inbox[c]) = {h.no} \cup Numbers(t)
  <2>1. Elements(inbox[c]) = {h} \cup Elements(t)
    BY <1>c DEF Elements
  <2>2. /\ Numbers(inbox[c]) = {m.no : m \in Elements(inbox[c])}
        /\ Numbers(t) = {m.no : m \in Elements(t)}
    <3> HIDE DEF t
    <3> QED
      BY <1>2, <1>c, MemberFacts
  <2> HIDE DEF t, h
  <2> QED
    BY <1>b, <1>c, <2>1, <2>2
<1> DEFINE K == Allowed'
<1>d. /\ Allowed \subseteq K /\ refused' \in [Connections -> SUBSET (1..MaxSent)]
      /\ \A j \in 1..(i - 1) : inbox[c][j].no \in refused'[c]
  <2>1. i - 1 \in 0..Len(inbox[c])
    BY <1>2
  <2> QED
    BY <1>0, <1>1, <2>1, RefusedFacts
<1>e. c <= breaks
  <2>1. ~ (c > breaks)
    BY <1>1 DEF WayKnown
  <2> QED
    BY <1>2, <2>1 DEF Connections
<1>4. Row(K, t) /\ Before(K, {h}, Elements(t))
  <2>1. Row(Allowed, inbox[c])
    BY <1>1 DEF RowsAllowed
  <2>2. Row(K, t)
    <3> HIDE DEF K, t
    <3> QED
      BY <1>c, <1>d, <2>1 DEF Row
  <2>3. ASSUME NEW j \in S PROVE <<h, inbox[c][j]>> \in K
    <3>1. i \in Nat /\ j \in Nat /\ j \in DOMAIN inbox[c] /\ i \in DOMAIN inbox[c]
      BY <1>2
    <3>2. CASE i < j
      <4>1. <<h, inbox[c][j]>> \in Allowed
        BY <2>1, <3>1, <3>2 DEF Row
      <4> HIDE DEF K, h
      <4> QED
        BY <1>d, <4>1
    <3>3. CASE j < i
      <4>1. <<inbox[c][j], h>> \in Allowed
        BY <2>1, <3>1, <3>3 DEF Row
      <4>2. inbox[c][j].no \in refused'[c]
        <5>1. j \in 1..(i - 1)
          BY <1>2, <3>1, <3>3
        <5> QED
          BY <1>d, <5>1
      <4>3. breaks' = 0 => inbox[c][j].no \in refused'[0]
        <5> HIDE DEF S
        <5> QED
          BY <1>0, <1>2, <1>e, <4>2 DEF Connections
      <4> HIDE DEF h, S
      <4> QED
        BY <1>0, <4>1, <4>3 DEF Allowed
    <3> QED
      BY <3>1, <3>2, <3>3
  <2>4. Before(K, {h}, Elements(t))
    <3> HIDE DEF K, h, t
    <3> QED
      BY <1>c, <2>3 DEF Before
  <2> QED
    BY <2>2, <2>4
<1> HIDE DEF h, t, S
<1>5. /\ received' \in Seq(Arrived)
      /\ Elements(received') = Elements(received) \cup {h}
      /\ Numbers(received') = Numbers(received) \cup {h.no}
  <2>1. /\ Append(received, h) \in Seq(Arrived)
        /\ Elements(Append(received, h)) = Elements(received) \cup {h}
        /\ Numbers(Append(received, h)) = Numbers(received) \cup {h.no}
    BY <1>2, <1>3, AppendFacts
  <2> QED
    BY <1>1, <2>1
<1>6. Rest' = Rest
  BY <1>1 DEF Rest
<1>7. /\ \A d \in Connections : d # c => inbox'[d] = inbox[d]
      /\ inbox'[c] = t
      /\ inbox' \in [Connections -> Seq(Arrived)]
  BY <1>a, <1>2, <1>3
<1>8. TypeOK'
  BY <1>1, <1>d, <1>5, <1>7 DEF TypeOK, Arrived
<1>k. Allowed' = K
  OBVIOUS
<1> HIDE DEF K
<1>f. ASSUME NEW X, NEW Y, Before(Allowed, X, Y) PROVE Before(K, X, Y)
  BY <1>d, <1>f DEF Before
<1>9. RowsAllowed'
  <2>1. Row(K, Append(received, h))
    <3>1. Row(Allowed, received) /\ Before(Allowed, Elements(received), {h})
      BY <1>1, <1>3 DEF RowsAllowed, PipeAllowed, Before
    <3>2. Row(K, received) /\ Before(K, Elements(received), {h})
      BY <1>d, <3>1 DEF Row, Before
    <3> QED
      BY <1>2, <1>3, <3>2, AppendRow
  <2>2. /\ \A d \in Connections : Row(K, inbox[d])
        /\ \A j \in DOMAIN wire : Row(K, wire[j])
    BY <1>1, <1>d DEF RowsAllowed, Row
  <2> QED
    BY <1>1, <1>4, <1>k, <1>7, <2>1, <2>2 DEF RowsAllowed
<1>10. PipeAllowed'
  <2>1. /\ Elements(inbox'[c]) \subseteq Elements(inbox[c]) /\ h \in Elements(inbox[c])
        /\ \A d \in Connections : Elements(inbox'[d]) \subseteq Elements(inbox[d])
    BY <1>3, <1>7
  <2>2. ASSUME NEW d \in Connections
        PROVE  /\ Before(K, Elements(received'), Elements(inbox'[d]))
               /\ Before(K, Elements(inbox'[d]), Rest)
               /\ \A e \in Connections \ {d} :
                     Before(K, Elements(inbox'[d]), Elements(inbox'[e]))
               /\ \A j \in DOMAIN wire :
                     Before(K, Elements(inbox'[d]), Elements(wire[j]))
    <3>1. Before(Allowed, Elements(received), Elements(inbox'[d]))
      BY <1>1, <2>1 DEF PipeAllowed, Before
    <3>2. Before(K, {h}, Elements(inbox'[d]))
      <4>1. CASE d = c
        BY <1>4, <1>7, <4>1
      <4>2. CASE d # c
        <5>1. Before(Allowed, {h}, Elements(inbox'[d]))
          BY <1>1, <2>1, <4>2 DEF PipeAllowed, Before
        <5> QED
          BY <1>f, <5>1
      <4> QED
        BY <4>1, <4>2
    <3>3. Before(K, Elements(received'), Elements(inbox'[d]))
      BY <1>f, <1>5, <3>1, <3>2 DEF Before
    <3>4. /\ Before(Allowed, Elements(inbox'[d]), Rest)
          /\ \A j \in DOMAIN wire : Before(Allowed, Elements(inbox'[d]), Elements(wire[j]))
      BY <1>1, <2>1 DEF PipeAllowed, Before
    <3>5. ASSUME NEW e \in Connections \ {d}
          PROVE  Before(Allowed, Elements(inbox'[d]), Elements(inbox'[e]))
      BY <1>1, <2>1 DEF PipeAllowed, Before
    <3> QED
      BY <1>f, <3>3, <3>4, <3>5
  <2>3. ASSUME NEW k \in DOMAIN wire
        PROVE  /\ Before(K, Elements(received'), Elements(wire[k]))
               /\ Before(K, Elements(wire[k]), Rest)
               /\ \A j \in DOMAIN wire :
                     k < j => Before(K, Elements(wire[k]), Elements(wire[j]))
    <3>1. /\ Before(Allowed, Elements(received'), Elements(wire[k]))
          /\ Before(Allowed, Elements(wire[k]), Rest)
          /\ \A j \in DOMAIN wire :
                k < j => Before(Allowed, Elements(wire[k]), Elements(wire[j]))
      BY <1>1, <1>5, <2>1 DEF PipeAllowed, Before
    <3> QED
      BY <1>f, <3>1
  <2>4. Before(K, Elements(received'), Rest)
    <3>1. Before(Allowed, Elements(received'), Rest)
      BY <1>1, <1>5, <2>1 DEF PipeAllowed, Before
    <3> QED
      BY <1>f, <3>1
  <2> QED
    BY <1>1, <1>k, <1>6, <2>2, <2>3, <2>4 DEF PipeAllowed
<1>11. WayKnown'
  <2>1. ~ (c > breaks)
    BY <1>1 DEF WayKnown
  <2> QED
    BY <1>1, <1>3, <1>5, <1>7, <2>1 DEF WayKnown
<1>12. SendingThere'
  BY <1>1, <1>2, <1>3, <1>5, <1>7 DEF SendingThere
<1> QED
  BY <1>8, <1>9, <1>10, <1>11, <1>12 DEF WayInv

(* The handler refuses messages of an inbox.                               *)
LEMMA RefuseInv ==
    ASSUME WayInv, NEW c \in Connections, Refuse(c)
    PROVE  WayInv'
<1>1. PICK n \in 1..Len(inbox[c]) : Refused(c, n)
  BY DEF Refuse
<1>2. /\ TypeOK /\ RowsAllowed /\ PipeAllowed /\ WayKnown /\ SendingThere
      /\ UNCHANGED <<accepted, outbox, connected, sending, wire, breaks, inbox,
                     received, retried>>
  BY DEF WayInv, Refuse
<1> DEFINE K == Allowed'
<1>3. Allowed \subseteq K /\ refused' \in [Connections -> SUBSET (1..MaxSent)]
  <2>1. n \in 0..Len(inbox[c])
    BY <1>2, TypeFacts
  <2> QED
    BY <1>1, <1>2, <2>1, RefusedFacts
<1>4. Rest' = Rest
  BY <1>2 DEF Rest
<1>k. Allowed' = K
  OBVIOUS
<1> HIDE DEF K
<1>5. TypeOK'
  BY <1>2, <1>3 DEF TypeOK
<1>6. ASSUME NEW X, NEW Y, Before(Allowed, X, Y) PROVE Before(K, X, Y)
  BY <1>3, <1>6 DEF Before
<1>7. ASSUME NEW q, Row(Allowed, q) PROVE Row(K, q)
  BY <1>3, <1>7 DEF Row
<1>8. RowsAllowed'
  BY <1>2, <1>k, <1>7 DEF RowsAllowed
<1>9. PipeAllowed'
  BY <1>2, <1>k, <1>4, <1>6 DEF PipeAllowed
<1>10. WayKnown' /\ SendingThere'
  BY <1>2 DEF WayKnown, SendingThere
<1> QED
  BY <1>5, <1>8, <1>9, <1>10 DEF WayInv

(* The acceptor's side drops what was not fetched of an old connection.    *)
LEMMA DropInv ==
    ASSUME WayInv, NEW c \in Connections, Drop(c)
    PROVE  WayInv'
<1>1. /\ TypeOK /\ RowsAllowed /\ PipeAllowed /\ WayKnown /\ SendingThere
      /\ c < breaks /\ inbox' = [inbox EXCEPT ![c] = <<>>]
      /\ UNCHANGED <<accepted, outbox, connected, sending, wire, breaks, received, retried, refused>>
  BY DEF WayInv, Drop
<1>2. breaks \in Connections /\ inbox \in [Connections -> Seq(Arrived)] /\ <<>> \in Seq(Arrived)
      /\ breaks \in Nat
  <2>1. <<>> \in Seq(Arrived)
    OBVIOUS
  <2> QED
    BY <1>1, <2>1, TypeFacts DEF TypeOK, Arrived
<1>3. /\ \A d \in Connections : inbox'[d] = inbox[d] \/ inbox'[d] = <<>>
      /\ inbox'[breaks] = inbox[breaks]
      /\ inbox' \in [Connections -> Seq(Arrived)]
  <2>1. c # breaks
    BY <1>1, <1>2
  <2> QED
    BY <1>1, <1>2, <2>1
<1>4. \A d \in Connections : Elements(inbox'[d]) \subseteq Elements(inbox[d])
  BY <1>3 DEF Elements
<1>5. Allowed' = Allowed /\ Rest' = Rest
  BY <1>1 DEF Allowed, Rest
<1>6. TypeOK'
  BY <1>1, <1>3 DEF TypeOK, Arrived
<1>7. RowsAllowed'
  BY <1>1, <1>3, <1>5 DEF RowsAllowed, Row
<1>8. PipeAllowed'
  <2>1. ASSUME NEW d \in Connections
        PROVE  /\ Before(Allowed, Elements(received), Elements(inbox'[d]))
               /\ Before(Allowed, Elements(inbox'[d]), Rest)
               /\ \A e \in Connections \ {d} :
                     Before(Allowed, Elements(inbox'[d]), Elements(inbox'[e]))
               /\ \A i \in DOMAIN wire :
                     Before(Allowed, Elements(inbox'[d]), Elements(wire[i]))
    BY <1>1, <1>4 DEF PipeAllowed, Before
  <2> QED
    BY <1>1, <1>5, <2>1 DEF PipeAllowed
<1>9. WayKnown'
  BY <1>1, <1>3 DEF WayKnown, Numbers
<1>10. SendingThere'
  BY <1>1, <1>3 DEF SendingThere
<1> QED
  BY <1>6, <1>7, <1>8, <1>9, <1>10 DEF WayInv

(* The connection is made again, or nothing changes.                       *)
LEMMA ConnectInv ==
    ASSUME WayInv, Connect \/ UNCHANGED vars
    PROVE  WayInv'
<1>1. /\ UNCHANGED <<accepted, outbox, sending, wire, breaks, inbox, received, retried, refused>>
      /\ connected' \in BOOLEAN /\ (connected => connected')
  BY DEF Connect, vars, WayInv, TypeOK
<1>2. Allowed' = Allowed /\ Rest' = Rest
  BY <1>1 DEF Allowed, Rest
<1>3. TypeOK'
  BY <1>1 DEF WayInv, TypeOK
<1> QED
  BY <1>1, <1>2, <1>3 DEF WayInv, RowsAllowed, PipeAllowed, WayKnown, SendingThere

(* What arrives of a block that is cut off are messages of the block, in   *)
(* its order, the last of which may be cut short.                          *)
LEMMA ArrivalFacts ==
    ASSUME NEW b \in Seq(Messages), NEW q \in ArrivalsOf(b)
    PROVE  /\ q \in Seq(Arrived)
           /\ \A i \in DOMAIN q : i \in DOMAIN b /\ q[i].no = b[i].no
<1>1. Len(b) \in Nat /\ DOMAIN b = 1..Len(b) /\ b \in Seq(Arrived)
  BY MessagesArrive
<1>2. ASSUME NEW n \in 0..Len(b)
      PROVE  /\ SubSeq(b, 1, n) \in Seq(Arrived) /\ Len(SubSeq(b, 1, n)) = n
             /\ DOMAIN SubSeq(b, 1, n) = 1..n
             /\ \A i \in 1..n : i \in DOMAIN b /\ SubSeq(b, 1, n)[i] = b[i]
  <2>1. n \in Nat /\ n <= Len(b)
    BY <1>1
  <2>2. \A i \in 1..n : i \in 1..Len(b)
    BY <1>1, <2>1
  <2>3. SubSeq(b, 1, n) = [i \in 1..n |-> b[i]]
    BY <1>1, <2>1
  <2>4. SubSeq(b, 1, n) \in [1..n -> Arrived]
    <3>1. \A i \in 1..Len(b) : b[i] \in Arrived
      BY <1>1
    <3> QED
      BY <2>2, <2>3, <3>1
  <2> QED
    BY <1>1, <2>1, <2>2, <2>3, <2>4
<1>3. CASE \E n \in 0..Len(b) : q = SubSeq(b, 1, n)
  BY <1>2, <1>3
<1>4. ASSUME NEW n \in 1..Len(b), q = Append(SubSeq(b, 1, n - 1), CutShort(b[n]))
      PROVE  /\ q \in Seq(Arrived)
             /\ \A i \in DOMAIN q : i \in DOMAIN b /\ q[i].no = b[i].no
  <2> DEFINE p == SubSeq(b, 1, n - 1)
             m == CutShort(b[n])
  <2>1. n - 1 \in 0..Len(b) /\ (n - 1) + 1 = n /\ n \in DOMAIN b
    BY <1>1
  <2>2. /\ p \in Seq(Arrived) /\ Len(p) = n - 1
        /\ \A i \in 1..(n - 1) : i \in DOMAIN b /\ p[i] = b[i]
    BY <1>2, <2>1
  <2>3. m \in Arrived /\ m.no = b[n].no
    <3>1. b[n] \in Messages
      BY <2>1
    <3>2. \A x \in Messages : CutShort(x) \in Arrived /\ CutShort(x).no = x.no
      BY DEF CutShort, Messages, Arrived
    <3> QED
      BY <3>1, <3>2
  <2>4. q = Append(p, m)
    BY <1>4
  <2> HIDE DEF p, m
  <2>5. /\ q \in Seq(Arrived) /\ DOMAIN q = 1..((n - 1) + 1)
        /\ \A i \in 1..(n - 1) : q[i] = p[i]
        /\ q[(n - 1) + 1] = m
    BY <2>2, <2>3, <2>4
  <2>6. \A i \in 1..n : i \in 1..(n - 1) \/ i = n
    BY <1>1
  <2> QED
    BY <2>1, <2>2, <2>3, <2>5, <2>6
<1>5. \/ \E n \in 0..Len(b) : q = SubSeq(b, 1, n)
      \/ \E n \in 1..Len(b) : q = Append(SubSeq(b, 1, n - 1), CutShort(b[n]))
  BY DEF ArrivalsOf
<1> QED
  BY <1>3, <1>4, <1>5

(* When the connection breaks only the numbers of messages matter.         *)
LEMMA AllowedAfter ==
    ASSUME breaks \in Nat, breaks' = breaks + 1, retried \subseteq retried',
           NEW a, NEW b, <<a, b>> \in Allowed,
           NEW x \in Arrived, NEW y \in Arrived,
           (x.no = a.no /\ y.no = b.no) \/ (x.no = b.no /\ y.no = a.no)
    PROVE  <<x, y>> \in Allowed'
<1>1. breaks' # 0
  OBVIOUS
<1>2. a.no = b.no => a.no \in retried
  BY DEF Allowed
<1> QED
  BY <1>1, <1>2 DEF Allowed

(* The connection breaks.                                                  *)
LEMMA BreakInv ==
    ASSUME WayInv, Break
    PROVE  WayInv'
<1>1. /\ TypeOK /\ RowsAllowed /\ PipeAllowed /\ WayKnown /\ SendingThere
      /\ breaks < MaxBreaks /\ connected' = FALSE /\ breaks' = breaks + 1
      /\ sending' = {} /\ retried' = retried \cup {outbox[i].no : i \in sending}
      /\ wire' = <<>> /\ DOMAIN wire' = {}
      /\ UNCHANGED <<accepted, outbox, received, refused>>
  BY DEF WayInv, Break
<1>2. PICK q \in Arrivals : inbox' = [inbox EXCEPT ![breaks] = @ \o q]
  BY DEF Break
<1>3. /\ received \in Seq(Arrived) /\ inbox \in [Connections -> Seq(Arrived)]
      /\ \A c \in Connections : inbox[c] \in Seq(Arrived)
      /\ wire \in Seq(Seq(Messages)) /\ outbox \in Seq(Arrived)
      /\ breaks \in Connections /\ breaks \in Nat /\ accepted \in Nat
      /\ Numbers(outbox) \subseteq 1..accepted
  BY <1>1, TypeFacts DEF TypeOK, Arrived
<1>4. /\ q \in Seq(Arrived)
      /\ \A i \in DOMAIN q :
            1 \in DOMAIN wire /\ i \in DOMAIN wire[1] /\ q[i].no = wire[1][i].no
  <2>1. CASE wire = <<>>
    <3>1. q = <<>>
      BY <2>1 DEF Arrivals
    <3> QED
      BY <3>1
  <2>2. CASE wire # <<>>
    <3>1. q \in ArrivalsOf(wire[1]) /\ wire[1] \in Seq(Messages) /\ 1 \in DOMAIN wire
      BY <1>3, <2>2 DEF Arrivals
    <3> QED
      BY <3>1, ArrivalFacts
  <2> QED
    BY <2>1, <2>2
<1>5. /\ inbox[breaks] \o q \in Seq(Arrived)
      /\ Elements(inbox[breaks] \o q) = Elements(inbox[breaks]) \cup Elements(q)
      /\ Numbers(inbox[breaks] \o q) = Numbers(inbox[breaks]) \cup Numbers(q)
  BY <1>3, <1>4, ConcatFacts
<1>6. /\ \A c \in Connections : c # breaks => inbox'[c] = inbox[c]
      /\ inbox'[breaks] = inbox[breaks] \o q
      /\ inbox' \in [Connections -> Seq(Arrived)]
  BY <1>2, <1>3, <1>5
<1>7. /\ breaks \in Nat /\ breaks' = breaks + 1 /\ retried \subseteq retried'
      /\ breaks' \in 0..MaxBreaks /\ breaks' # 0
  BY <1>1, <1>3, StreamAssumption
<1>8. Allowed \subseteq Allowed'
  <2>1. ASSUME NEW p \in Allowed PROVE p \in Allowed'
    BY <1>7, <2>1 DEF Allowed
  <2> QED
    BY <2>1
<1>9. \A x \in Elements(q) : /\ x \in Arrived /\ 1 \in DOMAIN wire
                            /\ \E a \in Elements(wire[1]) : a.no = x.no
  <2>1. ASSUME NEW i \in DOMAIN q
        PROVE  /\ q[i] \in Arrived /\ 1 \in DOMAIN wire
               /\ \E a \in Elements(wire[1]) : a.no = q[i].no
    BY <1>4, <2>1 DEF Elements
  <2> QED
    BY <2>1 DEF Elements
<1>10. Rest' \subseteq Arrived /\ \A x \in Rest' : x \in Rest \/ x.no \in retried'
  <2>1. Rest' = {outbox[i] : i \in DOMAIN outbox}
    BY <1>1 DEF Rest
  <2> QED
    BY <1>1, <1>3, <2>1 DEF Rest
<1>11. ASSUME NEW A \in SUBSET Arrived, Before(Allowed, A, Rest)
       PROVE  Before(Allowed', A, Rest')
  <2>1. ASSUME NEW a \in A, NEW x \in Rest' PROVE <<a, x>> \in Allowed'
    <3>1. CASE x \in Rest
      BY <1>8, <1>11, <3>1 DEF Before
    <3>2. CASE x.no \in retried'
      <4>1. a \in Arrived /\ x \in Arrived
        BY <1>10
      <4> QED
        BY <1>7, <3>2, <4>1 DEF Allowed
    <3> QED
      BY <1>10, <3>1, <3>2
  <2> QED
    BY <2>1 DEF Before
<1>12. ASSUME NEW A \in SUBSET Arrived, 1 \in DOMAIN wire => Before(Allowed, A, Elements(wire[1]))
       PROVE  Before(Allowed', A, Elements(q)) /\ Before(Allowed', Elements(q), A)
  <2>1. ASSUME NEW a \in A, NEW x \in Elements(q)
        PROVE  <<a, x>> \in Allowed' /\ <<x, a>> \in Allowed'
    <3>1. 1 \in DOMAIN wire /\ x \in Arrived /\ a \in Arrived
      BY <1>9
    <3>2. PICK y \in Elements(wire[1]) : y.no = x.no
      BY <1>9
    <3>3. <<a, y>> \in Allowed
      BY <1>12, <3>1, <3>2 DEF Before
    <3>4. <<a, x>> \in Allowed'
      BY <1>7, <3>1, <3>2, <3>3, AllowedAfter
    <3>5. <<x, a>> \in Allowed'
      BY <1>7, <3>1, <3>2, <3>3, AllowedAfter
    <3> QED
      BY <3>4, <3>5
  <2> QED
    BY <2>1 DEF Before
<1>13. ASSUME NEW c \in Connections
       PROVE  /\ Elements(inbox[c]) \in SUBSET Arrived
              /\ 1 \in DOMAIN wire => Before(Allowed, Elements(inbox[c]), Elements(wire[1]))
  BY <1>1, <1>3, MemberFacts DEF PipeAllowed
<1>14. /\ Elements(received) \in SUBSET Arrived
       /\ 1 \in DOMAIN wire => Before(Allowed, Elements(received), Elements(wire[1]))
  BY <1>1, <1>3, MemberFacts DEF PipeAllowed
<1>15. TypeOK'
  <2>1. retried' \subseteq 1..accepted
    BY <1>1, <1>3 DEF TypeOK, Numbers
  <2>2. wire' \in Seq(Seq(Messages))
    BY <1>1
  <2> QED
    BY <1>1, <1>6, <1>7, <2>1, <2>2 DEF TypeOK, Arrived
<1>16. RowsAllowed'
  <2>1. \A s : Row(Allowed, s) => Row(Allowed', s)
    BY <1>8 DEF Row
  <2>2. Row(Allowed', q)
    <3>1. ASSUME NEW i \in DOMAIN q, NEW j \in DOMAIN q, i < j
          PROVE  <<q[i], q[j]>> \in Allowed'
      <4>1. /\ <<wire[1][i], wire[1][j]>> \in Allowed
            /\ q[i] \in Arrived /\ q[j] \in Arrived
            /\ q[i].no = wire[1][i].no /\ q[j].no = wire[1][j].no
        BY <1>1, <1>4, <3>1 DEF RowsAllowed, Row
      <4> QED
        BY <1>7, <4>1, AllowedAfter
    <3> QED
      BY <3>1 DEF Row
  <2>3. Row(Allowed', inbox[breaks] \o q)
    <3>1. Row(Allowed', inbox[breaks])
      BY <1>1, <1>3, <2>1 DEF RowsAllowed
    <3>2. Before(Allowed', Elements(inbox[breaks]), Elements(q))
      BY <1>3, <1>12, <1>13
    <3> QED
      BY <1>3, <1>4, <2>2, <3>1, <3>2, ConcatFacts
  <2> QED
    BY <1>1, <1>6, <2>1, <2>3 DEF RowsAllowed
<1>17. PipeAllowed'
  <2>1. \A c \in Connections : \/ inbox'[c] = inbox[c]
                               \/ /\ c = breaks
                                  /\ Elements(inbox'[c]) = Elements(inbox[c]) \cup Elements(q)
    BY <1>5, <1>6
  <2>2. \A A, B : Before(Allowed, A, B) => Before(Allowed', A, B)
    BY <1>8 DEF Before
  <2>3. ASSUME NEW c \in Connections
        PROVE  Before(Allowed', Elements(received), Elements(inbox'[c]))
    <3>1. Before(Allowed', Elements(received), Elements(inbox[c]))
      BY <1>1, <2>2 DEF PipeAllowed
    <3>2. Before(Allowed', Elements(received), Elements(q))
      BY <1>12, <1>14
    <3> QED
      BY <2>1, <3>1, <3>2 DEF Before
  <2>4. ASSUME NEW c \in Connections
        PROVE  Before(Allowed', Elements(inbox'[c]), Rest')
    <3>1. Before(Allowed, Elements(inbox[c]), Rest)
      BY <1>1 DEF PipeAllowed
    <3>2. Before(Allowed', Elements(inbox[c]), Rest')
      BY <1>11, <1>13, <3>1
    <3>3. Before(Allowed', Elements(q), Rest')
      <4>1. ASSUME NEW x \in Elements(q), NEW r \in Rest' PROVE <<x, r>> \in Allowed'
        <5>1. PICK y \in Elements(wire[1]) : y.no = x.no
          BY <1>9
        <5>2. 1 \in DOMAIN wire /\ x \in Arrived /\ r \in Arrived
          BY <1>9, <1>10
        <5>3. CASE r \in Rest
          <6>1. <<y, r>> \in Allowed
            BY <1>1, <5>1, <5>2, <5>3 DEF PipeAllowed, Before
          <6> QED
            BY <1>7, <5>1, <5>2, <6>1, AllowedAfter
        <5>4. CASE r.no \in retried'
          BY <1>7, <5>2, <5>4 DEF Allowed
        <5> QED
          BY <1>10, <5>3, <5>4
      <4> QED
        BY <4>1 DEF Before
    <3> QED
      BY <2>1, <3>2, <3>3 DEF Before
  <2>5. ASSUME NEW c \in Connections, NEW d \in Connections \ {c}
        PROVE  Before(Allowed', Elements(inbox'[c]), Elements(inbox'[d]))
    <3>1. Before(Allowed', Elements(inbox[c]), Elements(inbox[d]))
      BY <1>1, <2>2 DEF PipeAllowed
    <3>2. Before(Allowed', Elements(inbox[c]), Elements(q))
      BY <1>12, <1>13
    <3>3. Before(Allowed', Elements(q), Elements(inbox[d]))
      BY <1>12, <1>13
    <3> QED
      BY <2>1, <3>1, <3>2, <3>3 DEF Before
  <2>6. Before(Allowed', Elements(received), Rest')
    BY <1>1, <1>11, <1>14 DEF PipeAllowed
  <2> QED
    BY <1>1, <2>3, <2>4, <2>5, <2>6 DEF PipeAllowed
<1>18. WayKnown'
  <2>1. Numbers(q) \subseteq 1..accepted
    BY <1>1, <1>4 DEF WayKnown, Numbers
  <2>2. \A c \in Connections : c > breaks + 1 => c > breaks /\ c # breaks
    BY <1>3 DEF Connections
  <2> QED
    BY <1>1, <1>5, <1>6, <1>7, <2>1, <2>2 DEF WayKnown
<1>19. SendingThere'
  BY <1>1 DEF SendingThere
<1> QED
  BY <1>15, <1>16, <1>17, <1>18, <1>19 DEF WayInv

(* The initial states.                                                     *)
LEMMA InitInv == Init => WayInv
<1> SUFFICES ASSUME Init PROVE WayInv
  OBVIOUS
<1>1. /\ outbox = <<>> /\ DOMAIN outbox = {} /\ Elements(outbox) = {} /\ Numbers(outbox) = {}
      /\ received = <<>> /\ DOMAIN received = {} /\ Elements(received) = {}
      /\ Numbers(received) = {} /\ wire = <<>> /\ DOMAIN wire = {}
  BY DEF Init, Elements, Numbers
<1>2. \A c \in Connections : /\ inbox[c] = <<>> /\ DOMAIN inbox[c] = {}
                             /\ Elements(inbox[c]) = {} /\ Numbers(inbox[c]) = {}
  BY DEF Init, Elements, Numbers
<1>3. TypeOK
  <2>1. Increasing(outbox)
    BY <1>1 DEF Increasing
  <2>2. /\ outbox \in Seq(Messages) /\ wire \in Seq(Seq(Messages))
        /\ received \in Seq([no : 1..MaxSent, size : Sizes \cup {0}])
        /\ inbox \in [Connections -> Seq([no : 1..MaxSent, size : Sizes \cup {0}])]
    BY <1>1 DEF Init
  <2>3. /\ accepted \in 0..MaxSent /\ breaks \in 0..MaxBreaks /\ connected \in BOOLEAN
        /\ sending = {} /\ retried = {}
        /\ refused \in [Connections -> SUBSET (1..MaxSent)]
    <3>1. \A n \in Nat : 0 \in 0..n
      OBVIOUS
    <3>2. MaxSent \in Nat /\ MaxBreaks \in Nat
      BY StreamAssumption
    <3> QED
      BY <3>1, <3>2 DEF Init
  <2> QED
    BY <1>1, <2>1, <2>2, <2>3 DEF TypeOK
<1>4. Rest = {}
  BY <1>1 DEF Rest
<1>5. RowsAllowed /\ PipeAllowed
  BY <1>1, <1>2, <1>4 DEF RowsAllowed, PipeAllowed, Row, Before
<1> QED
  BY <1>1, <1>2, <1>3, <1>5 DEF WayInv, WayKnown, SendingThere, Init

(* Every step keeps the invariant.                                         *)
LEMMA NextInv == WayInv /\ [Next]_vars => WayInv'
<1> SUFFICES ASSUME WayInv, [Next]_vars PROVE WayInv'
  OBVIOUS
<1> QED
  BY SendInv, StartSendInv, HandleSentInv, ReceiveInv, FetchInv, RefuseInv, DropInv,
     BreakInv, ConnectInv DEF Next

(* The invariant that the theorems follow from.                            *)
LEMMA WayCorrect == Spec => []WayInv
BY InitInv, NextInv, PTL DEF Spec

(* For all sizes of messages and blocks: the state has its type, a block   *)
(* that pack_into makes never has more messages than bits, and as long as  *)
(* the connection does not break a message is overtaken only by smaller    *)
(* ones, unless its handler refused it.                                    *)
THEOREM StreamCorrect == Spec => []StreamInv
<1>1. WayInv => StreamInv
  <2> SUFFICES ASSUME WayInv PROVE TypeOK /\ OvertakenOnlyBySmaller
    BY DEF StreamInv
  <2> QED
    BY DEF WayInv, RowsAllowed, Row, Allowed, OvertakenOnlyBySmaller
<1> QED
  BY WayCorrect, <1>1, PTL

(* However blocks are written, read, cut off and sent again, the handler   *)
(* is called twice only with messages that were in a block which was being *)
(* written when a connection broke.                                        *)
THEOREM NoOtherDuplicates == Spec => []DuplicatesOnlyRetried
<1>1. WayInv => DuplicatesOnlyRetried
  <2> SUFFICES ASSUME WayInv, NEW i \in DOMAIN received, NEW j \in DOMAIN received,
                      i # j, received[i].no = received[j].no
               PROVE  received[i].no \in retried
    BY DEF DuplicatesOnlyRetried
  <2>1. i \in Nat /\ j \in Nat /\ Row(Allowed, received)
    BY TypeFacts DEF WayInv, RowsAllowed
  <2>2. i < j \/ j < i
    BY <2>1
  <2> QED
    BY <2>1, <2>2 DEF Row, Allowed
<1> QED
  BY WayCorrect, <1>1, PTL
-----------------------------------------------------------------------------
(* The refinement.                                                         *)

OnWire == UNION {Numbers(wire[i]) : i \in DOMAIN wire}
Transit == Underway \ Numbers(received)
Handled == [i \in DOMAIN received |-> received[i].no]

(* The messages that a block takes out of the outbox stay underway.        *)
LEMMA WriteRefines ==
    ASSUME WayInv, outbox' \in Seq(Messages), Elements(outbox') = Rest,
           WriteBlock(outbox'), UNCHANGED <<accepted, breaks, inbox, received>>
    PROVE  breaks' = 0 => UNCHANGED <<accepted, Transit, Handled>>
<1> SUFFICES ASSUME breaks = 0 PROVE Transit' = Transit
  BY DEF Handled
<1> DEFINE q == outbox'
           P == Packed(q)
           b == Block(q, P)
<1>1. TypeOK /\ SendingThere
  BY DEF WayInv
<1>2. /\ outbox \in Seq(Messages) /\ wire \in Seq(Seq(Messages))
      /\ sending \subseteq DOMAIN outbox
  BY <1>1, TypeFacts DEF TypeOK
<1>3. q \in Seq(Messages) /\ Elements(q) = Rest
  OBVIOUS
<1>4. wire' = IF P = {} THEN wire ELSE Append(wire, b)
  BY DEF WriteBlock
<1> HIDE DEF q
<1>5. P \in SUBSET DOMAIN q
  BY <1>3, PackedFacts
<1> HIDE DEF P
<1>6. b \in Seq(Messages) /\ Elements(b) = {q[i] : i \in P}
  BY <1>3, <1>5, OnlyFacts DEF Block
<1> HIDE DEF b
<1>7. Numbers(b) \subseteq Numbers(q)
  <2>1. Elements(b) \subseteq Elements(q)
    BY <1>5, <1>6 DEF Elements
  <2> QED
    BY <1>3, <1>6, <2>1, MemberFacts
<1>8. Numbers(outbox) = Numbers(q) \cup {outbox[i].no : i \in sending}
  <2>1. Elements(outbox) = Rest \cup {outbox[i] : i \in sending}
    BY <1>2 DEF Elements, Rest
  <2>2. Numbers(outbox) = {m.no : m \in Elements(outbox)} /\ Numbers(q) = {m.no : m \in Rest}
    BY <1>2, <1>3, MemberFacts
  <2> QED
    BY <2>1, <2>2
<1>9. OnWire \subseteq OnWire' /\ OnWire' \subseteq OnWire \cup Numbers(b)
  <2>1. CASE P = {}
    BY <1>4, <2>1 DEF OnWire
  <2>2. CASE P # {}
    <3>1. wire' = Append(wire, b)
      BY <1>4, <2>2
    <3>2. /\ Len(wire) \in Nat /\ DOMAIN wire = 1..Len(wire)
          /\ DOMAIN wire' = 1..(Len(wire) + 1)
          /\ \A i \in 1..Len(wire) : wire'[i] = wire[i] /\ i \in 1..(Len(wire) + 1)
          /\ wire'[Len(wire) + 1] = b
          /\ \A i \in 1..(Len(wire) + 1) : i \in 1..Len(wire) \/ i = Len(wire) + 1
      BY <1>2, <1>6, <3>1
    <3>3. ASSUME NEW i \in DOMAIN wire PROVE Numbers(wire[i]) \subseteq OnWire'
      BY <3>2, <3>3 DEF OnWire
    <3>4. ASSUME NEW i \in DOMAIN wire'
          PROVE  Numbers(wire'[i]) \subseteq OnWire \cup Numbers(b)
      BY <3>2, <3>4 DEF OnWire
    <3> QED
      BY <3>3, <3>4 DEF OnWire
  <2> QED
    BY <2>1, <2>2
<1>10. {outbox[i].no : i \in sending} \subseteq Numbers(received) \cup Numbers(inbox[0]) \cup OnWire
  BY <1>1 DEF SendingThere, OnWire
<1>11. /\ Underway = Numbers(outbox) \cup Numbers(inbox[0]) \cup OnWire
       /\ Underway' = Numbers(q) \cup Numbers(inbox[0]) \cup OnWire'
  BY DEF Underway, OnWire, q
<1>12. Underway' \subseteq Underway
  BY <1>7, <1>8, <1>9, <1>11
<1>13. Underway \subseteq Underway' \cup Numbers(received)
  BY <1>8, <1>9, <1>10, <1>11
<1> QED
  BY <1>12, <1>13 DEF Transit

(* A step of the connection before it breaks is a step of the channel, or  *)
(* is not seen in the channel.                                             *)
LEMMA StepRefines ==
    ASSUME WayInv, [Next]_vars, breaks' = 0
    PROVE  \/ accepted' = accepted + 1 /\ Transit' = Transit \cup {accepted + 1}
              /\ Handled' = Handled
           \/ \E m \in Transit : /\ Transit' = Transit \ {m}
                                 /\ Handled' = Append(Handled, m)
                                 /\ accepted' = accepted
           \/ UNCHANGED <<accepted, Transit, Handled>>
<1>1. /\ TypeOK /\ RowsAllowed /\ PipeAllowed /\ WayKnown
      /\ received \in Seq(Arrived) /\ outbox \in Seq(Messages)
      /\ \A c \in Connections : inbox[c] \in Seq(Arrived)
      /\ inbox \in [Connections -> Seq(Arrived)]
      /\ wire \in Seq(Seq(Messages)) /\ accepted \in Nat /\ breaks \in Nat
      /\ breaks \in Connections
  BY TypeFacts DEF WayInv, TypeOK, Arrived
<1>2. ASSUME NEW s \in Sizes, Send(s)
      PROVE  /\ accepted' = accepted + 1 /\ Transit' = Transit \cup {accepted + 1}
             /\ Handled' = Handled
  <2> DEFINE m == [no |-> accepted + 1, size |-> s]
  <2>1. /\ outbox' = Append(outbox, m) /\ accepted' = accepted + 1 /\ m.no = accepted + 1
        /\ UNCHANGED <<wire, inbox, received>>
    BY <1>2 DEF Send
  <2>2. m \in Messages
    <3>1. accepted + 1 \in 1..MaxSent
      BY <1>1, <1>2, StreamAssumption DEF Send
    <3> QED
      BY <3>1 DEF Messages
  <2> HIDE DEF m
  <2>3. Numbers(Append(outbox, m)) = Numbers(outbox) \cup {m.no}
    BY <1>1, <2>2, AppendFacts
  <2>4. Underway' = Underway \cup {accepted + 1}
    BY <2>1, <2>3 DEF Underway
  <2>5. accepted + 1 \notin Numbers(received)
    BY <1>1 DEF WayKnown
  <2> QED
    BY <2>1, <2>4, <2>5 DEF Transit, Handled
<1>3. ASSUME StartSend PROVE UNCHANGED <<accepted, Transit, Handled>>
  <2>1. Elements(outbox') = Rest /\ WriteBlock(outbox') /\ outbox' = outbox
        /\ UNCHANGED <<accepted, breaks, inbox, received>>
    BY <1>3 DEF StartSend, Elements, Rest
  <2> QED
    BY <1>1, <2>1, WriteRefines
<1>4. ASSUME HandleSent PROVE UNCHANGED <<accepted, Transit, Handled>>
  <2> DEFINE S == DOMAIN outbox \ sending
  <2>1. outbox' = Only(outbox, S) /\ WriteBlock(outbox')
        /\ UNCHANGED <<accepted, breaks, inbox, received>>
    BY <1>4 DEF HandleSent, Cleanup
  <2>2. Rest = {outbox[i] : i \in S} /\ S \in SUBSET DOMAIN outbox
    BY DEF Rest
  <2> HIDE DEF S
  <2>3. /\ Only(outbox, S) \in Seq(Messages)
        /\ Elements(Only(outbox, S)) = {outbox[i] : i \in S}
    BY <1>1, <2>2, OnlyFacts
  <2>4. outbox' \in Seq(Messages) /\ Elements(outbox') = Rest
    BY <2>1, <2>2, <2>3
  <2> QED
    BY <2>1, <2>4, WriteRefines
<1>5. ASSUME Receive PROVE UNCHANGED <<accepted, Transit, Handled>>
  <2>1. /\ wire # <<>> /\ wire' = Tail(wire) /\ breaks = 0
        /\ inbox' = [inbox EXCEPT ![0] = @ \o Head(wire)]
        /\ UNCHANGED <<accepted, outbox, received>>
    BY <1>5 DEF Receive
  <2>2. /\ Head(wire) = wire[1] /\ 1 \in DOMAIN wire
        /\ \A i \in DOMAIN Tail(wire) : Tail(wire)[i] = wire[i + 1] /\ i + 1 \in DOMAIN wire
        /\ \A i \in DOMAIN wire :
              i = 1 \/ (i - 1 \in DOMAIN Tail(wire) /\ wire[i] = Tail(wire)[i - 1])
    BY <1>1, <2>1, TailFacts
  <2>3. inbox[0] \in Seq(Arrived) /\ wire[1] \in Seq(Arrived) /\ inbox'[0] = inbox[0] \o wire[1]
    <3>1. wire[1] \in Seq(Messages) /\ 0 \in Connections
      BY <1>1, <2>1, <2>2
    <3> QED
      BY <1>1, <2>1, <2>2, <3>1, MessagesArrive
  <2>4. Numbers(inbox'[0]) = Numbers(inbox[0]) \cup Numbers(wire[1])
    <3>1. Numbers(inbox[0] \o wire[1]) = Numbers(inbox[0]) \cup Numbers(wire[1])
      BY <2>3, ConcatFacts
    <3> QED
      BY <2>3, <3>1
  <2>5. OnWire = OnWire' \cup Numbers(wire[1])
    <3>1. \A i \in DOMAIN wire' : wire'[i] = wire[i + 1] /\ i + 1 \in DOMAIN wire
      BY <2>1, <2>2
    <3>2. \A i \in DOMAIN wire :
             i = 1 \/ (i - 1 \in DOMAIN wire' /\ wire[i] = wire'[i - 1])
      BY <2>1, <2>2
    <3>3. ASSUME NEW i \in DOMAIN wire PROVE Numbers(wire[i]) \subseteq OnWire' \cup Numbers(wire[1])
      BY <3>2, <3>3 DEF OnWire
    <3>4. ASSUME NEW i \in DOMAIN wire' PROVE Numbers(wire'[i]) \subseteq OnWire
      BY <3>1, <3>4 DEF OnWire
    <3> QED
      BY <2>2, <3>3, <3>4 DEF OnWire
  <2>6. Underway' = Underway
    BY <2>1, <2>4, <2>5 DEF Underway, OnWire
  <2> QED
    BY <2>1, <2>6 DEF Transit, Handled
<1>6. ASSUME NEW c \in Connections, Fetch(c)
      PROVE  \E m \in Transit : /\ Transit' = Transit \ {m}
                                /\ Handled' = Append(Handled, m)
                                /\ accepted' = accepted
  <2>0. PICK k \in DOMAIN inbox[c] :
           /\ received' = Append(received, inbox[c][k])
           /\ inbox' = [inbox EXCEPT ![c] = Only(@, DOMAIN @ \ {k})]
           /\ UNCHANGED <<accepted, outbox, wire, breaks>>
    BY <1>6 DEF Fetch, Without
  <2> DEFINE h == inbox[c][k]
  <2>1. /\ inbox[c] # <<>> /\ received' = Append(received, h) /\ breaks = 0
        /\ UNCHANGED <<accepted, outbox, wire>>
    BY <2>0
  <2>2. c = 0 /\ retried = {}
    <3>1. ~ (c > 0)
      BY <1>1, <2>1 DEF WayKnown
    <3> QED
      BY <1>1, <2>1, <3>1 DEF WayKnown, Connections
  <2>3. /\ h \in Arrived /\ h \in Elements(inbox[0])
        /\ Numbers(inbox[0]) = {h.no} \cup Numbers(inbox'[0])
    <3> DEFINE S == DOMAIN inbox[0] \ {k}
               t == Only(inbox[0], S)
    <3>1. inbox[0] \in Seq(Arrived) /\ inbox'[0] = t /\ S \in SUBSET DOMAIN inbox[0]
      BY <1>1, <2>0, <2>2
    <3>2. t \in Seq(Arrived) /\ Elements(t) = {inbox[0][j] : j \in S}
      <4> HIDE DEF S
      <4> QED
        BY <3>1, OnlyFacts
    <3>3. Elements(inbox[0]) = {h} \cup Elements(t)
      BY <2>2, <3>2 DEF Elements
    <3>4. h \in Arrived
      BY <2>2, <3>1
    <3> HIDE DEF t
    <3>5. /\ Numbers(inbox[0]) = {m.no : m \in Elements(inbox[0])}
          /\ Numbers(t) = {m.no : m \in Elements(t)}
      BY <3>1, <3>2, MemberFacts
    <3> HIDE DEF h
    <3> QED
      BY <3>1, <3>3, <3>4, <3>5
  <2> HIDE DEF h
  <2>4. h.no \notin Numbers(received)
    <3>1. ASSUME NEW i \in DOMAIN received PROVE received[i].no # h.no
      <4>1. <<received[i], h>> \in Allowed
        BY <1>1, <2>2, <2>3, <1>6 DEF PipeAllowed, Before, Elements
      <4> QED
        BY <2>2, <4>1 DEF Allowed
    <3> QED
      BY <3>1 DEF Numbers
  <2>5. h.no \in Transit
    BY <2>3, <2>4 DEF Transit, Underway
  <2>6. Numbers(received') = Numbers(received) \cup {h.no}
    <3>1. Numbers(Append(received, h)) = Numbers(received) \cup {h.no}
      BY <1>1, <2>3, AppendFacts
    <3> QED
      BY <2>1, <3>1
  <2>7. Underway = Underway' \cup {h.no}
    BY <2>1, <2>3 DEF Underway
  <2>8. Transit' = Transit \ {h.no}
    BY <2>6, <2>7 DEF Transit
  <2>9. Handled' = Append(Handled, h.no)
    <3>1. /\ Len(received) \in Nat /\ DOMAIN received = 1..Len(received)
          /\ DOMAIN received' = 1..(Len(received) + 1)
          /\ \A i \in 1..Len(received) : received'[i] = received[i]
          /\ received'[Len(received) + 1] = h
      BY <1>1, <2>1, <2>3
    <3>2. Handled = [i \in 1..Len(received) |-> received[i].no]
      BY <3>1 DEF Handled
    <3>3. Handled' = [i \in 1..(Len(received) + 1) |-> received'[i].no]
      BY <3>1 DEF Handled
    <3>4. /\ Handled \in Seq({received[i].no : i \in 1..Len(received)})
          /\ Len(Handled) = Len(received)
      BY <3>1, <3>2
    <3>5. Append(Handled, h.no) = [i \in 1..(Len(received) + 1) |->
                                     IF i <= Len(received) THEN Handled[i] ELSE h.no]
      BY <3>1, <3>4
    <3>6. ASSUME NEW i \in 1..(Len(received) + 1)
          PROVE  received'[i].no = IF i <= Len(received) THEN Handled[i] ELSE h.no
      <4>1. CASE i <= Len(received)
        <5>1. i \in 1..Len(received)
          BY <3>1, <4>1
        <5> QED
          BY <3>1, <3>2, <4>1, <5>1
      <4>2. CASE ~ (i <= Len(received))
        <5>1. i = Len(received) + 1
          BY <3>1, <4>2
        <5> QED
          BY <3>1, <4>2, <5>1
      <4> QED
        BY <4>1, <4>2
    <3> QED
      BY <3>3, <3>5, <3>6
  <2> QED
    BY <2>1, <2>5, <2>8, <2>9
<1>7. ASSUME NEW c \in Connections, Drop(c) PROVE FALSE
  BY <1>1, <1>7 DEF Drop, Connections
<1>8. ASSUME Break PROVE FALSE
  BY <1>1, <1>8 DEF Break
<1>9. ASSUME Connect \/ UNCHANGED vars PROVE UNCHANGED <<accepted, Transit, Handled>>
  BY <1>9 DEF Connect, vars, Transit, Underway, Handled
<1>10. ASSUME NEW c \in Connections, Refuse(c)
       PROVE  UNCHANGED <<accepted, Transit, Handled>>
  BY <1>10 DEF Refuse, Transit, Underway, Handled
<1> QED
  BY <1>2, <1>3, <1>4, <1>5, <1>6, <1>7, <1>8, <1>9, <1>10 DEF Next

(* For all sizes of messages and blocks: until it breaks, the connection   *)
(* is a channel that neither loses nor repeats a message, step by step,    *)
(* although a block that is being written is on the wire, or was handled,  *)
(* while its messages are still in the outbox.                             *)
THEOREM StreamIsChannel == Spec => ChannelUntilBreak
<1>1. Init => C!Init
  <2> SUFFICES ASSUME Init PROVE C!Init
    OBVIOUS
  <2>1. Underway = {}
    BY StreamAssumption DEF Init, Underway, Numbers, Connections
  <2>2. [i \in DOMAIN received |-> received[i].no] = <<>>
    BY DEF Init
  <2> QED
    BY <2>1, <2>2 DEF Init, C!Init
<1>2. WayInv /\ [Next]_vars => [breaks' = 0 => C!Next]_(C!chanVars)
  <2> SUFFICES ASSUME WayInv, [Next]_vars, breaks' = 0
               PROVE  C!Next \/ UNCHANGED C!chanVars
    OBVIOUS
  <2>1. CASE accepted' = accepted + 1 /\ Transit' = Transit \cup {accepted + 1}
             /\ Handled' = Handled
    BY <2>1 DEF C!Next, C!Send, Transit, Handled
  <2>2. CASE \E m \in Transit : /\ Transit' = Transit \ {m}
                                /\ Handled' = Append(Handled, m)
                                /\ accepted' = accepted
    BY <2>2 DEF C!Next, C!Deliver, Transit, Handled
  <2>3. CASE UNCHANGED <<accepted, Transit, Handled>>
    BY <2>3 DEF C!chanVars, Transit, Handled
  <2> QED
    BY <2>1, <2>2, <2>3, StepRefines
<1> QED
  BY <1>1, <1>2, WayCorrect, PTL DEF Spec, ChannelUntilBreak
-----------------------------------------------------------------------------
(* Blobs: lists and bags.                                                  *)

(* The elements at some places come from different ones of these places.   *)
LEMMA OnlyPlaces ==
    ASSUME NEW M, NEW q \in Seq(M), NEW S \in SUBSET DOMAIN q
    PROVE  /\ Only(q, S) \in Seq(M)
           /\ \E f \in [DOMAIN Only(q, S) -> S] :
                 /\ \A i, j \in DOMAIN Only(q, S) : f[i] = f[j] => i = j
                 /\ \A i \in DOMAIN Only(q, S) : Only(q, S)[i] = q[f[i]]
<1> DEFINE c == Cardinality(S)
           f == InOrder(S)
           s == Only(q, S)
<1>1. Len(q) \in Nat /\ DOMAIN q = 1..Len(q)
  OBVIOUS
<1>2. /\ c \in Nat /\ f \in [1..c -> S]
      /\ \A i, j \in 1..c : i < j => f[i] < f[j]
  BY <1>1, InOrderFacts DEF InOrderOf
<1>3. s = [i \in 1..c |-> q[f[i]]]
  BY <1>2 DEF Only
<1> HIDE DEF c, f, s
<1>4. DOMAIN s = 1..c /\ f \in [DOMAIN s -> S]
  BY <1>2, <1>3
<1>5. ASSUME NEW i \in 1..c, NEW j \in 1..c, f[i] = f[j] PROVE i = j
  <2>1. f[i] \in Nat /\ f[j] \in Nat
    BY <1>1, <1>2
  <2> QED
    BY <1>2, <1>5, <2>1
<1>6. \A i \in DOMAIN s : s[i] = q[f[i]]
  BY <1>3, <1>4
<1>7. s \in Seq(M)
  BY OnlyFacts DEF s
<1> QED
  BY <1>4, <1>5, <1>6, <1>7 DEF s

(* The first of some places is one of them.                                *)
LEMMA FirstOfFacts ==
    ASSUME NEW n \in Nat, NEW S \in SUBSET (1..n)
    PROVE  /\ S = {} => FirstOf(S) = 0
           /\ S # {} => FirstOf(S) \in S
<1>1. ASSUME S # {} PROVE \E i \in S : \A j \in S : i <= j
  BY <1>1, LeastNatural
<1> QED
  BY <1>1 DEF FirstOf

(* Adding one of each of some messages to those under way, ...             *)
LEMMA BagAdd ==
    ASSUME NEW B, IsABag(B), NEW S
    PROVE  /\ IsABag(B (+) SetToBag(S))
           /\ DOMAIN (B (+) SetToBag(S)) = DOMAIN B \cup S
           /\ \A m \in DOMAIN B \ S : (B (+) SetToBag(S))[m] = B[m]
           /\ \A m \in S \ DOMAIN B : (B (+) SetToBag(S))[m] = 1
  BY DEF IsABag, SetToBag, (+)

(* ... and taking one from them.                                           *)
LEMMA BagTake ==
    ASSUME NEW B, IsABag(B), NEW m \in DOMAIN B
    PROVE  /\ IsABag(B (-) SetToBag({m}))
           /\ DOMAIN (B (-) SetToBag({m})) \subseteq DOMAIN B
           /\ B[m] = 1 => m \notin DOMAIN (B (-) SetToBag({m}))
           /\ \A n \in DOMAIN (B (-) SetToBag({m})) : (B (-) SetToBag({m}))[n] <= B[n]
  BY DEF IsABag, SetToBag, (-)
-----------------------------------------------------------------------------
(* Blobs: merging parts.                                                   *)

(* An offset is in one of the parts.                                       *)
Covers(s, o) == \E k \in DOMAIN s : s[k][1] <= o /\ o < s[k][2]

Sorted(s) == \A i, j \in DOMAIN s : i < j => s[i][2] < s[j][1]

(* A part has a begin before its end.                                      *)
LEMMA PartFacts ==
    ASSUME NEW p \in Parts
    PROVE  /\ p[1] \in 0..Size /\ p[2] \in 0..Size /\ p[1] < p[2]
           /\ p = <<p[1], p[2]>>
  BY DEF Parts

(* Two such offsets are one.                                               *)
LEMMA PartOf ==
    ASSUME NEW b \in 0..Size, NEW e \in 0..Size, b < e
    PROVE  <<b, e>> \in Parts /\ <<b, e>>[1] = b /\ <<b, e>>[2] = e
  BY DEF Parts

(* Size is a natural number but 0.                                         *)
LEMMA SizeFacts == Size \in Nat /\ Size # 0 /\ Frag \in Nat /\ Frag # 0
  BY BlobAssumption

(* Adding a part behind the others.                                        *)
LEMMA AppendPart ==
    ASSUME NEW s \in Seq(Parts), NEW p \in Parts,
           Sorted(s), s # <<>> => s[Len(s)][2] < p[1]
    PROVE  /\ Append(s, p) \in Seq(Parts)
           /\ Append(s, p) # <<>>
           /\ Len(Append(s, p)) = Len(s) + 1
           /\ Append(s, p)[Len(s) + 1] = p
           /\ Sorted(Append(s, p))
           /\ \A o : Covers(Append(s, p), o) <=> (Covers(s, o) \/ (p[1] <= o /\ o < p[2]))
           /\ \A k \in DOMAIN Append(s, p) : 
                 Append(s, p)[k] = p \/ \E i \in DOMAIN s : Append(s, p)[k] = s[i]
<1> DEFINE t == Append(s, p)
<1>1. /\ t \in Seq(Parts) /\ Len(t) = Len(s) + 1 /\ Len(s) \in Nat
      /\ DOMAIN t = 1..(Len(s) + 1) /\ DOMAIN s = 1..Len(s)
      /\ \A k \in 1..Len(s) : t[k] = s[k]
      /\ t[Len(s) + 1] = p
      /\ t # <<>>
  OBVIOUS
<1> HIDE DEF t
<1>2. \A k \in DOMAIN t : k \in DOMAIN s \/ k = Len(s) + 1
  BY <1>1
<1>3. \A k \in DOMAIN s : s[k] \in Parts /\ k \in DOMAIN t /\ t[k] = s[k]
  BY <1>1
<1>4. ASSUME NEW i \in DOMAIN t, NEW j \in DOMAIN t, i < j PROVE t[i][2] < t[j][1]
  <2>1. i \in DOMAIN s
    BY <1>1, <1>4
  <2>2. CASE j \in DOMAIN s
    BY <1>3, <1>4, <2>1, <2>2 DEF Sorted
  <2>3. CASE j = Len(s) + 1
    <3>1. Len(s) \in DOMAIN s /\ s # <<>>
      BY <1>1, <2>1
    <3>2. s[i][2] <= s[Len(s)][2]
      <4>1. CASE i = Len(s)
        BY <1>3, <3>1, <4>1, PartFacts
      <4>2. CASE i # Len(s)
        <5>1. i < Len(s)
          BY <1>1, <2>1, <4>2
        <5>2. s[i][2] < s[Len(s)][1]
          BY <2>1, <3>1, <5>1 DEF Sorted
        <5> QED
          BY <1>3, <2>1, <3>1, <5>2, PartFacts
      <4> QED
        BY <4>1, <4>2
    <3>3. s[Len(s)][2] < p[1]
      BY <3>1
    <3> QED
      BY <1>1, <1>3, <2>1, <2>3, <3>1, <3>2, <3>3, PartFacts
  <2> QED
    BY <1>2, <2>2, <2>3
<1>5. Sorted(t)
  BY <1>4 DEF Sorted
<1>6. ASSUME NEW o PROVE Covers(t, o) <=> (Covers(s, o) \/ (p[1] <= o /\ o < p[2]))
  <2>1. Len(s) + 1 \in DOMAIN t
    BY <1>1
  <2> QED
    BY <1>1, <1>2, <1>3, <2>1 DEF Covers
<1>7. \A k \in DOMAIN t : t[k] = p \/ \E i \in DOMAIN s : t[k] = s[i]
  BY <1>1, <1>2, <1>3
<1> QED
  BY <1>1, <1>5, <1>6, <1>7 DEF t

(* The last part gets longer.                                              *)
LEMMA ExtendPart ==
    ASSUME NEW s \in Seq(Parts), s # <<>>, Sorted(s), NEW e \in 0..Size,
           s[Len(s)][2] <= e
    PROVE  LET t == Stretch(s, e) IN
           /\ t \in Seq(Parts)
           /\ t # <<>>
           /\ Len(t) = Len(s)
           /\ t[Len(t)] = <<s[Len(s)][1], e>>
           /\ Sorted(t)
           /\ \A o \in Nat : Covers(t, o) <=> (Covers(s, o) \/ (s[Len(s)][2] <= o /\ o < e))
           /\ DOMAIN t = DOMAIN s
           /\ \A k \in DOMAIN t : t[k][1] = s[k][1]
<1> DEFINE t == Stretch(s, e)
           n == Len(s)
<1>1. n \in Nat /\ n # 0 /\ DOMAIN s = 1..n /\ n \in DOMAIN s /\ \A k \in DOMAIN s : s[k] \in Parts
  OBVIOUS
<1>2. /\ s[n] = <<s[n][1], s[n][2]>> /\ s[n][1] < s[n][2]
      /\ s[n][1] \in 0..Size /\ s[n][2] \in 0..Size /\ s[n][2] <= e
  BY <1>1, PartFacts
<1>3. [s[n] EXCEPT ![2] = e] = <<s[n][1], e>>
  BY <1>2
<1>4. t = [k \in DOMAIN s |-> IF k = n THEN <<s[n][1], e>> ELSE s[k]]
  BY <1>1, <1>3 DEF Stretch
<1> HIDE DEF t
<1>5. s[n][1] < e /\ <<s[n][1], e>> \in Parts
  BY <1>2, SizeFacts, PartOf
<1>6. DOMAIN t = 1..n /\ t[n] = <<s[n][1], e>> /\ \A k \in 1..n : k # n => t[k] = s[k]
  BY <1>1, <1>4
<1>7. t \in [1..n -> Parts]
  BY <1>1, <1>4, <1>5
<1> HIDE DEF n
<1>8. t \in Seq(Parts) /\ Len(t) = n /\ t # <<>>
  BY <1>1, <1>6, <1>7
<1>9. \A k \in 1..n : t[k][1] = s[k][1]
  BY <1>6
<1>10. ASSUME NEW i \in 1..n, NEW j \in 1..n, i < j PROVE t[i][2] < t[j][1]
  <2>1. i # n
    BY <1>1, <1>10
  <2> QED
    BY <1>1, <1>6, <1>9, <1>10, <2>1 DEF Sorted
<1>11. ASSUME NEW o \in Nat PROVE Covers(t, o) <=> (Covers(s, o) \/ (s[n][2] <= o /\ o < e))
  <2>1. t[n][1] = s[n][1] /\ t[n][2] = e
    BY <1>6
  <2>2. (s[n][1] <= o /\ o < e) <=> ((s[n][1] <= o /\ o < s[n][2]) \/ (s[n][2] <= o /\ o < e))
    BY <1>2, SizeFacts
  <2> QED
    BY <1>1, <1>6, <2>1, <2>2 DEF Covers
<1> QED
  BY <1>1, <1>6, <1>8, <1>9, <1>10, <1>11 DEF t, n, Sorted


MergeUpTo(src, bgn, end, n, f) ==
    f = [k \in 0..n |-> IF k = 0 THEN Merged(<<>>, FALSE, {})
                        ELSE MergeStep(f[k - 1], src[k], bgn, end)]

(* The recursion of Merge is well-founded.                                 *)
LEMMA MergeExists ==
    ASSUME NEW src, NEW bgn, NEW end, NEW m \in Nat
    PROVE  \E f : MergeUpTo(src, bgn, end, m, f)
<1> DEFINE G == {n \in Nat : \E f : MergeUpTo(src, bgn, end, n, f)}
<1>1. 0 \in G
  <2> DEFINE f == [k \in 0..0 |-> Merged(<<>>, FALSE, {})]
  <2>1. f = [k \in 0..0 |-> IF k = 0 THEN Merged(<<>>, FALSE, {})
                            ELSE MergeStep(f[k - 1], src[k], bgn, end)]
    OBVIOUS
  <2> QED
    BY <2>1 DEF MergeUpTo
<1>2. ASSUME NEW n \in Nat, n \in G PROVE n + 1 \in G
  <2>1. PICK f : MergeUpTo(src, bgn, end, n, f)
    BY <1>2
  <2> DEFINE F(g, k) == IF k = 0 THEN Merged(<<>>, FALSE, {})
                        ELSE MergeStep(g[k - 1], src[k], bgn, end)
             h == [k \in 0..(n + 1) |-> F(f, k)]
  <2>2. f = [k \in 0..n |-> F(f, k)]
    BY <2>1 DEF MergeUpTo
  <2>3. \A k \in 0..n : h[k] = f[k]
    <3> HIDE DEF F
    <3> QED
      BY <1>2, <2>2
  <2>4. ASSUME NEW k \in 0..(n + 1) PROVE F(f, k) = F(h, k)
    <3>1. CASE k = 0
      BY <3>1
    <3>2. CASE k # 0
      <4>1. k - 1 \in 0..n
        BY <1>2, <3>2
      <4>2. h[k - 1] = f[k - 1]
        BY <2>3, <4>1
      <4> HIDE DEF h
      <4> QED
        BY <4>2
    <3> QED
      BY <3>1, <3>2
  <2>5. h = [k \in 0..(n + 1) |-> F(h, k)]
    <3>1. h = [k \in 0..(n + 1) |-> F(f, k)]
      OBVIOUS
    <3> HIDE DEF h, F
    <3> QED
      BY <2>4, <3>1
  <2>6. MergeUpTo(src, bgn, end, n + 1, h)
    BY <2>5 DEF MergeUpTo
  <2> QED
    BY <1>2, <2>6
<1> HIDE DEF G
<1>3. m \in G
  BY <1>1, <1>2, SetInduction
<1> QED
  BY <1>3 DEF G

(* An offset is in one of the first parts.                                 *)
CoversTo(s, n, o) == \E k \in 1..n : s[k][1] <= o /\ o < s[k][2]

Within(bgn, end, o) == bgn <= o /\ o < end

(* What the loop of merge_fragment keeps, after n parts of src: how far    *)
(* dst reaches, ...                                                        *)
Reach(dst, placed, src, bgn, end, n) ==
    IF placed
    THEN /\ n # 0 /\ dst # <<>> /\ bgn <= src[n][2] /\ src[n][2] <= dst[Len(dst)][2]
         /\ \/ /\ dst[Len(dst)][1] <= bgn /\ end <= dst[Len(dst)][2]
               /\ dst[Len(dst)][2] = end \/ dst[Len(dst)][2] = src[n][2]
            \/ end < dst[Len(dst)][1] /\ dst[Len(dst)] = src[n]
    ELSE n # 0 => dst # <<>> /\ dst[Len(dst)] = src[n] /\ src[n][2] < bgn

(* ... and what it covers.                                                 *)
Loop(acc, src, bgn, end, n) ==
    /\ acc = Merged(acc.dst, acc.placed, acc.stored)
    /\ acc.dst \in Seq(Parts) /\ acc.placed \in BOOLEAN /\ Sorted(acc.dst)
    /\ n = 0 => acc.dst = <<>>
    /\ Reach(acc.dst, acc.placed, src, bgn, end, n)
    /\ \A o \in Nat : /\ Covers(acc.dst, o) <=>
                            CoversTo(src, n, o) \/ (acc.placed /\ Within(bgn, end, o))
                      /\ Covers(acc.dst, o) <=> CoversTo(src, n, o) \/ o \in acc.stored
    /\ \A k \in DOMAIN acc.dst :
          acc.dst[k][1] = bgn \/ \E i \in 1..n : acc.dst[k][1] = src[i][1]


(* What the parts before the next one cover.                               *)
LEMMA CoversNext ==
    ASSUME NEW s, NEW n \in Nat, NEW o
    PROVE  CoversTo(s, n + 1, o) <=>
               CoversTo(s, n, o) \/ (s[n + 1][1] <= o /\ o < s[n + 1][2])
<1>1. \A k : k \in 1..(n + 1) <=> (k \in 1..n \/ k = n + 1)
  OBVIOUS
<1> QED
  BY <1>1 DEF CoversTo

(* The loop may append the part from x to y, ...                           *)
Grows(acc, src, bgn, end, n, x, y, placed, stored) ==
    /\ x \in 0..Size /\ y \in 0..Size /\ x < y
    /\ x = bgn \/ x = src[n + 1][1]
    /\ acc.dst # <<>> => acc.dst[Len(acc.dst)][2] < x
    /\ placed \in BOOLEAN
    /\ \A o \in Nat :
          /\ Covers(acc.dst, o) \/ Within(x, y, o) <=>
                 CoversTo(src, n + 1, o) \/ (placed /\ Within(bgn, end, o))
          /\ Covers(acc.dst, o) \/ Within(x, y, o) <=>
                 CoversTo(src, n + 1, o) \/ o \in stored
    /\ IF placed
       THEN /\ bgn <= src[n + 1][2] /\ src[n + 1][2] <= y
            /\ \/ x <= bgn /\ end <= y /\ (y = end \/ y = src[n + 1][2])
               \/ end < x /\ x = src[n + 1][1] /\ y = src[n + 1][2]
       ELSE x = src[n + 1][1] /\ y = src[n + 1][2] /\ y < bgn

(* ... which keeps what it has to.                                         *)
LEMMA LoopAppend ==
    ASSUME NEW src \in Seq(Parts), NEW bgn, NEW end, NEW n \in Nat, n + 1 \in 1..Len(src),
           NEW acc, Loop(acc, src, bgn, end, n),
           NEW x, NEW y, NEW placed, NEW stored,
           Grows(acc, src, bgn, end, n, x, y, placed, stored)
    PROVE  Loop(Merged(Append(acc.dst, <<x, y>>), placed, stored), src, bgn, end, n + 1)
<1> DEFINE s == acc.dst
           t == Append(s, <<x, y>>)
           p == src[n + 1]
<1>1. p \in Parts /\ p = <<p[1], p[2]>>
  BY PartFacts
<1>2. <<x, y>> \in Parts /\ <<x, y>>[1] = x /\ <<x, y>>[2] = y
  BY PartOf DEF Grows
<1>3. s \in Seq(Parts) /\ Sorted(s)
  BY DEF Loop
<1>4. /\ t \in Seq(Parts) /\ t # <<>> /\ Len(t) = Len(s) + 1 /\ t[Len(s) + 1] = <<x, y>>
      /\ Sorted(t)
      /\ \A o : Covers(t, o) <=> (Covers(s, o) \/ (x <= o /\ o < y))
      /\ \A k \in DOMAIN t : t[k] = <<x, y>> \/ \E i \in DOMAIN s : t[k] = s[i]
  <2>1. s # <<>> => s[Len(s)][2] < x
    BY DEF Grows
  <2> HIDE DEF s
  <2> QED
    BY <1>2, <1>3, <2>1, AppendPart
<1> HIDE DEF t
<1>5. Reach(t, placed, src, bgn, end, n + 1)
  <2>1. t[Len(t)] = <<x, y>> /\ n + 1 # 0
    BY <1>4
  <2> QED
    BY <1>1, <1>2, <1>4, <2>1 DEF Reach, Grows
<1>6. ASSUME NEW o \in Nat
      PROVE  /\ Covers(t, o) <=> CoversTo(src, n + 1, o) \/ (placed /\ Within(bgn, end, o))
             /\ Covers(t, o) <=> CoversTo(src, n + 1, o) \/ o \in stored
  BY <1>4 DEF Within, Grows
<1>7. ASSUME NEW k \in DOMAIN t
      PROVE  t[k][1] = bgn \/ \E i \in 1..(n + 1) : t[k][1] = src[i][1]
  <2>1. CASE t[k] = <<x, y>>
    <3>1. x = bgn \/ x = src[n + 1][1]
      BY DEF Grows
    <3> QED
      BY <1>2, <2>1, <3>1
  <2>2. CASE \E i \in DOMAIN s : t[k] = s[i]
    <3>1. PICK i \in DOMAIN s : t[k] = s[i]
      BY <2>2
    <3>2. s[i][1] = bgn \/ \E j \in 1..n : s[i][1] = src[j][1]
      BY DEF Loop
    <3>3. \A j \in 1..n : j \in 1..(n + 1)
      OBVIOUS
    <3> QED
      BY <3>1, <3>2, <3>3
  <2> QED
    BY <1>4, <2>1, <2>2
<1> DEFINE new == Merged(t, placed, stored)
<1>8. new.dst = t /\ new.placed = placed /\ new.stored = stored /\ n + 1 # 0 /\ placed \in BOOLEAN
  BY DEF Merged, Grows
<1> HIDE DEF new, p
<1>9. new = Merged(new.dst, new.placed, new.stored)
  BY <1>8 DEF new
<1>10. Loop(new, src, bgn, end, n + 1)
  BY <1>4, <1>5, <1>6, <1>7, <1>8, <1>9 DEF Loop
<1> QED
  BY <1>10 DEF new, t


(* A step of the loop, which goes over the next part.                      *)
LEMMA LoopStep ==
    ASSUME NEW src \in Seq(Parts), Sorted(src),
           NEW bgn \in 0..Size, NEW end \in 0..Size, bgn < end,
           NEW n \in Nat, n + 1 \in 1..Len(src),
           NEW acc, Loop(acc, src, bgn, end, n)
    PROVE  Loop(MergeStep(acc, src[n + 1], bgn, end), src, bgn, end, n + 1)
<1> DEFINE s == acc.dst
           p == src[n + 1]
           old(o) == CoversTo(src, n, o)
           new(o) == CoversTo(src, n + 1, o)
           l == s[Len(s)]
<1>1. Size \in Nat /\ bgn \in Nat /\ end \in Nat
  BY SizeFacts
<1>2. p \in Parts /\ p[1] \in 0..Size /\ p[2] \in 0..Size /\ p[1] < p[2] /\ p = <<p[1], p[2]>>
  BY PartFacts
<1>3. n # 0 => src[n] \in Parts /\ src[n][2] < p[1] /\ src[n][1] \in Nat /\ src[n][2] \in Nat
               /\ src[n][1] < src[n][2]
  <2> SUFFICES ASSUME n # 0 
               PROVE src[n] \in Parts /\ src[n][2] < p[1] /\ src[n][1] \in Nat
                     /\ src[n][2] \in Nat /\ src[n][1] < src[n][2]
    OBVIOUS
  <2>1. n \in DOMAIN src /\ n + 1 \in DOMAIN src /\ n < n + 1
    OBVIOUS
  <2>2. src[n] \in Parts
    BY <2>1
  <2> QED
    BY <2>1, <2>2, PartFacts, <1>1 DEF Sorted
<1>4. /\ s \in Seq(Parts) /\ Sorted(s) /\ Len(s) \in Nat /\ acc.placed \in BOOLEAN
      /\ acc = Merged(s, acc.placed, acc.stored)
  BY DEF Loop
<1>5. s # <<>> => /\ Len(s) \in DOMAIN s /\ l \in Parts
                /\ l[1] \in Nat /\ l[2] \in 0..Size /\ l[1] < l[2]
                  /\ l = <<l[1], l[2]>>
  <2> SUFFICES ASSUME s # <<>>
               PROVE  Len(s) \in DOMAIN s /\ l \in Parts /\ l[1] \in Nat /\ l[2] \in 0..Size
                      /\ l[1] < l[2] /\ l = <<l[1], l[2]>>
    OBVIOUS
  <2>1. Len(s) \in DOMAIN s /\ l \in Parts
    BY <1>4
  <2> HIDE DEF s, l
  <2> QED
    BY <2>1, <1>1, PartFacts
<1>6. \A o : new(o) <=> (old(o) \/ Within(p[1], p[2], o))
  BY CoversNext DEF Within
<1>7. \A o \in Nat : /\ Covers(s, o) <=> old(o) \/ (acc.placed /\ Within(bgn, end, o))
                     /\ Covers(s, o) <=> old(o) \/ o \in acc.stored
  BY DEF Loop
<1>8. Reach(s, acc.placed, src, bgn, end, n)
  BY DEF Loop
<1>9. ~acc.placed => (s # <<>> => n # 0 /\ l[2] < bgn /\ l[2] < p[1])
  BY <1>3, <1>8, <1>4 DEF Reach, Loop
<1>10. acc.placed => /\ n # 0 /\ s # <<>> /\ bgn < p[1]
                     /\ \/ /\ l[1] <= bgn /\ end <= l[2]
                           /\ l[2] = end \/ l[2] = src[n][2]
                        \/ end < l[1] /\ l = src[n] /\ end < p[1] /\ l[2] < p[1]
  <2> SUFFICES ASSUME acc.placed
               PROVE /\ n # 0 /\ s # <<>> /\ bgn < p[1]
                     /\ \/ /\ l[1] <= bgn /\ end <= l[2]
                           /\ l[2] = end \/ l[2] = src[n][2]
                        \/ end < l[1] /\ l = src[n] /\ end < p[1] /\ l[2] < p[1]
    OBVIOUS
  <2>1. /\ n # 0 /\ s # <<>> /\ bgn <= src[n][2] /\ src[n][2] <= l[2]
        /\ \/ /\ l[1] <= bgn /\ end <= l[2]
              /\ l[2] = end \/ l[2] = src[n][2]
           \/ end < l[1] /\ l = src[n]
    BY <1>8 DEF Reach
  <2> HIDE DEF s, l, p
  <2> QED
    BY <1>1, <1>2, <1>3, <1>5, <2>1
<1> HIDE DEF old, new, l
<1>11. CASE ~acc.placed /\ bgn < p[1] /\ p[1] <= end /\ end <= p[2]
  <2>1. ~acc.placed
    BY <1>1, <1>2, <1>10, <1>11
  <2>2. MergeStep(acc, p, bgn, end) =
            Merged(Append(s, <<bgn, p[2]>>), TRUE, (bgn..(p[1] - 1)))
    <3>1. bgn < p[1] /\ ~(end < p[1]) /\ end <= p[2]
      BY <1>1, <1>2, <1>11, <2>1
    <3> QED
      BY <2>1, <3>1, Zenon DEF MergeStep, MergeBefore, MergeInside
  <2>3. ASSUME NEW o \in Nat
        PROVE  /\ Covers(s, o) \/ Within(bgn, p[2], o) <=>
                      new(o) \/ (TRUE /\ Within(bgn, end, o))
               /\ Covers(s, o) \/ Within(bgn, p[2], o) <=> new(o) \/ o \in (bgn..(p[1] - 1))
    BY <1>1, <1>2, <1>6, <1>7, <1>11, <2>1 DEF Within
  <2>4. s # <<>> => l[2] < bgn
    BY <1>1, <1>2, <1>3, <1>9, <1>10, <1>11, <2>1
  <2>5. Grows(acc, src, bgn, end, n, bgn, p[2], TRUE, (bgn..(p[1] - 1)))
    BY <1>1, <1>2, <1>11, <2>1, <2>3, <2>4 DEF Grows, new, l
  <2> QED
    BY <2>2, <2>5, LoopAppend
<1>12. CASE ~acc.placed /\ bgn < p[1] /\ p[2] < end
  <2>1. ~acc.placed
    BY <1>1, <1>2, <1>10, <1>12
  <2>2. MergeStep(acc, p, bgn, end) =
            Merged(Append(s, <<bgn, end>>), TRUE, ((bgn..(p[1] - 1)) \cup (p[2]..(end - 1))))
    <3>1. bgn < p[1] /\ ~(end < p[1]) /\ ~(end <= p[2])
      BY <1>1, <1>2, <1>12, <2>1
    <3> QED
      BY <2>1, <3>1, Zenon DEF MergeStep, MergeBefore, MergeInside
  <2>3. ASSUME NEW o \in Nat
        PROVE  /\ Covers(s, o) \/ Within(bgn, end, o) <=>
                      new(o) \/ (TRUE /\ Within(bgn, end, o))
               /\ Covers(s, o) \/ Within(bgn, end, o) <=>
                     new(o) \/ o \in ((bgn..(p[1] - 1)) \cup (p[2]..(end - 1)))
    BY <1>1, <1>2, <1>6, <1>7, <1>12, <2>1 DEF Within
  <2>4. s # <<>> => l[2] < bgn
    BY <1>1, <1>2, <1>3, <1>9, <1>10, <1>12, <2>1
  <2>5. Grows(acc, src, bgn, end, n, bgn, end, TRUE, ((bgn..(p[1] - 1)) \cup (p[2]..(end - 1))))
    BY <1>1, <1>2, <1>12, <2>1, <2>3, <2>4 DEF Grows, new, l
  <2> QED
    BY <2>2, <2>5, LoopAppend
<1>13. CASE p[1] <= bgn /\ bgn <= p[2] /\ end <= p[2]
  <2>1. ~acc.placed
    BY <1>1, <1>2, <1>10, <1>13
  <2>2. MergeStep(acc, p, bgn, end) =
            Merged(Append(s, <<p[1], p[2]>>), TRUE, acc.stored)
    <3>1. ~(bgn < p[1]) /\ bgn <= p[2] /\ end <= p[2]
      BY <1>1, <1>2, <1>13, <2>1
    <3>2. MergeStep(acc, p, bgn, end) = Merged(Append(s, p), TRUE, acc.stored)
      BY <3>1, Zenon DEF MergeStep, MergeBefore, MergeInside
    <3> QED
      BY <1>2, <3>2
  <2>3. ASSUME NEW o \in Nat
        PROVE  /\ Covers(s, o) \/ Within(p[1], p[2], o) <=>
                      new(o) \/ (TRUE /\ Within(bgn, end, o))
               /\ Covers(s, o) \/ Within(p[1], p[2], o) <=> new(o) \/ o \in acc.stored
    BY <1>1, <1>2, <1>6, <1>7, <1>13, <2>1 DEF Within
  <2>4. s # <<>> => l[2] < p[1]
    BY <1>1, <1>2, <1>3, <1>9, <1>10, <1>13, <2>1
  <2>5. Grows(acc, src, bgn, end, n, p[1], p[2], TRUE, acc.stored)
    BY <1>1, <1>2, <1>13, <2>1, <2>3, <2>4 DEF Grows, new, l
  <2> QED
    BY <2>2, <2>5, LoopAppend
<1>14. CASE p[1] <= bgn /\ bgn <= p[2] /\ p[2] < end
  <2>1. ~acc.placed
    BY <1>1, <1>2, <1>10, <1>14
  <2>2. MergeStep(acc, p, bgn, end) =
            Merged(Append(s, <<p[1], end>>), TRUE, (acc.stored \cup (p[2]..(end - 1))))
    <3>1. ~(bgn < p[1]) /\ bgn <= p[2] /\ ~(end <= p[2])
      BY <1>1, <1>2, <1>14, <2>1
    <3> QED
      BY <2>1, <3>1, Zenon DEF MergeStep, MergeBefore, MergeInside
  <2>3. ASSUME NEW o \in Nat
        PROVE  /\ Covers(s, o) \/ Within(p[1], end, o) <=>
                      new(o) \/ (TRUE /\ Within(bgn, end, o))
               /\ Covers(s, o) \/ Within(p[1], end, o) <=>
                     new(o) \/ o \in (acc.stored \cup (p[2]..(end - 1)))
    BY <1>1, <1>2, <1>6, <1>7, <1>14, <2>1 DEF Within
  <2>4. s # <<>> => l[2] < p[1]
    BY <1>1, <1>2, <1>3, <1>9, <1>10, <1>14, <2>1
  <2>5. Grows(acc, src, bgn, end, n, p[1], end, TRUE, (acc.stored \cup (p[2]..(end - 1))))
    BY <1>1, <1>2, <1>14, <2>1, <2>3, <2>4 DEF Grows, new, l
  <2> QED
    BY <2>2, <2>5, LoopAppend
<1>15. CASE p[2] < bgn
  <2>1. ~acc.placed
    BY <1>1, <1>2, <1>10, <1>15
  <2>2. MergeStep(acc, p, bgn, end) =
            Merged(Append(s, <<p[1], p[2]>>), FALSE, acc.stored)
    <3>1. ~(bgn < p[1]) /\ ~(bgn <= p[2])
      BY <1>1, <1>2, <1>15, <2>1
    <3>2. MergeStep(acc, p, bgn, end) = [acc EXCEPT !.dst = Append(@, p)]
      BY <3>1, Zenon DEF MergeStep, MergeBefore, MergeInside
    <3> QED
      BY <1>2, <1>4, <2>1, <1>15, <3>2 DEF Merged
  <2>3. ASSUME NEW o \in Nat
        PROVE  /\ Covers(s, o) \/ Within(p[1], p[2], o) <=>
                      new(o) \/ (FALSE /\ Within(bgn, end, o))
               /\ Covers(s, o) \/ Within(p[1], p[2], o) <=> new(o) \/ o \in acc.stored
    BY <1>1, <1>2, <1>6, <1>7, <1>15, <2>1 DEF Within
  <2>4. s # <<>> => l[2] < p[1]
    BY <1>1, <1>2, <1>3, <1>9, <1>10, <1>15, <2>1
  <2>5. Grows(acc, src, bgn, end, n, p[1], p[2], FALSE, acc.stored)
    BY <1>1, <1>2, <1>15, <2>1, <2>3, <2>4 DEF Grows, new, l
  <2> QED
    BY <2>2, <2>5, LoopAppend
<1>16. CASE acc.placed /\ end < p[1]
  <2>1. bgn < p[1]
    BY <1>1, <1>2, <1>10, <1>16
  <2>2. MergeStep(acc, p, bgn, end) =
            Merged(Append(s, <<p[1], p[2]>>), TRUE, acc.stored)
    <3>1. bgn < p[1] /\ end < p[1] /\ acc.placed
      BY <1>1, <1>2, <1>16, <2>1
    <3>2. MergeStep(acc, p, bgn, end) = [acc EXCEPT !.dst = Append(@, p)]
      BY <3>1, Zenon DEF MergeStep, MergeBefore, MergeInside
    <3> QED
      BY <1>2, <1>4, <2>1, <1>16, <3>2 DEF Merged
  <2>3. ASSUME NEW o \in Nat
        PROVE  /\ Covers(s, o) \/ Within(p[1], p[2], o) <=>
                      new(o) \/ (TRUE /\ Within(bgn, end, o))
               /\ Covers(s, o) \/ Within(p[1], p[2], o) <=> new(o) \/ o \in acc.stored
    BY <1>1, <1>2, <1>6, <1>7, <1>16, <2>1 DEF Within
  <2>4. s # <<>> => l[2] < p[1]
    BY <1>1, <1>2, <1>3, <1>9, <1>10, <1>16, <2>1
  <2>5. Grows(acc, src, bgn, end, n, p[1], p[2], TRUE, acc.stored)
    BY <1>1, <1>2, <1>16, <2>1, <2>3, <2>4 DEF Grows, new, l
  <2> QED
    BY <2>2, <2>5, LoopAppend
<1>19. CASE ~acc.placed /\ bgn < p[1] /\ end < p[1]
  <2> DEFINE u == Append(s, <<bgn, end>>)
             t == Append(u, p)
  <2>1. MergeStep(acc, p, bgn, end) = Merged(t, TRUE, bgn..(end - 1))
    BY <1>19, Zenon DEF MergeStep, MergeBefore
  <2>2. <<bgn, end>> \in Parts /\ <<bgn, end>>[1] = bgn /\ <<bgn, end>>[2] = end
    BY PartOf
  <2>3. s # <<>> => s[Len(s)][2] < <<bgn, end>>[1]
    BY <1>9, <1>19, <2>2 DEF l
  <2>4. /\ u \in Seq(Parts) /\ u # <<>> /\ Len(u) = Len(s) + 1 /\ u[Len(s) + 1] = <<bgn, end>>
        /\ Sorted(u) /\ \A o : Covers(u, o) <=> (Covers(s, o) \/ (bgn <= o /\ o < end))
        /\ \A k \in DOMAIN u : u[k] = <<bgn, end>> \/ \E i \in DOMAIN s : u[k] = s[i]
    <3> HIDE DEF s
    <3> QED
      BY <1>4, <2>2, <2>3, AppendPart
  <2> HIDE DEF u
  <2>5. u[Len(u)][2] < p[1]
    BY <1>19, <2>2, <2>4
  <2>6. /\ t \in Seq(Parts) /\ t # <<>> /\ Len(t) = Len(u) + 1 /\ t[Len(u) + 1] = p
        /\ Sorted(t) /\ \A o : Covers(t, o) <=> (Covers(u, o) \/ (p[1] <= o /\ o < p[2]))
        /\ \A k \in DOMAIN t : t[k] = p \/ \E i \in DOMAIN u : t[k] = u[i]
    <3> HIDE DEF p
    <3> QED
      BY <1>2, <2>4, <2>5, AppendPart
  <2> HIDE DEF t
  <2>7. Reach(t, TRUE, src, bgn, end, n + 1)
    BY <1>1, <1>2, <1>19, <2>6 DEF Reach
  <2>8. ASSUME NEW o \in Nat
        PROVE  /\ Covers(t, o) <=> new(o) \/ Within(bgn, end, o)
               /\ Covers(t, o) <=> new(o) \/ o \in bgn..(end - 1)
    BY <1>1, <1>2, <1>6, <1>7, <1>19, <2>4, <2>6 DEF Within
  <2>9. ASSUME NEW k \in DOMAIN t
        PROVE  t[k][1] = bgn \/ \E i \in 1..(n + 1) : t[k][1] = src[i][1]
    <3>1. t[k] = p \/ t[k] = <<bgn, end>> \/ \E i \in DOMAIN s : t[k] = s[i]
      BY <2>4, <2>6
    <3>2. \A i \in DOMAIN s : s[i][1] = bgn \/ \E j \in 1..n : s[i][1] = src[j][1]
      BY DEF Loop
    <3>3. n + 1 \in 1..(n + 1) /\ \A i \in 1..n : i \in 1..(n + 1)
      OBVIOUS
    <3> QED
      BY <2>2, <3>1, <3>2, <3>3
  <2> DEFINE more == Merged(t, TRUE, bgn..(end - 1))
  <2>10. more.dst = t /\ more.placed = TRUE /\ more.stored = bgn..(end - 1) /\ n + 1 # 0
    BY DEF Merged
  <2> HIDE DEF more
  <2>11. more = Merged(more.dst, more.placed, more.stored)
    BY <2>10 DEF more
  <2>12. Loop(more, src, bgn, end, n + 1)
    BY <2>6, <2>7, <2>8, <2>9, <2>10, <2>11 DEF Loop, new
  <2> QED
    BY <2>1, <2>12 DEF more
<1>17. CASE acc.placed /\ p[1] <= end /\ end <= p[2]
  <2>1. /\ bgn < p[1] /\ s # <<>> /\ n # 0
        /\ l[1] <= bgn /\ l[2] = end
    BY <1>1, <1>2, <1>3, <1>10, <1>17
  <2> DEFINE t == Stretch(s, p[2])
  <2>2. MergeStep(acc, p, bgn, end) = Merged(t, TRUE, acc.stored)
    <3>1. bgn < p[1] /\ ~(end < p[1]) /\ end <= p[2] /\ acc.placed
      BY <1>1, <1>2, <1>17, <2>1
    <3> QED
      BY <3>1, Zenon DEF MergeStep, MergeBefore
  <2>3. s[Len(s)][2] = end /\ s[Len(s)][2] <= p[2] /\ s[Len(s)][1] = l[1]
    BY <1>17, <2>1 DEF l
  <2>4. /\ t \in Seq(Parts) /\ t # <<>> /\ Len(t) = Len(s)
        /\ t[Len(t)] = <<l[1], p[2]>> /\ Sorted(t)
        /\ \A o \in Nat : Covers(t, o) <=> (Covers(s, o) \/ (end <= o /\ o < p[2]))
        /\ DOMAIN t = DOMAIN s /\ \A k \in DOMAIN t : t[k][1] = s[k][1]
    <3> HIDE DEF s, p
    <3>2. /\ t \in Seq(Parts) /\ t # <<>> /\ Len(t) = Len(s)
          /\ t[Len(t)] = <<s[Len(s)][1], p[2]>> /\ Sorted(t)
          /\ \A o \in Nat : Covers(t, o) <=>
                    (Covers(s, o) \/ (s[Len(s)][2] <= o /\ o < p[2]))
          /\ DOMAIN t = DOMAIN s /\ \A k \in DOMAIN t : t[k][1] = s[k][1]
      BY <1>2, <1>4, <2>1, <2>3, ExtendPart
    <3> QED
      BY <2>3, <3>2
  <2> HIDE DEF t
  <2>5. \A o \in Nat : Within(l[1], end, o) => Covers(s, o)
    BY <1>5, <2>1, <2>3 DEF Covers, Within
  <2>6. Reach(t, TRUE, src, bgn, end, n + 1)
    <3>1. t[Len(t)][1] = l[1] /\ t[Len(t)][2] = p[2]
      BY <2>4
    <3> QED
      BY <1>1, <1>2, <1>17, <2>1, <2>4, <3>1 DEF Reach
  <2>7. ASSUME NEW o \in Nat
        PROVE  /\ Covers(t, o) <=> new(o) \/ Within(bgn, end, o)
               /\ Covers(t, o) <=> new(o) \/ o \in acc.stored
    BY <1>1, <1>2, <1>5, <1>6, <1>7, <1>17, <2>1, <2>4, <2>5 DEF Within
  <2>8. ASSUME NEW k \in DOMAIN t
        PROVE  t[k][1] = bgn \/ \E i \in 1..(n + 1) : t[k][1] = src[i][1]
    <3>1. s[k][1] = bgn \/ \E i \in 1..n : s[k][1] = src[i][1]
      BY <2>4 DEF Loop
    <3>2. \A i \in 1..n : i \in 1..(n + 1)
      OBVIOUS
    <3> QED
      BY <2>4, <3>1, <3>2
  <2> DEFINE more == Merged(t, TRUE, acc.stored)
  <2>9. more.dst = t /\ more.placed = TRUE /\ more.stored = acc.stored /\ n + 1 # 0
    BY DEF Merged
  <2> HIDE DEF more
  <2>10. more = Merged(more.dst, more.placed, more.stored)
    BY <2>9 DEF more
  <2>11. Loop(more, src, bgn, end, n + 1)
    BY <2>4, <2>6, <2>7, <2>8, <2>9, <2>10 DEF Loop, new
  <2> QED
    BY <2>2, <2>11 DEF more
<1>18. CASE acc.placed /\ p[2] < end
  <2>1. /\ bgn < p[1] /\ s # <<>> /\ n # 0
        /\ l[1] <= bgn /\ l[2] = end
    BY <1>1, <1>2, <1>3, <1>10, <1>18
  <2>2. MergeStep(acc, p, bgn, end) = acc
    <3>1. bgn < p[1] /\ ~(end < p[1]) /\ ~(end <= p[2]) /\ acc.placed
      BY <1>1, <1>2, <1>18, <2>1
    <3> QED
      BY <3>1, Zenon DEF MergeStep, MergeBefore
  <2>3. Reach(s, TRUE, src, bgn, end, n + 1)
    BY <1>1, <1>2, <1>18, <2>1 DEF Reach, l
  <2>4. ASSUME NEW o \in Nat
        PROVE  /\ Covers(s, o) <=> new(o) \/ (acc.placed /\ Within(bgn, end, o))
               /\ Covers(s, o) <=> new(o) \/ o \in acc.stored
    BY <1>1, <1>2, <1>6, <1>7, <1>18, <2>1 DEF Within
  <2>5. ASSUME NEW k \in DOMAIN s
        PROVE  s[k][1] = bgn \/ \E i \in 1..(n + 1) : s[k][1] = src[i][1]
    <3>1. s[k][1] = bgn \/ \E i \in 1..n : s[k][1] = src[i][1]
      BY DEF Loop
    <3>2. \A i \in 1..n : i \in 1..(n + 1)
      OBVIOUS
    <3> QED
      BY <3>1, <3>2
  <2>6. Loop(acc, src, bgn, end, n + 1)
    <3>1. n + 1 # 0 /\ acc.placed = TRUE
      BY <1>4, <1>18
    <3> QED
      BY <1>4, <2>3, <2>4, <2>5, <3>1 DEF Loop, new
  <2> QED
    BY <2>2, <2>6
<1> QED
  BY <1>1, <1>2, <1>4, <1>10, <1>11, <1>12, <1>13, <1>14, <1>15, <1>16, <1>17, <1>18, <1>19


(* What Merge returns: sorted parts that cover what the old ones and the   *)
(* new one cover, and what it stores is what was not covered, at least.    *)
MergedWell(m, src, bgn, end) ==
    /\ m.dst \in Seq(Parts) /\ m.dst # <<>> /\ Sorted(m.dst)
    /\ \A o \in Nat : /\ Covers(m.dst, o) <=> Covers(src, o) \/ Within(bgn, end, o)
                      /\ Covers(m.dst, o) <=> Covers(src, o) \/ o \in m.stored
    /\ \A k \in DOMAIN m.dst :
          m.dst[k][1] = bgn \/ \E i \in DOMAIN src : m.dst[k][1] = src[i][1]

(* Merging a part into sorted parts.                                       *)
LEMMA MergeFacts ==
    ASSUME NEW src \in Seq(Parts), Sorted(src),
           NEW bgn \in 0..Size, NEW end \in 0..Size, bgn < end
    PROVE  MergedWell(Merge(src, bgn, end), src, bgn, end)
<1> DEFINE f == CHOOSE f : MergeUpTo(src, bgn, end, Len(src), f)
           G == {n \in Nat : n <= Len(src) => Loop(f[n], src, bgn, end, n)}
           all == f[Len(src)]
<1>1. Len(src) \in Nat /\ DOMAIN src = 1..Len(src)
  OBVIOUS
<1>2. MergeUpTo(src, bgn, end, Len(src), f)
  BY <1>1, MergeExists
<1>3. Merge(src, bgn, end) = IF all.placed THEN all
                             ELSE Merged(Append(all.dst, <<bgn, end>>), TRUE, bgn..(end - 1))
  BY DEF Merge, MergeUpTo
<1> HIDE DEF f
<1>4. /\ f[0] = Merged(<<>>, FALSE, {})
      /\ \A n \in 1..Len(src) : f[n] = MergeStep(f[n - 1], src[n], bgn, end)
  <2>1. 0 \in 0..Len(src) /\ \A n \in 1..Len(src) : n \in 0..Len(src) /\ n # 0
    BY <1>1
  <2> QED
    BY <1>2, <2>1 DEF MergeUpTo
<1>5. 0 \in G
  <2> DEFINE e == f[0]
  <2>1. e.dst = <<>> /\ e.placed = FALSE /\ e.stored = {} /\ e = Merged(e.dst, e.placed, e.stored)
    BY <1>4 DEF Merged
  <2> HIDE DEF e
  <2>2. <<>> \in Seq(Parts) /\ DOMAIN <<>> = {} /\ Sorted(<<>>)
    BY DEF Sorted
  <2>3. Reach(<<>>, FALSE, src, bgn, end, 0)
    BY DEF Reach
  <2>4. \A o : ~Covers(<<>>, o) /\ ~CoversTo(src, 0, o)
    BY <2>2 DEF Covers, CoversTo
  <2>5. Loop(e, src, bgn, end, 0)
    BY <2>1, <2>2, <2>3, <2>4 DEF Loop
  <2> QED
    BY <2>5 DEF e
<1>6. ASSUME NEW n \in Nat, n \in G PROVE n + 1 \in G
  <2> SUFFICES ASSUME n + 1 <= Len(src) PROVE Loop(f[n + 1], src, bgn, end, n + 1)
    OBVIOUS
  <2>1. n <= Len(src) /\ n + 1 \in 1..Len(src) /\ (n + 1) - 1 = n
    BY <1>1
  <2>2. Loop(f[n], src, bgn, end, n)
    BY <1>6, <2>1
  <2>3. f[n + 1] = MergeStep(f[n], src[n + 1], bgn, end)
    BY <1>4, <2>1
  <2> QED
    BY <2>1, <2>2, <2>3, LoopStep
<1> HIDE DEF G
<1>7. Len(src) \in G
  BY <1>1, <1>5, <1>6, SetInduction
<1>8. Loop(all, src, bgn, end, Len(src))
  BY <1>7 DEF G
<1> HIDE DEF all
<1>9. \A o : Covers(src, o) <=> CoversTo(src, Len(src), o)
  BY <1>1 DEF Covers, CoversTo
<1>10. CASE all.placed
  <2>1. Merge(src, bgn, end) = all
    BY <1>3, <1>10
  <2>2. all.dst # <<>>
    BY <1>8, <1>10 DEF Loop, Reach
  <2>3. MergedWell(all, src, bgn, end)
    BY <1>1, <1>8, <1>9, <1>10, <2>2 DEF Loop, MergedWell
  <2> QED
    BY <2>1, <2>3
<1>11. CASE ~all.placed
  <2> DEFINE s == all.dst
             t == Append(s, <<bgn, end>>)
             m == Merged(t, TRUE, bgn..(end - 1))
  <2>1. Merge(src, bgn, end) = m
    BY <1>3, <1>11
  <2>2. <<bgn, end>> \in Parts /\ <<bgn, end>>[1] = bgn /\ <<bgn, end>>[2] = end
    BY PartOf
  <2>3. s \in Seq(Parts) /\ Sorted(s) /\ (s # <<>> => s[Len(s)][2] < <<bgn, end>>[1])
    BY <1>8, <1>11, <2>2 DEF Loop, Reach
  <2>4. /\ t \in Seq(Parts) /\ t # <<>> /\ Sorted(t)
        /\ \A o : Covers(t, o) <=> (Covers(s, o) \/ (bgn <= o /\ o < end))
        /\ \A k \in DOMAIN t : t[k] = <<bgn, end>> \/ \E i \in DOMAIN s : t[k] = s[i]
    <3> HIDE DEF s
    <3> QED
      BY <2>2, <2>3, AppendPart
  <2> HIDE DEF t
  <2>5. ASSUME NEW o \in Nat
        PROVE  /\ Covers(t, o) <=> Covers(src, o) \/ Within(bgn, end, o)
               /\ Covers(t, o) <=> Covers(src, o) \/ o \in bgn..(end - 1)
    <3>1. Covers(s, o) <=> Covers(src, o)
      BY <1>8, <1>9, <1>11 DEF Loop
    <3>2. bgn \in Int /\ end \in Int /\ o \in Int
      BY SizeFacts
    <3> QED
      BY <2>4, <3>1, <3>2 DEF Within
  <2>6. ASSUME NEW k \in DOMAIN t
        PROVE  t[k][1] = bgn \/ \E i \in DOMAIN src : t[k][1] = src[i][1]
    <3>1. \A i \in DOMAIN s : s[i][1] = bgn \/ \E j \in 1..Len(src) : s[i][1] = src[j][1]
      BY <1>8 DEF Loop
    <3> QED
      BY <1>1, <2>2, <2>4, <3>1
  <2>7. m.dst = t /\ m.stored = bgn..(end - 1)
    BY DEF Merged
  <2> HIDE DEF m
  <2>8. MergedWell(m, src, bgn, end)
    BY <2>4, <2>5, <2>6, <2>7 DEF MergedWell
  <2> QED
    BY <2>1, <2>8
<1>12. all.placed \in BOOLEAN
  BY <1>8 DEF Loop
<1> QED
  BY <1>10, <1>11, <1>12
-----------------------------------------------------------------------------
(* Blobs: the lists have exactly the parts that came.                      *)

(* What the parts cover is what was stored.                                *)
Exact(p) == \A o \in Offsets : p.data[o] # 0 <=> Covers(p.parts, o)

(* A blob to which a fragment may be added, ...                            *)
Started(p) == /\ p.kind \in Kinds /\ p.data \in [Offsets -> 0..BlobCount]
              /\ p.parts \in Seq(Parts) /\ Sorted(p.parts) /\ Exact(p)

(* ... and what is in the list of incoming blobs.                          *)
WellBlobs == {p \in PendingBlob : /\ Sorted(p.parts) /\ Exact(p)
                                  /\ p.id = 0 <=> p.total = 0
                                  /\ p.parts = <<>> <=> p.total = 0}

SortedParts == {s \in Seq(Parts) : Sorted(s)}

(* The invariant of the lists of both sides.                               *)
ListsInv == /\ outgoing \in [Blobs -> {"new", "pending", "expired"}]
            /\ todo \in [Blobs -> SortedParts]
            /\ incoming \in [Receivers -> Seq(WellBlobs)]
            /\ expected \in [Receivers -> SUBSET Kinds]
            /\ fetched \in [Receivers -> Seq(PendingBlob)]
            /\ cancelled \in [Receivers -> SUBSET (0..BlobCount)]
            /\ IsABag(net) /\ DOMAIN net \subseteq Fragment \cup Resend
            /\ lost \in 0..MaxLost
            /\ doubled \subseteq Fragment \cup Resend

(* Offsets are naturals, and blobs have numbers but 0.                     *)
LEMMA OffsetFacts ==
    /\ \A o \in Offsets : o \in Nat /\ o < Size
    /\ \A b \in Blobs : b \in 1..BlobCount /\ b \in 0..BlobCount /\ b # 0
    /\ BlobCount \in Nat /\ 0 \in 0..BlobCount
  BY SizeFacts, BlobAssumption DEF Offsets, Blobs

(* The fields of a blob.                                                   *)
LEMMA PendingFacts ==
    ASSUME NEW k, NEW b, NEW t, NEW s, NEW d
    PROVE  /\ Pending(k, b, t, s, d).kind = k /\ Pending(k, b, t, s, d).id = b
           /\ Pending(k, b, t, s, d).total = t /\ Pending(k, b, t, s, d).parts = s
           /\ Pending(k, b, t, s, d).data = d
           /\ k \in Kinds /\ b \in 0..BlobCount /\ t \in {0, Size} /\ s \in Seq(Parts)
              /\ d \in [Offsets -> 0..BlobCount] => Pending(k, b, t, s, d) \in PendingBlob
  BY DEF Pending, PendingBlob

(* A blob of which nothing came.                                           *)
LEMMA NothingFacts ==
    /\ Nothing \in [Offsets -> 0..BlobCount]
    /\ <<>> \in Seq(Parts) /\ Sorted(<<>>)
    /\ \A o : ~Covers(<<>>, o)
    /\ \A o \in Offsets : Nothing[o] = 0
<1>1. DOMAIN <<>> = {}
  OBVIOUS
<1> QED
  BY <1>1, OffsetFacts DEF Nothing, Sorted, Covers

(* A blob that is expected is in order, ...                                *)
LEMMA ExpectedWell ==
    ASSUME NEW k \in Kinds
    PROVE  Pending(k, 0, 0, <<>>, Nothing) \in WellBlobs
<1> DEFINE p == Pending(k, 0, 0, <<>>, Nothing)
<1>1. /\ p.kind = k /\ p.id = 0 /\ p.total = 0 /\ p.parts = <<>> /\ p.data = Nothing
      /\ p \in PendingBlob
  <2>1. 0 \in {0, Size} /\ 0 \in 0..BlobCount
    BY OffsetFacts
  <2>2. p.kind = k /\ p.id = 0 /\ p.total = 0 /\ p.parts = <<>> /\ p.data = Nothing
    BY PendingFacts
  <2> QED
    BY <2>1, <2>2, PendingFacts, NothingFacts
<1> HIDE DEF p
<1>2. Exact(p)
  BY <1>1, NothingFacts DEF Exact
<1>3. p \in WellBlobs
  BY <1>1, <1>2, NothingFacts DEF WellBlobs
<1> QED
  BY <1>3 DEF p

(* ... and so is one that a fragment was added to.                         *)
LEMMA FragmentWell ==
    ASSUME NEW p, Started(p), NEW b \in Blobs, NEW part \in Parts
    PROVE  LET q == WithFragment(p, b, part)
           IN  /\ q \in WellBlobs /\ q.id = b /\ q.kind = p.kind /\ q.total = Size
               /\ \A o \in Offsets : q.data[o] = b \/ q.data[o] = p.data[o]
               /\ \A k \in DOMAIN q.parts :
                     \/ q.parts[k][1] = part[1]
                     \/ \E i \in DOMAIN p.parts : q.parts[k][1] = p.parts[i][1]
<1> DEFINE m == Merge(p.parts, part[1], part[2])
           d == [o \in Offsets |-> IF o \in m.stored THEN b ELSE p.data[o]]
           q == WithFragment(p, b, part)
<1>1. MergedWell(m, p.parts, part[1], part[2])
  BY PartFacts, MergeFacts DEF Started
<1>2. q = Pending(p.kind, b, Size, m.dst, d)
  BY DEF WithFragment
<1> HIDE DEF m
<1>3. d \in [Offsets -> 0..BlobCount]
  BY OffsetFacts DEF Started
<1>4. /\ q.kind = p.kind /\ q.id = b /\ q.total = Size /\ q.parts = m.dst /\ q.data = d
      /\ q \in PendingBlob
  BY <1>1, <1>2, <1>3, PendingFacts, OffsetFacts DEF Started, MergedWell
<1> HIDE DEF q
<1>5. ASSUME NEW o \in Offsets PROVE q.data[o] # 0 <=> Covers(q.parts, o)
  <2>1. o \in Nat /\ b # 0
    BY OffsetFacts
  <2>2. Covers(m.dst, o) <=> Covers(p.parts, o) \/ o \in m.stored
    BY <1>1, <2>1 DEF MergedWell
  <2>3. p.data[o] # 0 <=> Covers(p.parts, o)
    BY DEF Started, Exact
  <2>4. d[o] # 0 <=> p.data[o] # 0 \/ o \in m.stored
    BY <2>1
  <2> QED
    BY <1>4, <2>2, <2>3, <2>4
<1>6. Exact(q)
  BY <1>5 DEF Exact
<1>7. q \in WellBlobs
  BY <1>1, <1>4, <1>6, SizeFacts, OffsetFacts DEF WellBlobs, MergedWell
<1>8. \A o \in Offsets : q.data[o] = b \/ q.data[o] = p.data[o]
  BY <1>4
<1>9. \A k \in DOMAIN q.parts : \/ q.parts[k][1] = part[1]
                                \/ \E i \in DOMAIN p.parts : q.parts[k][1] = p.parts[i][1]
  BY <1>1, <1>4 DEF MergedWell
<1> QED
  BY <1>4, <1>7, <1>8, <1>9 DEF q

(* An incoming blob is one to which a fragment may be added, also a new.   *)
LEMMA MayStart ==
    /\ \A p \in WellBlobs : Started(p)
    /\ \A b \in Blobs : Started(Pending(Kind[b], b, Size, <<>>, Nothing))
<1>1. ASSUME NEW p \in WellBlobs PROVE Started(p)
  BY DEF WellBlobs, PendingBlob, Started
<1>2. ASSUME NEW b \in Blobs PROVE Started(Pending(Kind[b], b, Size, <<>>, Nothing))
  <2> DEFINE p == Pending(Kind[b], b, Size, <<>>, Nothing)
  <2>1. p.kind = Kind[b] /\ p.parts = <<>> /\ p.data = Nothing
    BY PendingFacts
  <2> HIDE DEF p
  <2>2. Exact(p)
    BY <2>1, NothingFacts DEF Exact
  <2>3. Kind[b] \in Kinds
    BY DEF Kinds
  <2>4. Started(p)
    BY <2>1, <2>2, <2>3, NothingFacts DEF Started
  <2> QED
    BY <2>4 DEF p
<1> QED
  BY <1>1, <1>2


(* Where a fragment goes: to the blob with its id, else to one of its      *)
(* kind, else to a new one.                                                *)
LEMMA AfterFacts ==
    ASSUME NEW s \in Seq(WellBlobs), NEW b \in Blobs, NEW part
    PROVE  \/ \E i \in DOMAIN s :
                 /\ \/ s[i].id = b
                    \/ s[i].kind = Kind[b] /\ \A j \in DOMAIN s : s[j].id # b
                 /\ AfterFragment(s, b, part) = [s EXCEPT ![i] = WithFragment(s[i], b, part)]
           \/ /\ \A j \in DOMAIN s : s[j].id # b
              /\ AfterFragment(s, b, part) =
                    Append(s, WithFragment(Pending(Kind[b], b, Size, <<>>, Nothing), b, part))
<1> DEFINE byId == {i \in DOMAIN s : s[i].id = b}
           byKind == {i \in DOMAIN s : s[i].kind = Kind[b]}
           i == Target(s, b)
<1>1. Len(s) \in Nat /\ DOMAIN s = 1..Len(s)
  OBVIOUS
<1>2. byId \in SUBSET (1..Len(s)) /\ byKind \in SUBSET (1..Len(s))
  BY <1>1
<1>3. /\ byId = {} \/ FirstOf(byId) \in byId
      /\ byKind = {} => FirstOf(byKind) = 0
      /\ byKind # {} => FirstOf(byKind) \in byKind
  <2> HIDE DEF byId, byKind
  <2> QED
    BY <1>1, <1>2, FirstOfFacts
<1>4. i = IF byId # {} THEN FirstOf(byId) ELSE FirstOf(byKind)
  BY DEF Target
<1>5. AfterFragment(s, b, part) =
          IF i # 0 THEN [s EXCEPT ![i] = WithFragment(s[i], b, part)]
          ELSE Append(s, WithFragment(Pending(Kind[b], b, Size, <<>>, Nothing), b, part))
  BY DEF AfterFragment
<1> HIDE DEF i
<1>6. CASE byId # {}
  <2>1. i \in DOMAIN s /\ s[i].id = b /\ i # 0
    BY <1>1, <1>3, <1>4, <1>6
  <2> QED
    BY <1>5, <2>1
<1>7. CASE byId = {}
  <2>1. \A j \in DOMAIN s : s[j].id # b
    BY <1>7
  <2>2. CASE byKind # {}
    <3>1. i \in DOMAIN s /\ s[i].kind = Kind[b] /\ i # 0
      BY <1>1, <1>3, <1>4, <1>7, <2>2
    <3> QED
      BY <1>5, <2>1, <3>1
  <2>3. CASE byKind = {}
    <3>1. i = 0
      BY <1>3, <1>4, <1>7, <2>3
    <3> QED
      BY <1>5, <2>1, <3>1
  <2> QED
    BY <2>2, <2>3
<1> QED
  BY <1>6, <1>7

(* The list of incoming blobs stays in order.                              *)
LEMMA AfterWell ==
    ASSUME NEW s \in Seq(WellBlobs), NEW b \in Blobs, NEW part \in Parts
    PROVE  AfterFragment(s, b, part) \in Seq(WellBlobs)
<1>1. CASE \E i \in DOMAIN s :
              AfterFragment(s, b, part) = [s EXCEPT ![i] = WithFragment(s[i], b, part)]
  <2>1. PICK i \in DOMAIN s :
            AfterFragment(s, b, part) = [s EXCEPT ![i] = WithFragment(s[i], b, part)]
    BY <1>1
  <2>2. s[i] \in WellBlobs /\ Len(s) \in Nat /\ DOMAIN s = 1..Len(s)
    OBVIOUS
  <2>3. WithFragment(s[i], b, part) \in WellBlobs
    BY <2>2, MayStart, FragmentWell
  <2> QED
    BY <2>1, <2>2, <2>3, ExceptSeq
<1>2. CASE AfterFragment(s, b, part) =
              Append(s, WithFragment(Pending(Kind[b], b, Size, <<>>, Nothing), b, part))
  <2>1. WithFragment(Pending(Kind[b], b, Size, <<>>, Nothing), b, part) \in WellBlobs
    BY MayStart, FragmentWell
  <2> QED
    BY <1>2, <2>1, AppendProperties
<1> QED
  BY <1>1, <1>2, AfterFacts

(* What is taken out of the list, and what stays in it.                    *)
LEMMA CompleteFacts ==
    ASSUME NEW S, NEW s \in Seq(S)
    PROVE  /\ Complete(s) \in Seq(S) /\ Incomplete(s) \in Seq(S)
           /\ \E f \in [DOMAIN Complete(s) -> DOMAIN s] :
                 /\ \A i, j \in DOMAIN Complete(s) : f[i] = f[j] => i = j
                 /\ \A i \in DOMAIN Complete(s) :
                       Complete(s)[i] = s[f[i]] /\ ReceivedEverything(s[f[i]])
           /\ \E f \in [DOMAIN Incomplete(s) -> DOMAIN s] :
                 /\ \A i, j \in DOMAIN Incomplete(s) : f[i] = f[j] => i = j
                 /\ \A i \in DOMAIN Incomplete(s) :
                       Incomplete(s)[i] = s[f[i]] /\ ~ReceivedEverything(s[f[i]])
<1> DEFINE T == {i \in DOMAIN s : ReceivedEverything(s[i])}
           U == {i \in DOMAIN s : ~ReceivedEverything(s[i])}
<1>1. T \in SUBSET DOMAIN s /\ U \in SUBSET DOMAIN s
  OBVIOUS
<1>2. Complete(s) = Only(s, T) /\ Incomplete(s) = Only(s, U)
  BY DEF Complete, Incomplete
<1>3. \A i \in T : i \in DOMAIN s /\ ReceivedEverything(s[i])
  OBVIOUS
<1>4. \A i \in U : i \in DOMAIN s /\ ~ReceivedEverything(s[i])
  OBVIOUS
<1> HIDE DEF T, U
<1>5. /\ Only(s, T) \in Seq(S)
      /\ \E f \in [DOMAIN Only(s, T) -> T] :
                 /\ \A i, j \in DOMAIN Only(s, T) : f[i] = f[j] => i = j
                 /\ \A i \in DOMAIN Only(s, T) : Only(s, T)[i] = s[f[i]]
  BY <1>1, OnlyPlaces
<1>6. /\ Only(s, U) \in Seq(S)
      /\ \E f \in [DOMAIN Only(s, U) -> U] :
                 /\ \A i, j \in DOMAIN Only(s, U) : f[i] = f[j] => i = j
                 /\ \A i \in DOMAIN Only(s, U) : Only(s, U)[i] = s[f[i]]
  BY <1>1, OnlyPlaces
<1>7. PICK f \in [DOMAIN Only(s, T) -> T] :
                 /\ \A i, j \in DOMAIN Only(s, T) : f[i] = f[j] => i = j
                 /\ \A i \in DOMAIN Only(s, T) : Only(s, T)[i] = s[f[i]]
  BY <1>5
<1>8. PICK g \in [DOMAIN Only(s, U) -> U] :
                 /\ \A i, j \in DOMAIN Only(s, U) : g[i] = g[j] => i = j
                 /\ \A i \in DOMAIN Only(s, U) : Only(s, U)[i] = s[g[i]]
  BY <1>6
<1>9. f \in [DOMAIN Only(s, T) -> DOMAIN s] /\ g \in [DOMAIN Only(s, U) -> DOMAIN s]
  BY <1>3, <1>4
<1>10. \A i \in DOMAIN Only(s, T) : ReceivedEverything(s[f[i]])
  BY <1>3
<1>11. \A i \in DOMAIN Only(s, U) : ~ReceivedEverything(s[g[i]])
  BY <1>4
<1> DEFINE c == Complete(s)
           d == Incomplete(s)
<1>12. c = Only(s, T) /\ d = Only(s, U)
  BY <1>2
<1> HIDE DEF c, d
<1>13. /\ f \in [DOMAIN c -> DOMAIN s]
       /\ \A i, j \in DOMAIN c : f[i] = f[j] => i = j
       /\ \A i \in DOMAIN c : c[i] = s[f[i]] /\ ReceivedEverything(s[f[i]])
  BY <1>7, <1>9, <1>10, <1>12
<1>14. /\ g \in [DOMAIN d -> DOMAIN s]
       /\ \A i, j \in DOMAIN d : g[i] = g[j] => i = j
       /\ \A i \in DOMAIN d : d[i] = s[g[i]] /\ ~ReceivedEverything(s[g[i]])
  BY <1>8, <1>9, <1>11, <1>12
<1>15. c \in Seq(S) /\ d \in Seq(S)
  BY <1>5, <1>6, <1>12
<1> QED
  BY <1>13, <1>14, <1>15 DEF c, d


(* The parts of the blob that the sender has yet to send.                  *)
LEMMA TodoFacts ==
    ASSUME NEW b \in Blobs, todo[b] \in SortedParts, ~SentEverything(b)
    PROVE  /\ NextPart(b) \in Parts /\ NextPart(b)[1] = Last(todo[b])[1]
           /\ todo[b] # <<>>
           /\ TodoAfter(b) \in SortedParts
           /\ \A k \in DOMAIN TodoAfter(b) :
                 TodoAfter(b)[k][1] = NextPart(b)[2] \/
                    (k \in DOMAIN todo[b] /\ k < Len(todo[b]) /\ TodoAfter(b)[k] = todo[b][k])
<1> DEFINE s == todo[b]
           n == Len(s)
           p == s[n]
           q == NextPart(b)
           t == TodoAfter(b)
           u == Front(s)
<1>1. s \in Seq(Parts) /\ Sorted(s) /\ s # <<>>
  BY DEF SentEverything, SortedParts
<1>2. n \in Nat /\ n # 0 /\ n - 1 \in Nat /\ n \in DOMAIN s /\ DOMAIN s = 1..n /\ p \in Parts
  BY <1>1
<1>3. p[1] \in 0..Size /\ p[2] \in 0..Size /\ p[1] < p[2] /\ Last(s) = p
  BY <1>2, PartFacts DEF Last
<1>4. q = <<p[1], IF p[1] + Frag <= Size THEN p[1] + Frag ELSE Size>>
  BY <1>3 DEF NextPart
<1>5. q[1] = p[1] /\ q[2] \in 0..Size /\ q[1] < q[2] /\ q \in Parts
  <2>1. q[1] = p[1] /\ q[2] \in 0..Size /\ q[1] < q[2] /\ q = <<q[1], q[2]>>
    BY <1>3, <1>4, SizeFacts
  <2> HIDE DEF q
  <2> QED
    BY <1>3, <2>1, PartOf
<1>6. t = IF q[2] >= p[2] THEN u ELSE Append(u, <<q[2], p[2]>>)
  BY <1>3 DEF TodoAfter
<1>7. /\ u \in Seq(Parts) /\ Len(u) = n - 1
      /\ DOMAIN u = 1..(n - 1) /\ \A k \in 1..(n - 1) : u[k] = s[k]
  <2>1. u = SubSeq(s, 1, n - 1)
    BY DEF Front
  <2> HIDE DEF u
  <2> QED
    BY <1>1, <1>2, <2>1, SubSeqProperties
<1> HIDE DEF q, t, u
<1>8. Sorted(u) /\ (u # <<>> => u[Len(u)][2] < p[1])
  <2>1. \A k \in 1..(n - 1) : k \in DOMAIN s /\ k < n
    BY <1>2
  <2>2. Sorted(u)
    BY <1>1, <1>7, <2>1 DEF Sorted
  <2>3. u # <<>> => u[Len(u)][2] < p[1]
    <3> SUFFICES ASSUME u # <<>> PROVE u[Len(u)][2] < p[1]
      OBVIOUS
    <3>1. n - 1 \in 1..(n - 1)
      BY <1>2, <1>7
    <3>2. s[n - 1][2] < s[n][1]
      BY <1>1, <1>2, <2>1, <3>1 DEF Sorted
    <3> QED
      BY <1>7, <3>1, <3>2
  <2> QED
    BY <2>2, <2>3
<1>9. CASE q[2] >= p[2]
  <2>1. t = u
    BY <1>6, <1>9
  <2>2. \A k \in DOMAIN t : k \in DOMAIN s /\ k < n /\ t[k] = s[k]
    BY <1>2, <1>7, <2>1
  <2> QED
    BY <1>1, <1>3, <1>5, <1>7, <1>8, <2>1, <2>2 DEF SortedParts, q, t
<1>10. CASE ~(q[2] >= p[2])
  <2> DEFINE r == <<q[2], p[2]>>
  <2>1. t = Append(u, r) /\ r \in Parts /\ r[1] = q[2]
    BY <1>3, <1>5, <1>6, <1>10, PartOf, SizeFacts
  <2> HIDE DEF r
  <2>2. u # <<>> => u[Len(u)][2] < r[1]
    <3> SUFFICES ASSUME u # <<>> PROVE u[Len(u)][2] < r[1]
      OBVIOUS
    <3>1. Len(u) \in DOMAIN u
      BY <1>7
    <3>2. u[Len(u)] \in Parts
      BY <1>7, <3>1
    <3> QED
      BY <1>3, <1>5, <1>8, <2>1, <3>2, PartFacts, SizeFacts
  <2>3. t \in SortedParts
    BY <1>7, <1>8, <2>1, <2>2, AppendPart DEF SortedParts
  <2>4. \A k \in DOMAIN t : t[k] = r \/ (k \in DOMAIN s /\ k < n /\ t[k] = s[k])
    <3>1. DOMAIN t = 1..n /\ t[n] = r /\ \A k \in 1..(n - 1) : t[k] = u[k]
      BY <1>2, <1>7, <2>1
    <3> QED
      BY <1>2, <1>7, <3>1
  <2> QED
    BY <1>1, <1>3, <1>5, <2>1, <2>3, <2>4 DEF q, t
<1> QED
  BY <1>9, <1>10

(* The part that a receiver asks for ends with the blob.                   *)
LEMMA ResendFacts ==
    ASSUME NEW p \in WellBlobs, Asks(p)
    PROVE  ResendPart(p) \in Parts /\ ResendPart(p)[1] # 0 /\ p.id \in Blobs
<1>1. p \in PendingBlob /\ p.parts \in Seq(Parts) /\ p.parts # <<>>
  BY DEF WellBlobs, PendingBlob, Asks
<1>2. p.parts[1] \in Parts
  BY <1>1
<1>3. p.parts[1][1] \in 0..Size /\ p.parts[1][2] \in 0..Size /\ p.parts[1][1] < p.parts[1][2]
  BY <1>2, PartFacts
<1>4. p.total = Size /\ p.id # 0 /\ p.id \in 0..BlobCount
  BY <1>1 DEF WellBlobs, PendingBlob
<1>5. ResendPart(p)[1] < ResendPart(p)[2]
  BY DEF Asks
<1>6. Len(p.parts) > 1 => FALSE
  <2>1. ASSUME Len(p.parts) > 1 PROVE ResendPart(p)[1] = ResendPart(p)[2]
    BY <2>1 DEF ResendPart
  <2> QED
    BY <1>3, <1>5, <2>1, SizeFacts DEF ResendPart
<1>7. ResendPart(p) = <<p.parts[1][2], Size>>
  BY <1>4, <1>6 DEF ResendPart
<1>8. p.parts[1][2] < Size
  BY <1>5, <1>7
<1>9. ResendPart(p) \in Parts
  BY <1>3, <1>7, <1>8, SizeFacts, PartOf
<1>10. p.id \in Blobs
  BY <1>4, OffsetFacts DEF Blobs
<1> QED
  BY <1>3, <1>7, <1>9, <1>10, SizeFacts


(* The invariant has what BlobInv promises.                                *)
LEMMA ListsEnough == ListsInv => BlobInv
<1> SUFFICES ASSUME ListsInv PROVE BlobInv
  OBVIOUS
<1>1. WellBlobs \subseteq PendingBlob /\ SortedParts \subseteq Seq(Parts)
  BY DEF WellBlobs, SortedParts
<1>2. Seq(WellBlobs) \subseteq Seq(PendingBlob)
  BY <1>1, SeqMonotonic
<1>3. BlobTypeOK
  BY <1>1, <1>2 DEF ListsInv, BlobTypeOK, BagToSet
<1>4. ASSUME NEW r \in Receivers, NEW i \in DOMAIN incoming[r]
      PROVE  LET p == incoming[r][i]
             IN  /\ \A k \in 1..(Len(p.parts) - 1) : p.parts[k][2] < p.parts[k + 1][1]
                 /\ {o \in Offsets : p.data[o] # 0} =
                       UNION {p.parts[k][1]..(p.parts[k][2] - 1) : k \in DOMAIN p.parts}
  <2> DEFINE p == incoming[r][i]
  <2>1. incoming[r] \in Seq(WellBlobs)
    BY DEF ListsInv
  <2>2. p \in WellBlobs
    BY <2>1
  <2> HIDE DEF p
  <2>3. p.parts \in Seq(Parts) /\ Sorted(p.parts) /\ Exact(p)
    BY <2>2 DEF WellBlobs, PendingBlob
  <2>4. ASSUME NEW k \in 1..(Len(p.parts) - 1) PROVE p.parts[k][2] < p.parts[k + 1][1]
    <3>1. k \in DOMAIN p.parts /\ k + 1 \in DOMAIN p.parts /\ k < k + 1
      BY <2>3
    <3> QED
      BY <2>3, <3>1 DEF Sorted
  <2>5. ASSUME NEW o
        PROVE  (o \in Offsets /\ p.data[o] # 0) <=>
                  \E k \in DOMAIN p.parts : o \in p.parts[k][1]..(p.parts[k][2] - 1)
    <3>1. \A k \in DOMAIN p.parts : /\ p.parts[k][1] \in 0..Size /\ p.parts[k][2] \in 0..Size
      <4>1. \A k \in DOMAIN p.parts : p.parts[k] \in Parts
        BY <2>3
      <4> QED
        BY <4>1, PartFacts
    <3>2. ASSUME NEW k \in DOMAIN p.parts, o \in p.parts[k][1]..(p.parts[k][2] - 1)
          PROVE  o \in Offsets /\ Covers(p.parts, o)
      <4>1. o \in Offsets /\ p.parts[k][1] <= o /\ o < p.parts[k][2]
        BY <3>1, <3>2, SizeFacts DEF Offsets
      <4> QED
        BY <4>1 DEF Covers
    <3>3. ASSUME o \in Offsets, NEW k \in DOMAIN p.parts, p.parts[k][1] <= o, o < p.parts[k][2]
          PROVE  o \in p.parts[k][1]..(p.parts[k][2] - 1)
      BY <3>1, <3>3, SizeFacts DEF Offsets
    <3>4. o \in Offsets /\ Covers(p.parts, o) =>
             \E k \in DOMAIN p.parts : o \in p.parts[k][1]..(p.parts[k][2] - 1)
      BY <3>3 DEF Covers
    <3>5. o \in Offsets => (p.data[o] # 0 <=> Covers(p.parts, o))
      BY <2>3 DEF Exact
    <3> QED
      BY <3>2, <3>4, <3>5
  <2>6. {o \in Offsets : p.data[o] # 0} =
           UNION {p.parts[k][1]..(p.parts[k][2] - 1) : k \in DOMAIN p.parts}
    <3> DEFINE A == {o \in Offsets : p.data[o] # 0}
               B == UNION {p.parts[k][1]..(p.parts[k][2] - 1) : k \in DOMAIN p.parts}
    <3>1. \A o : o \in B <=> \E k \in DOMAIN p.parts : o \in p.parts[k][1]..(p.parts[k][2] - 1)
      OBVIOUS
    <3>2. \A o : o \in A <=> (o \in Offsets /\ p.data[o] # 0)
      OBVIOUS
    <3> HIDE DEF A, B
    <3>3. A = B
      BY <2>5, <3>1, <3>2
    <3> QED
      BY <3>3 DEF A, B
  <2> QED
    BY <2>4, <2>6 DEF p
<1>5. PartsExact
  BY <1>4 DEF PartsExact
<1> QED
  BY <1>3, <1>5 DEF BlobInv

(* The invariant of the lists holds initially ...                          *)
LEMMA ListsInit == BlobInit => ListsInv
<1> SUFFICES ASSUME BlobInit PROVE ListsInv
  OBVIOUS
<1>1. IsABag(EmptyBag) /\ DOMAIN EmptyBag = {}
  BY DEF EmptyBag, SetToBag, IsABag
<1>2. <<>> \in SortedParts /\ <<>> \in Seq(WellBlobs) /\ <<>> \in Seq(PendingBlob)
  BY NothingFacts DEF SortedParts
<1>3. 0 \in 0..MaxLost
  BY BlobAssumption
<1> QED
  BY <1>1, <1>2, <1>3 DEF BlobInit, ListsInv

(* ... and is kept by the steps of the sender, ...                         *)
LEMMA PostLists ==
    ASSUME ListsInv, NEW b \in Blobs, Post(b)
    PROVE  ListsInv'
<1>1. <<0, Size>> \in Parts
  BY SizeFacts, PartOf
<1>2. <<<<0, Size>>>> \in SortedParts
  <2>1. <<<<0, Size>>>> \in Seq(Parts) /\ DOMAIN <<<<0, Size>>>> = {1}
    BY <1>1
  <2>2. Sorted(<<<<0, Size>>>>)
    BY <2>1 DEF Sorted
  <2> QED
    BY <2>1, <2>2 DEF SortedParts
<1>3. todo' \in [Blobs -> SortedParts]
  BY <1>2 DEF ListsInv, Post
<1>4. outgoing' \in [Blobs -> {"new", "pending", "expired"}]
  BY DEF ListsInv, Post
<1> QED
  BY <1>3, <1>4 DEF ListsInv, Post

(* (a blob whose time is over)                                             *)
LEMMA ExpireLists ==
    ASSUME ListsInv, NEW b \in Blobs, ExpireOutgoing(b)
    PROVE  ListsInv'
<1>1. <<>> \in SortedParts
  BY NothingFacts DEF SortedParts
<1>2. todo' \in [Blobs -> SortedParts]
  BY <1>1 DEF ListsInv, ExpireOutgoing
<1>3. outgoing' \in [Blobs -> {"new", "pending", "expired"}]
  BY DEF ListsInv, ExpireOutgoing
<1> QED
  BY <1>2, <1>3 DEF ListsInv, ExpireOutgoing

(* (a fragment of each blob)                                               *)
LEMMA OutgoingLists ==
    ASSUME ListsInv, ProcessOutgoing
    PROVE  ListsInv'
<1> DEFINE busy == {b \in Blobs : ~SentEverything(b)}
           S == {[kind |-> "fragment", node |-> r, blob |-> b, part |-> NextPart(b)] :
                    r \in Receivers, b \in busy}
<1>1. /\ todo' = [b \in Blobs |-> IF b \in busy THEN TodoAfter(b) ELSE todo[b]]
      /\ net' = net (+) SetToBag(S)
      /\ UNCHANGED <<outgoing, incoming, expected, fetched, cancelled, lost, doubled>>
  BY DEF ProcessOutgoing
<1>2. \A b \in busy : b \in Blobs /\ NextPart(b) \in Parts /\ TodoAfter(b) \in SortedParts
  <2> SUFFICES ASSUME NEW b \in busy
               PROVE  b \in Blobs /\ NextPart(b) \in Parts /\ TodoAfter(b) \in SortedParts
    OBVIOUS
  <2>1. b \in Blobs /\ ~SentEverything(b) /\ todo[b] \in SortedParts
    BY DEF ListsInv
  <2> QED
    BY <2>1, TodoFacts
<1> HIDE DEF busy
<1>3. todo' \in [Blobs -> SortedParts]
  BY <1>1, <1>2 DEF ListsInv
<1>4. S \subseteq Fragment
  BY <1>2 DEF Fragment
<1> HIDE DEF S
<1>5. IsABag(net') /\ DOMAIN net' = DOMAIN net \cup S
  BY <1>1, BagAdd DEF ListsInv
<1> QED
  BY <1>1, <1>3, <1>4, <1>5 DEF ListsInv

(* (a part that is to be sent again)                                       *)
LEMMA ResendLists ==
    ASSUME ListsInv, NEW m \in DOMAIN net, ProcessResend(m)
    PROVE  ListsInv'
<1>1. m \in Resend
  <2>1. m \in Fragment \cup Resend /\ m.kind = "resend"
    BY DEF ListsInv, ProcessResend
  <2> QED
    BY <2>1 DEF Fragment
<1>2. m.blob \in Blobs /\ m.part \in Parts
  BY <1>1 DEF Resend
<1>3. MergedWell(Merge(todo[m.blob], m.part[1], m.part[2]), todo[m.blob], m.part[1], m.part[2])
  BY <1>2, PartFacts, MergeFacts DEF ListsInv, SortedParts
<1>4. Merge(todo[m.blob], m.part[1], m.part[2]).dst \in SortedParts
  BY <1>3 DEF MergedWell, SortedParts
<1>5. todo' \in [Blobs -> SortedParts]
  BY <1>2, <1>4 DEF ListsInv, ProcessResend
<1>6. IsABag(net') /\ DOMAIN net' \subseteq DOMAIN net
  BY BagTake DEF ListsInv, ProcessResend
<1> QED
  BY <1>5, <1>6 DEF ListsInv, ProcessResend


(* What is given to the handlers are blobs.                                *)
LEMMA HandOverLists ==
    ASSUME ListsInv, NEW r \in Receivers, NEW s \in Seq(WellBlobs),
           incoming' = [incoming EXCEPT ![r] = Incomplete(s)],
           fetched' = [fetched EXCEPT ![r] = @ \o Complete(s)]
    PROVE  /\ incoming' \in [Receivers -> Seq(WellBlobs)]
           /\ fetched' \in [Receivers -> Seq(PendingBlob)]
<1>1. Complete(s) \in Seq(WellBlobs) /\ Incomplete(s) \in Seq(WellBlobs)
  BY CompleteFacts
<1>2. WellBlobs \subseteq PendingBlob
  BY DEF WellBlobs
<1>3. Complete(s) \in Seq(PendingBlob)
  BY <1>1, <1>2, SeqMonotonic
<1>4. fetched[r] \o Complete(s) \in Seq(PendingBlob)
  BY <1>3, ConcatProperties DEF ListsInv
<1>5. fetched' \in [Receivers -> Seq(PendingBlob)]
  BY <1>4 DEF ListsInv
<1>6. incoming' \in [Receivers -> Seq(WellBlobs)]
  BY <1>1 DEF ListsInv
<1> QED
  BY <1>5, <1>6

(* A fragment under way is one.                                            *)
LEMMA FragmentFacts ==
    ASSUME ListsInv, NEW m \in DOMAIN net, m.kind = "fragment"
    PROVE  m \in Fragment /\ m.node \in Receivers /\ m.blob \in Blobs /\ m.part \in Parts
<1>1. m \in Fragment
  BY DEF ListsInv, Resend
<1> QED
  BY <1>1 DEF Fragment

(* ... and by those of a receiver                                          *)
LEMMA IncomingLists ==
    ASSUME ListsInv, NEW m \in DOMAIN net, ProcessIncoming(m)
    PROVE  ListsInv'
<1>1. m.node \in Receivers /\ m.blob \in Blobs /\ m.part \in Parts
  BY FragmentFacts DEF ProcessIncoming
<1> DEFINE r == m.node
           now == AfterFragment(incoming[r], m.blob, m.part)
<1>2. now \in Seq(WellBlobs)
  <2>1. incoming[r] \in Seq(WellBlobs)
    BY <1>1 DEF ListsInv
  <2> QED
    BY <1>1, <2>1, AfterWell
<1>3. \/ /\ incoming' = [incoming EXCEPT ![r] = Incomplete(now)]
         /\ fetched' = [fetched EXCEPT ![r] = @ \o Complete(now)]
      \/ incoming' = [incoming EXCEPT ![r] = now] /\ fetched' = fetched
  BY DEF ProcessIncoming
<1> HIDE DEF now
<1>4. incoming' \in [Receivers -> Seq(WellBlobs)] /\ fetched' \in [Receivers -> Seq(PendingBlob)]
  <2>1. CASE /\ incoming' = [incoming EXCEPT ![r] = Incomplete(now)]
             /\ fetched' = [fetched EXCEPT ![r] = @ \o Complete(now)]
    BY <1>1, <1>2, <2>1, HandOverLists
  <2>2. CASE incoming' = [incoming EXCEPT ![r] = now] /\ fetched' = fetched
    BY <1>2, <2>2 DEF ListsInv
  <2> QED
    BY <1>3, <2>1, <2>2
<1>5. IsABag(net') /\ DOMAIN net' \subseteq DOMAIN net
  BY BagTake DEF ListsInv, ProcessIncoming
<1> QED
  BY <1>4, <1>5 DEF ListsInv, ProcessIncoming

(* (an expected blob)                                                      *)
LEMMA ExpectLists ==
    ASSUME ListsInv, NEW r \in Receivers, NEW k \in Kinds, Expect(r, k)
    PROVE  ListsInv'
<1>1. Append(incoming[r], Pending(k, 0, 0, <<>>, Nothing)) \in Seq(WellBlobs)
  BY ExpectedWell, AppendProperties DEF ListsInv
<1>2. incoming' \in [Receivers -> Seq(WellBlobs)]
  BY <1>1 DEF ListsInv, Expect
<1>3. expected' \in [Receivers -> SUBSET Kinds]
  BY DEF ListsInv, Expect
<1> QED
  BY <1>2, <1>3 DEF ListsInv, Expect

(* (complete blobs)                                                        *)
LEMMA HandleLists ==
    ASSUME ListsInv, NEW r \in Receivers, HandleComplete(r)
    PROVE  ListsInv'
<1>1. incoming[r] \in Seq(WellBlobs)
  BY DEF ListsInv
<1>2. /\ incoming' = [incoming EXCEPT ![r] = Incomplete(incoming[r])]
      /\ fetched' = [fetched EXCEPT ![r] = @ \o Complete(incoming[r])]
  BY DEF HandleComplete
<1>3. incoming' \in [Receivers -> Seq(WellBlobs)] /\ fetched' \in [Receivers -> Seq(PendingBlob)]
  BY <1>1, <1>2, HandOverLists
<1> QED
  BY <1>3 DEF ListsInv, HandleComplete

(* (requests)                                                              *)
LEMMA RequestLists ==
    ASSUME ListsInv, NEW r \in Receivers, RequestResend(r)
    PROVE  /\ ListsInv'
           /\ \E S : /\ IsABag(net') /\ net' = net (+) SetToBag(S)
                     /\ \A m \in S : m \in Resend /\ m.kind = "resend" /\ m.part[1] # 0
<1>1. PICK recent \in SUBSET {i \in DOMAIN incoming[r] : Asks(incoming[r][i])} :
          /\ net' = net (+) SetToBag({[kind |-> "resend", node |-> r,
                                       blob |-> incoming[r][i].id,
                                       part |-> ResendPart(incoming[r][i])] : i \in recent})
          /\ UNCHANGED <<outgoing, todo, incoming, expected, fetched, cancelled, lost, doubled>>
  BY DEF RequestResend
<1> DEFINE S == {[kind |-> "resend", node |-> r, blob |-> incoming[r][i].id,
                  part |-> ResendPart(incoming[r][i])] : i \in recent}
<1>2. ASSUME NEW i \in recent
      PROVE  /\ ResendPart(incoming[r][i]) \in Parts /\ ResendPart(incoming[r][i])[1] # 0
             /\ incoming[r][i].id \in Blobs
  <2>1. i \in DOMAIN incoming[r] /\ Asks(incoming[r][i]) /\ incoming[r] \in Seq(WellBlobs)
    BY DEF ListsInv
  <2>2. incoming[r][i] \in WellBlobs
    BY <2>1
  <2> QED
    BY <2>1, <2>2, ResendFacts
<1>3. \A m \in S : m \in Resend /\ m.kind = "resend" /\ m.part[1] # 0
  BY <1>2 DEF Resend
<1> HIDE DEF S
<1>4. net' = net (+) SetToBag(S)
  BY <1>1 DEF S
<1>5. IsABag(net') /\ DOMAIN net' = DOMAIN net \cup S
  BY <1>4, BagAdd DEF ListsInv
<1>6. ListsInv'
  BY <1>1, <1>3, <1>5 DEF ListsInv
<1> QED
  BY <1>3, <1>4, <1>5, <1>6

(* (a blob that is given up)                                               *)
LEMMA CancelLists ==
    ASSUME ListsInv, NEW r \in Receivers, NEW i \in DOMAIN incoming[r], Cancel(r, i)
    PROVE  ListsInv'
<1>1. incoming[r] \in Seq(WellBlobs)
  BY DEF ListsInv
<1>2. Only(incoming[r], DOMAIN incoming[r] \ {i}) \in Seq(WellBlobs)
  BY <1>1, OnlyPlaces
<1>3. incoming' \in [Receivers -> Seq(WellBlobs)]
  BY <1>2 DEF ListsInv, Cancel
<1>4. incoming[r][i].id \in 0..BlobCount
  BY <1>1 DEF WellBlobs, PendingBlob
<1>5. cancelled' \in [Receivers -> SUBSET (0..BlobCount)]
  BY <1>4 DEF ListsInv, Cancel
<1> QED
  BY <1>3, <1>5 DEF ListsInv, Cancel

(* (what the bus loses, ...                                                *)
LEMMA LoseLists ==
    ASSUME ListsInv, NEW m \in DOMAIN net, Lose(m)
    PROVE  ListsInv'
<1>1. IsABag(net') /\ DOMAIN net' \subseteq DOMAIN net
  BY BagTake DEF ListsInv, Lose
<1>2. lost' \in 0..MaxLost
  BY BlobAssumption DEF ListsInv, Lose
<1> QED
  BY <1>1, <1>2 DEF ListsInv, Lose

(* ... and what it delivers twice).                                        *)
LEMMA DuplicateLists ==
    ASSUME ListsInv, NEW m \in DOMAIN net, Duplicate(m)
    PROVE  ListsInv'
<1>1. IsABag(net') /\ DOMAIN net' = DOMAIN net \cup {m}
  BY BagAdd DEF ListsInv, Duplicate
<1>2. doubled' \subseteq Fragment \cup Resend
  BY DEF ListsInv, Duplicate
<1> QED
  BY <1>1, <1>2 DEF ListsInv, Duplicate

(* All steps keep it.                                                      *)
LEMMA ListsNext == ListsInv /\ [BlobNext]_blobVars => ListsInv'
<1> SUFFICES ASSUME ListsInv, [BlobNext]_blobVars PROVE ListsInv'
  OBVIOUS
<1>1. CASE UNCHANGED blobVars
  BY <1>1 DEF ListsInv, blobVars
<1>2. ASSUME NEW b \in Blobs, Post(b) \/ ExpireOutgoing(b) PROVE ListsInv'
  BY <1>2, PostLists, ExpireLists
<1>3. CASE ProcessOutgoing
  BY <1>3, OutgoingLists
<1>4. ASSUME NEW m \in BagToSet(net),
             ProcessResend(m) \/ ProcessIncoming(m) \/ Lose(m) \/ Duplicate(m)
      PROVE  ListsInv'
  <2>1. m \in DOMAIN net
    BY DEF BagToSet
  <2> QED
    BY <1>4, <2>1, ResendLists, IncomingLists, LoseLists, DuplicateLists
<1>5. ASSUME NEW r \in Receivers, \/ \E k \in Kinds : Expect(r, k)
                                  \/ HandleComplete(r)
                                  \/ RequestResend(r)
                                  \/ \E i \in DOMAIN incoming[r] : Cancel(r, i)
      PROVE  ListsInv'
  BY <1>5, ExpectLists, HandleLists, RequestLists, CancelLists
<1> QED
  BY <1>1, <1>2, <1>3, <1>4, <1>5 DEF BlobNext

(* All lists of blobs are in order, always.                                *)
LEMMA ListsCorrect == BlobSpec => []ListsInv
<1>1. BlobInit => ListsInv
  BY ListsInit
<1>2. ListsInv /\ [BlobNext]_blobVars => ListsInv'
  BY ListsNext
<1> QED
  BY <1>1, <1>2, PTL DEF BlobSpec

(* The parts that a receiver has are sorted, apart from each other and     *)
(* exactly those that it stored, in whatever order and however often the   *)
(* fragments come (BlobInv).                                               *)
THEOREM BlobCorrect == BlobSpec => []BlobInv
<1>1. ListsInv => BlobInv
  BY ListsEnough
<1> QED
  BY <1>1, ListsCorrect, PTL
-----------------------------------------------------------------------------
(* Blobs: what is fetched is one blob, if no two have the same message     *)
(* type and target_blob_id.                                                *)

KindsDiffer == \A a, b \in Blobs : Kind[a] = Kind[b] => a = b

(* Incoming blobs which have only their own data, ...                      *)
OwnBlobs == {p \in WellBlobs : /\ p.id # 0 => p.kind = Kind[p.id]
                               /\ \A o \in Offsets : p.data[o] \in {0, p.id}}

(* ... and those that have all of it.                                      *)
IntactBlobs == {p \in PendingBlob : p.id \in Blobs /\ \A o \in Offsets : p.data[o] = p.id}

IntactInv == /\ incoming \in [Receivers -> Seq(OwnBlobs)]
             /\ fetched \in [Receivers -> Seq(IntactBlobs)]

(* A list of such blobs is one of incoming blobs.                          *)
LEMMA OwnWell == OwnBlobs \subseteq WellBlobs /\ \A s \in Seq(OwnBlobs) : s \in Seq(WellBlobs)
<1>1. OwnBlobs \subseteq WellBlobs
  BY DEF OwnBlobs
<1>2. Seq(OwnBlobs) \subseteq Seq(WellBlobs)
  BY <1>1, SeqMonotonic
<1> QED
  BY <1>1, <1>2

(* A blob that a fragment goes to has this fragment's blob's data only.    *)
LEMMA TargetOwn ==
    ASSUME KindsDiffer, NEW b \in Blobs, NEW s \in Seq(OwnBlobs), NEW i \in DOMAIN s,
           s[i].id = b \/ (s[i].kind = Kind[b] /\ \A j \in DOMAIN s : s[j].id # b)
    PROVE  /\ s[i] \in OwnBlobs /\ s[i].kind = Kind[b]
           /\ s[i].id = b \/ (s[i].id = 0 /\ s[i].parts = <<>>)
<1> DEFINE p == s[i]
<1>1. p \in OwnBlobs
  OBVIOUS
<1> HIDE DEF p
<1>2. p.id \in 0..BlobCount /\ p.id # 0 => p.id \in Blobs
  BY OffsetFacts DEF Blobs
<1>3. p.id \in 0..BlobCount
  BY <1>1 DEF OwnBlobs, WellBlobs, PendingBlob
<1>4. CASE p.id = b
  BY <1>1, <1>4, OffsetFacts DEF OwnBlobs, p
<1>5. CASE p.id # b
  <2>1. p.kind = Kind[b]
    BY <1>5 DEF p
  <2>2. p.id = 0
    <3>1. ASSUME p.id # 0 PROVE FALSE
      <4>1. p.id \in Blobs /\ p.kind = Kind[p.id]
        BY <1>1, <1>2, <1>3, <3>1 DEF OwnBlobs
      <4> QED
        BY <1>5, <2>1, <4>1 DEF KindsDiffer
    <3> QED
      BY <3>1
  <2>3. p.parts = <<>>
    BY <1>1, <2>2 DEF OwnBlobs, WellBlobs
  <2> QED
    BY <1>1, <2>1, <2>2, <2>3 DEF p
<1> QED
  BY <1>4, <1>5

(* A blob that a fragment was added to has only its own data.              *)
LEMMA FragmentOwn ==
    ASSUME NEW p, Started(p), NEW b \in Blobs, NEW part \in Parts, p.kind = Kind[b],
           \A o \in Offsets : p.data[o] \in {0, b}
    PROVE  WithFragment(p, b, part) \in OwnBlobs
<1> DEFINE q == WithFragment(p, b, part)
<1>1. q \in WellBlobs /\ q.id = b /\ q.kind = Kind[b]
      /\ \A o \in Offsets : q.data[o] = b \/ q.data[o] = p.data[o]
  BY FragmentWell
<1> HIDE DEF q
<1>2. q \in OwnBlobs
  BY <1>1 DEF OwnBlobs
<1> QED
  BY <1>2 DEF q

(* The list of incoming blobs keeps such blobs.                            *)
LEMMA AfterOwn ==
    ASSUME KindsDiffer, NEW s \in Seq(OwnBlobs), NEW b \in Blobs, NEW part \in Parts
    PROVE  AfterFragment(s, b, part) \in Seq(OwnBlobs)
<1>1. ASSUME NEW i \in DOMAIN s,
             s[i].id = b \/ (s[i].kind = Kind[b] /\ \A j \in DOMAIN s : s[j].id # b),
             AfterFragment(s, b, part) = [s EXCEPT ![i] = WithFragment(s[i], b, part)]
      PROVE  AfterFragment(s, b, part) \in Seq(OwnBlobs)
  <2>1. /\ s[i] \in OwnBlobs /\ s[i].kind = Kind[b]
        /\ s[i].id = b \/ (s[i].id = 0 /\ s[i].parts = <<>>)
    BY <1>1, TargetOwn
  <2>2. Started(s[i])
    BY <2>1, OwnWell, MayStart
  <2>3. \A o \in Offsets : s[i].data[o] \in {0, b}
    BY <2>1 DEF OwnBlobs
  <2>4. WithFragment(s[i], b, part) \in OwnBlobs
    BY <2>1, <2>2, <2>3, FragmentOwn
  <2>5. Len(s) \in Nat /\ DOMAIN s = 1..Len(s)
    OBVIOUS
  <2> QED
    BY <1>1, <2>4, <2>5, ExceptSeq
<1>2. CASE AfterFragment(s, b, part) =
              Append(s, WithFragment(Pending(Kind[b], b, Size, <<>>, Nothing), b, part))
  <2> DEFINE p == Pending(Kind[b], b, Size, <<>>, Nothing)
  <2>1. p.kind = Kind[b] /\ p.data = Nothing /\ Started(p)
    BY MayStart, PendingFacts
  <2> HIDE DEF p
  <2>2. WithFragment(p, b, part) \in OwnBlobs
    BY <2>1, NothingFacts, FragmentOwn
  <2> QED
    BY <1>2, <2>2, AppendProperties DEF p
<1>3. s \in Seq(WellBlobs)
  BY OwnWell
<1> QED
  BY <1>1, <1>2, <1>3, AfterFacts

(* A complete blob starts at its first offset and has all its data.        *)
LEMMA CompleteIntact ==
    ASSUME NEW p \in OwnBlobs, ReceivedEverything(p)
    PROVE  p \in IntactBlobs /\ p.id \in Blobs /\ 1 \in DOMAIN p.parts /\ p.parts[1][1] = 0
<1>1. p \in PendingBlob /\ p.parts \in Seq(Parts) /\ p.parts # <<>> /\ p.total = Size
      /\ p.id # 0 /\ p.id \in 0..BlobCount
  BY DEF OwnBlobs, WellBlobs, PendingBlob, ReceivedEverything
<1>2. 1 \in DOMAIN p.parts /\ p.parts[1][1] = 0 /\ p.parts[1][2] >= Size
  BY <1>1 DEF ReceivedEverything
<1>3. p.parts[1] \in Parts
  BY <1>1, <1>2
<1>4. ASSUME NEW o \in Offsets PROVE p.data[o] = p.id
  <2>1. Covers(p.parts, o)
    BY <1>2, <1>3, OffsetFacts, SizeFacts, PartFacts DEF Covers
  <2>2. p.data[o] # 0
    BY <2>1 DEF OwnBlobs, WellBlobs, Exact
  <2> QED
    BY <2>2 DEF OwnBlobs
<1>5. p.id \in Blobs
  BY <1>1, OffsetFacts DEF Blobs
<1> QED
  BY <1>1, <1>2, <1>4, <1>5 DEF IntactBlobs

(* Giving complete blobs to the handlers.                                  *)
LEMMA HandOverIntact ==
    ASSUME IntactInv, NEW r \in Receivers, NEW s \in Seq(OwnBlobs),
           incoming' = [incoming EXCEPT ![r] = Incomplete(s)],
           fetched' = [fetched EXCEPT ![r] = @ \o Complete(s)]
    PROVE  IntactInv'
<1>1. Complete(s) \in Seq(OwnBlobs) /\ Incomplete(s) \in Seq(OwnBlobs)
  BY CompleteFacts
<1>2. Complete(s) \in Seq(IntactBlobs)
  <2> DEFINE c == Complete(s)
  <2>1. c \in Seq(OwnBlobs)
    BY <1>1
  <2>2. PICK f \in [DOMAIN c -> DOMAIN s] :
            \A i \in DOMAIN c : c[i] = s[f[i]] /\ ReceivedEverything(s[f[i]])
    BY CompleteFacts
  <2> HIDE DEF c
  <2>3. ASSUME NEW i \in DOMAIN c PROVE c[i] \in IntactBlobs
    <3>1. c[i] \in OwnBlobs /\ ReceivedEverything(c[i])
      BY <2>1, <2>2
    <3> QED
      BY <3>1, CompleteIntact
  <2>4. Len(c) \in Nat /\ DOMAIN c = 1..Len(c) /\ c = [i \in 1..Len(c) |-> c[i]]
    BY <2>1
  <2>5. c \in Seq(IntactBlobs)
    BY <2>3, <2>4, IsASeq
  <2> QED
    BY <2>5 DEF c
<1>3. fetched[r] \o Complete(s) \in Seq(IntactBlobs)
  BY <1>2, ConcatProperties DEF IntactInv
<1> QED
  BY <1>1, <1>3 DEF IntactInv

(* The invariant holds initially ...                                       *)
LEMMA IntactInit == BlobInit => IntactInv
<1>1. <<>> \in Seq(OwnBlobs) /\ <<>> \in Seq(IntactBlobs)
  OBVIOUS
<1> QED
  BY <1>1 DEF BlobInit, IntactInv

(* ... and all steps keep it.                                              *)
LEMMA IntactNext ==
    ASSUME KindsDiffer, ListsInv, IntactInv, [BlobNext]_blobVars
    PROVE  IntactInv'
<1>1. CASE UNCHANGED <<incoming, fetched>>
  BY <1>1 DEF IntactInv
<1>2. ASSUME NEW m \in DOMAIN net, ProcessIncoming(m) PROVE IntactInv'
  <2>1. m.node \in Receivers /\ m.blob \in Blobs /\ m.part \in Parts
    BY <1>2, FragmentFacts DEF ProcessIncoming
  <2> DEFINE r == m.node
             now == AfterFragment(incoming[r], m.blob, m.part)
  <2>2. now \in Seq(OwnBlobs)
    BY <2>1, AfterOwn DEF IntactInv
  <2>3. \/ /\ incoming' = [incoming EXCEPT ![r] = Incomplete(now)]
           /\ fetched' = [fetched EXCEPT ![r] = @ \o Complete(now)]
        \/ incoming' = [incoming EXCEPT ![r] = now] /\ fetched' = fetched
    BY <1>2 DEF ProcessIncoming
  <2> HIDE DEF now
  <2>4. CASE /\ incoming' = [incoming EXCEPT ![r] = Incomplete(now)]
             /\ fetched' = [fetched EXCEPT ![r] = @ \o Complete(now)]
    BY <2>1, <2>2, <2>4, HandOverIntact
  <2>5. CASE incoming' = [incoming EXCEPT ![r] = now] /\ fetched' = fetched
    BY <2>2, <2>5 DEF IntactInv
  <2> QED
    BY <2>3, <2>4, <2>5
<1>3. ASSUME NEW r \in Receivers, NEW k \in Kinds, Expect(r, k) PROVE IntactInv'
  <2> DEFINE p == Pending(k, 0, 0, <<>>, Nothing)
  <2>1. p \in WellBlobs /\ p.id = 0 /\ p.data = Nothing
    BY ExpectedWell, PendingFacts
  <2> HIDE DEF p
  <2>2. p \in OwnBlobs
    BY <2>1, NothingFacts DEF OwnBlobs
  <2>3. Append(incoming[r], p) \in Seq(OwnBlobs)
    BY <2>2, AppendProperties DEF IntactInv
  <2>4. incoming' = [incoming EXCEPT ![r] = Append(@, p)] /\ fetched' = fetched
    BY <1>3 DEF Expect, p
  <2> QED
    BY <2>3, <2>4 DEF IntactInv
<1>4. ASSUME NEW r \in Receivers, HandleComplete(r) PROVE IntactInv'
  <2>1. incoming[r] \in Seq(OwnBlobs)
    BY DEF IntactInv
  <2>2. /\ incoming' = [incoming EXCEPT ![r] = Incomplete(incoming[r])]
        /\ fetched' = [fetched EXCEPT ![r] = @ \o Complete(incoming[r])]
    BY <1>4 DEF HandleComplete
  <2> QED
    BY <2>1, <2>2, HandOverIntact
<1>5. ASSUME NEW r \in Receivers, NEW i \in DOMAIN incoming[r], Cancel(r, i) PROVE IntactInv'
  <2>1. incoming[r] \in Seq(OwnBlobs)
    BY DEF IntactInv
  <2>2. Only(incoming[r], DOMAIN incoming[r] \ {i}) \in Seq(OwnBlobs)
    BY <2>1, OnlyPlaces
  <2> QED
    BY <1>5, <2>2 DEF IntactInv, Cancel
<1>6. \/ UNCHANGED <<incoming, fetched>>
      \/ \E m \in DOMAIN net : ProcessIncoming(m)
      \/ \E r \in Receivers : \/ \E k \in Kinds : Expect(r, k)
                              \/ HandleComplete(r)
                              \/ \E i \in DOMAIN incoming[r] : Cancel(r, i)
  <2>1. ASSUME NEW b \in Blobs, Post(b) \/ ExpireOutgoing(b)
        PROVE  UNCHANGED <<incoming, fetched>>
    BY <2>1 DEF Post, ExpireOutgoing
  <2>2. ASSUME ProcessOutgoing PROVE UNCHANGED <<incoming, fetched>>
    BY <2>2 DEF ProcessOutgoing
  <2>3. ASSUME NEW m, ProcessResend(m) \/ Lose(m) \/ Duplicate(m)
        PROVE  UNCHANGED <<incoming, fetched>>
    BY <2>3 DEF ProcessResend, Lose, Duplicate
  <2>4. ASSUME NEW r \in Receivers, RequestResend(r) PROVE UNCHANGED <<incoming, fetched>>
    BY <2>4 DEF RequestResend
  <2>5. ASSUME UNCHANGED blobVars PROVE UNCHANGED <<incoming, fetched>>
    BY <2>5 DEF blobVars
  <2> QED
    BY <2>1, <2>2, <2>3, <2>4, <2>5, Zenon DEF BlobNext, BagToSet
<1> QED
  BY <1>1, <1>2, <1>3, <1>4, <1>5, <1>6

(* It holds always, ...                                                    *)
LEMMA IntactCorrect ==
    ASSUME KindsDiffer
    PROVE  BlobSpec => []IntactInv
<1>1. BlobInit => IntactInv
  BY IntactInit
<1>2. ListsInv /\ IntactInv /\ [BlobNext]_blobVars => IntactInv'
  BY IntactNext
<1> QED
  BY ListsCorrect, <1>1, <1>2, PTL DEF BlobSpec

(* ... so that a blob which a receiver gets is one that was posted, from   *)
(* its first to its last byte (FetchedIntact), if no two blobs have the    *)
(* same message type and target_blob_id.                                   *)
THEOREM BlobsIntact ==
    ASSUME KindsDiffer
    PROVE  BlobSpec => []FetchedIntact
<1>1. IntactInv => FetchedIntact
  <2> SUFFICES ASSUME IntactInv, NEW r \in Receivers, NEW i \in DOMAIN fetched[r],
                      NEW o \in Offsets
               PROVE  fetched[r][i].data[o] = fetched[r][i].id
    BY DEF FetchedIntact
  <2>1. fetched[r] \in Seq(IntactBlobs)
    BY DEF IntactInv
  <2>2. fetched[r][i] \in IntactBlobs
    BY <2>1
  <2> QED
    BY <2>2 DEF IntactBlobs
<1> QED
  BY <1>1, IntactCorrect, PTL
-----------------------------------------------------------------------------
(* Blobs: each whose first fragment is not delivered twice is fetched      *)
(* once, if no two have the same message type and target_blob_id.  A       *)
(* sender sends the first fragment of a blob once, as what a receiver asks *)
(* for again never starts at offset 0, and without this fragment a blob is *)
(* not complete.                                                           *)

Starts(s) == \E k \in DOMAIN s : s[k][1] = 0

(* The first fragment of a blob is no longer to be sent.                   *)
Sent(b) == outgoing[b] # "new" /\ ~Starts(todo[b])

FirstPart == <<0, IF Frag <= Size THEN Frag ELSE Size>>

(* A receiver has the first fragment of a blob, in its incoming blobs s or *)
(* in the blobs f that it fetched; ...                                     *)
Begun(p) == Starts(p.parts)
Has(s, f, b) == \/ \E i \in DOMAIN s : Begun(s[i]) /\ s[i].id = b
                \/ \E i \in DOMAIN f : f[i].id = b

(* ... it has it in one of them, if it is not of the blobs X.              *)
OneEach(s, f, X) ==
    /\ \A i, j \in DOMAIN s :
          Begun(s[i]) /\ Begun(s[j]) /\ s[i].id = s[j].id => i = j \/ s[i].id \in X
    /\ \A i, j \in DOMAIN f : f[i].id = f[j].id => i = j \/ f[i].id \in X
    /\ \A i \in DOMAIN s, j \in DOMAIN f :
          Begun(s[i]) /\ s[i].id = f[j].id => s[i].id \in X

(* No first fragment of a blob is under way, or it was delivered twice.    *)
Settled(r, b) == \/ b \in BegunTwice(r)
                 \/ \A m \in DOMAIN net : ~(m.part[1] = 0 /\ m.node = r /\ m.blob = b)

(* The first fragment is in one place, if it is not delivered twice: it is *)
(* to be sent, under way or with the receiver.                             *)
NewInv == \A b \in Blobs : outgoing[b] = "new" => todo[b] = <<>>
NetInv == \A m \in DOMAIN net :
             m.part[1] = 0 => /\ m.kind = "fragment" /\ m.part = FirstPart
                              /\ net[m] = 1 \/ m \in doubled
                              /\ Sent(m.blob)
HasInv == \A r \in Receivers :
             /\ OneEach(incoming[r], fetched[r], BegunTwice(r))
             /\ \A b \in Blobs : Has(incoming[r], fetched[r], b) => Sent(b) /\ Settled(r, b)
OnceInv == NewInv /\ NetInv /\ HasInv

(* What is sent first is the first part, and its blob does not start with  *)
(* offset 0 afterwards.                                                    *)
LEMMA FirstSent ==
    ASSUME NEW b \in Blobs, todo[b] \in SortedParts, ~SentEverything(b)
    PROVE  /\ Starts(TodoAfter(b)) => Starts(todo[b])
           /\ NextPart(b)[1] = 0 => /\ NextPart(b) = FirstPart
                                    /\ Starts(todo[b]) /\ ~Starts(TodoAfter(b))
<1> DEFINE s == todo[b]
           n == Len(s)
           q == NextPart(b)
           t == TodoAfter(b)
<1>1. /\ s # <<>> /\ s \in Seq(Parts) /\ q \in Parts /\ q[1] = Last(s)[1]
      /\ \A k \in DOMAIN t : t[k][1] = q[2] \/ (k \in DOMAIN s /\ k < n /\ t[k] = s[k])
      /\ \A i, j \in DOMAIN s : i < j => s[i][2] < s[j][1]
  BY TodoFacts DEF SortedParts, Sorted
<1>2. n \in DOMAIN s /\ n \in Nat /\ q[1] = s[n][1] /\ DOMAIN s = 1..n
  BY <1>1 DEF Last
<1>3. q[2] # 0
  BY <1>1, PartFacts, SizeFacts
<1>4. q[1] = 0 => q = FirstPart
  BY SizeFacts DEF NextPart, FirstPart
<1> HIDE DEF s, t, q
<1>5. Starts(t) => Starts(s)
  BY <1>1, <1>3 DEF Starts
<1>6. ASSUME q[1] = 0 PROVE ~Starts(t)
  <2> SUFFICES ASSUME NEW k \in DOMAIN t, t[k][1] = 0 PROVE FALSE
    BY DEF Starts
  <2>1. k \in DOMAIN s /\ k < n
    BY <1>1, <1>3
  <2>2. s[k] \in Parts
    BY <1>1, <2>1
  <2>3. s[k][2] < s[n][1]
    BY <1>1, <1>2, <2>1
  <2> QED
    BY <1>2, <1>6, <2>2, <2>3, PartFacts, SizeFacts
<1>7. q[1] = 0 => Starts(s)
  BY <1>2 DEF Starts
<1> QED
  BY <1>4, <1>5, <1>6, <1>7 DEF s, t, q

(* A blob that takes a fragment has its first offset if it had it or the   *)
(* fragment has it.                                                        *)
LEMMA BegunFragment ==
    ASSUME NEW p, Started(p), NEW b \in Blobs, NEW part \in Parts,
           Begun(WithFragment(p, b, part))
    PROVE  part[1] = 0 \/ Begun(p)
<1> DEFINE q == WithFragment(p, b, part)
<1>1. \A k \in DOMAIN q.parts : \/ q.parts[k][1] = part[1]
                                \/ \E i \in DOMAIN p.parts : q.parts[k][1] = p.parts[i][1]
  BY FragmentWell
<1> HIDE DEF q
<1>2. Begun(q)
  BY DEF q
<1> QED
  BY <1>1, <1>2 DEF Begun, Starts

(* The first fragment of a blob begins it, no other does.                  *)
LEMMA AfterOnce ==
    ASSUME KindsDiffer, NEW s \in Seq(OwnBlobs), NEW f, NEW X, OneEach(s, f, X),
           NEW b \in Blobs, NEW part \in Parts,
           part[1] = 0 => b \in X \/ ~Has(s, f, b)
    PROVE  LET t == AfterFragment(s, b, part)
           IN  /\ OneEach(t, f, X)
               /\ \A c : Has(t, f, c) => Has(s, f, c) \/ (c = b /\ part[1] = 0)
<1> DEFINE t == AfterFragment(s, b, part)
<1>1. PICK k, q :
          /\ k \in Nat /\ DOMAIN t = DOMAIN s \cup {k} /\ t[k] = q /\ q.id = b
          /\ \A i \in DOMAIN s \ {k} : t[i] = s[i]
          /\ Begun(q) => part[1] = 0 \/ (k \in DOMAIN s /\ Begun(s[k]) /\ s[k].id = b)
  <2>1. ASSUME NEW i \in DOMAIN s,
               s[i].id = b \/ (s[i].kind = Kind[b] /\ \A j \in DOMAIN s : s[j].id # b),
               t = [s EXCEPT ![i] = WithFragment(s[i], b, part)]
        PROVE  \E k, q :
                  /\ k \in Nat /\ DOMAIN t = DOMAIN s \cup {k} /\ t[k] = q /\ q.id = b
                  /\ \A j \in DOMAIN s \ {k} : t[j] = s[j]
                  /\ Begun(q) => part[1] = 0 \/ (k \in DOMAIN s /\ Begun(s[k]) /\ s[k].id = b)
    <3> DEFINE q == WithFragment(s[i], b, part)
    <3>1. s[i] \in OwnBlobs /\ (s[i].id = b \/ s[i].parts = <<>>)
      BY <2>1, TargetOwn
    <3>2. Started(s[i])
      BY <3>1, OwnWell, MayStart
    <3>3. Begun(q) => part[1] = 0 \/ Begun(s[i])
      BY <3>2, BegunFragment
    <3>4. Begun(s[i]) => s[i].id = b
      BY <3>1 DEF Begun, Starts
    <3>5. q.id = b
      BY <3>2, FragmentWell
    <3> HIDE DEF t
    <3>6. t = [s EXCEPT ![i] = q]
      BY <2>1
    <3> HIDE DEF q
    <3>7. i \in Nat /\ DOMAIN t = DOMAIN s /\ t[i] = q /\ \A j \in DOMAIN s \ {i} : t[j] = s[j]
      BY <3>6
    <3> QED
      BY <3>3, <3>4, <3>5, <3>7
  <2>2. CASE t = Append(s, WithFragment(Pending(Kind[b], b, Size, <<>>, Nothing), b, part))
    <3> DEFINE p == Pending(Kind[b], b, Size, <<>>, Nothing)
    <3>1. Started(p) /\ p.parts = <<>>
      BY MayStart, PendingFacts
    <3> HIDE DEF p
    <3> DEFINE q == WithFragment(p, b, part)
    <3>2. Begun(q) => part[1] = 0
      BY <3>1, BegunFragment DEF Begun, Starts
    <3>3. q.id = b
      BY <3>1, FragmentWell
    <3> HIDE DEF q, t
    <3>4. t = Append(s, q)
      BY <2>2 DEF p, q
    <3>5. Len(s) \in Nat /\ DOMAIN s = 1..Len(s)
      OBVIOUS
    <3>6. DOMAIN t = 1..(Len(s) + 1) /\ t[Len(s) + 1] = q /\ \A j \in 1..Len(s) : t[j] = s[j]
      BY <3>4, <3>5, AppendProperties
    <3> QED
      BY <3>2, <3>3, <3>5, <3>6
  <2>3. s \in Seq(WellBlobs)
    BY OwnWell
  <2> QED
    BY <2>1, <2>2, <2>3, AfterFacts
<1> HIDE DEF t
<1>2. \A c : Has(t, f, c) => Has(s, f, c) \/ (c = b /\ part[1] = 0)
  BY <1>1 DEF Has
<1>3. ASSUME NEW i \in DOMAIN t, NEW j \in DOMAIN t, Begun(t[i]), Begun(t[j]),
             t[i].id = t[j].id, i # j, t[i].id \notin X
      PROVE  FALSE
  <2>1. ASSUME NEW x \in DOMAIN t, x # k, Begun(t[k]), Begun(t[x]), t[x].id = b, b \notin X
        PROVE  FALSE
    <3>1. x \in DOMAIN s /\ t[x] = s[x]
      BY <1>1, <2>1
    <3>2. Has(s, f, b)
      BY <2>1, <3>1 DEF Has
    <3>3. k \in DOMAIN s /\ Begun(s[k]) /\ s[k].id = b
      BY <1>1, <2>1, <3>2
    <3> QED
      BY <2>1, <3>1, <3>3 DEF OneEach
  <2>2. i # k /\ j # k
    BY <1>1, <1>3, <2>1
  <2> QED
    BY <1>1, <1>3, <2>2 DEF OneEach
<1>4. ASSUME NEW i \in DOMAIN t, NEW j \in DOMAIN f, Begun(t[i]), t[i].id = f[j].id,
             t[i].id \notin X
      PROVE  FALSE
  <2>1. CASE i = k
    <3>1. f[j].id = b /\ Has(s, f, b)
      BY <1>1, <1>4, <2>1 DEF Has
    <3>2. k \in DOMAIN s /\ Begun(s[k]) /\ s[k].id = b
      BY <1>1, <1>4, <2>1, <3>1
    <3>3. b \notin X
      BY <1>1, <1>4, <2>1
    <3> QED
      BY <3>1, <3>2, <3>3 DEF OneEach
  <2>2. CASE i # k
    BY <1>1, <1>4, <2>2 DEF OneEach
  <2> QED
    BY <2>1, <2>2
<1>5. OneEach(t, f, X)
  BY <1>3, <1>4 DEF OneEach
<1> QED
  BY <1>2, <1>5 DEF t

(* Complete blobs are moved, from the incoming to the fetched ones.        *)
LEMMA HandOverOnce ==
    ASSUME NEW s \in Seq(OwnBlobs), NEW f \in Seq(IntactBlobs), NEW X, OneEach(s, f, X)
    PROVE  /\ OneEach(Incomplete(s), f \o Complete(s), X)
           /\ \A c : Has(Incomplete(s), f \o Complete(s), c) => Has(s, f, c)
<1> DEFINE I == Incomplete(s)
           D == Complete(s)
           F == f \o D
<1>1. PICK g \in [DOMAIN D -> DOMAIN s] :
          /\ \A i, j \in DOMAIN D : g[i] = g[j] => i = j
          /\ \A i \in DOMAIN D : D[i] = s[g[i]] /\ ReceivedEverything(s[g[i]])
  BY CompleteFacts
<1>2. PICK h \in [DOMAIN I -> DOMAIN s] :
          /\ \A i, j \in DOMAIN I : h[i] = h[j] => i = j
          /\ \A i \in DOMAIN I : I[i] = s[h[i]] /\ ~ReceivedEverything(s[h[i]])
  BY CompleteFacts
<1>3. D \in Seq(OwnBlobs)
  BY CompleteFacts
<1> HIDE DEF I, D
<1>4. ASSUME NEW i \in DOMAIN D PROVE g[i] \in DOMAIN s /\ Begun(s[g[i]])
  <2>1. g[i] \in DOMAIN s /\ s[g[i]] \in OwnBlobs /\ ReceivedEverything(s[g[i]])
    BY <1>1
  <2>2. 1 \in DOMAIN s[g[i]].parts /\ s[g[i]].parts[1][1] = 0
    BY <2>1, CompleteIntact
  <2> QED
    BY <2>1, <2>2 DEF Begun, Starts
<1>5. /\ DOMAIN F = 1..(Len(f) + Len(D)) /\ DOMAIN f = 1..Len(f) /\ DOMAIN D = 1..Len(D)
      /\ \A k \in 1..Len(f) : F[k] = f[k]
      /\ \A k \in (Len(f) + 1)..(Len(f) + Len(D)) : F[k] = D[k - Len(f)]
      /\ Len(f) \in Nat /\ Len(D) \in Nat
  BY <1>3
<1> HIDE DEF F
<1>6. ASSUME NEW k \in DOMAIN F
      PROVE  \/ k \in DOMAIN f /\ F[k] = f[k]
             \/ k \notin DOMAIN f /\ k - Len(f) \in DOMAIN D /\ F[k] = D[k - Len(f)]
  BY <1>5
<1>7. \A i, j \in DOMAIN I :
         Begun(I[i]) /\ Begun(I[j]) /\ I[i].id = I[j].id => i = j \/ I[i].id \in X
  BY <1>2 DEF OneEach
<1>8. ASSUME NEW i \in DOMAIN D, NEW j \in DOMAIN f, D[i].id = f[j].id PROVE D[i].id \in X
  BY <1>1, <1>4, <1>8 DEF OneEach
<1>9. ASSUME NEW i \in DOMAIN D, NEW j \in DOMAIN D, D[i].id = D[j].id
      PROVE  i = j \/ D[i].id \in X
  BY <1>1, <1>4, <1>9 DEF OneEach
<1>10. ASSUME NEW i \in DOMAIN F, NEW j \in DOMAIN F, F[i].id = F[j].id, F[i].id \notin X
       PROVE  i = j
  <2>1. CASE i \in DOMAIN f /\ j \in DOMAIN f
    BY <1>6, <1>10, <2>1 DEF OneEach
  <2>2. CASE i \in DOMAIN f /\ j \notin DOMAIN f
    BY <1>6, <1>8, <1>10, <2>2
  <2>3. CASE i \notin DOMAIN f /\ j \in DOMAIN f
    BY <1>6, <1>8, <1>10, <2>3
  <2>4. CASE i \notin DOMAIN f /\ j \notin DOMAIN f
    <3>1. i - Len(f) = j - Len(f)
      BY <1>6, <1>9, <1>10, <2>4
    <3> QED
      BY <1>5, <3>1
  <2> QED
    BY <2>1, <2>2, <2>3, <2>4
<1>11. ASSUME NEW i \in DOMAIN I, NEW j \in DOMAIN F, Begun(I[i]), I[i].id = F[j].id,
              I[i].id \notin X
       PROVE  FALSE
  <2>1. h[i] \in DOMAIN s /\ I[i] = s[h[i]] /\ ~ReceivedEverything(s[h[i]])
    BY <1>2
  <2>2. CASE j \in DOMAIN f
    BY <1>6, <1>11, <2>1, <2>2 DEF OneEach
  <2>3. CASE j \notin DOMAIN f
    <3>1. j - Len(f) \in DOMAIN D /\ F[j] = D[j - Len(f)]
      BY <1>6, <2>3
    <3>2. h[i] = g[j - Len(f)]
      BY <1>1, <1>4, <1>11, <2>1, <3>1 DEF OneEach
    <3> QED
      BY <1>1, <2>1, <3>1, <3>2
  <2> QED
    BY <2>2, <2>3
<1>12. OneEach(I, F, X)
  BY <1>7, <1>10, <1>11 DEF OneEach
<1>13. ASSUME NEW c, Has(I, F, c) PROVE Has(s, f, c)
  <2>1. CASE \E i \in DOMAIN I : Begun(I[i]) /\ I[i].id = c
    BY <1>2, <2>1 DEF Has
  <2>2. CASE \E i \in DOMAIN F : F[i].id = c
    BY <1>1, <1>4, <1>6, <2>2 DEF Has
  <2> QED
    BY <1>13, <2>1, <2>2 DEF Has
<1> QED
  BY <1>12, <1>13 DEF I, F, D


(* The invariant holds initially, ...                                      *)
LEMMA OnceInit == BlobInit => OnceInv
<1> SUFFICES ASSUME BlobInit PROVE OnceInv
  OBVIOUS
<1>1. DOMAIN net = {}
  BY DEF BlobInit, EmptyBag, SetToBag
<1>2. NewInv /\ NetInv
  BY <1>1 DEF BlobInit, NewInv, NetInv
<1>3. \A r \in Receivers : incoming[r] = <<>> /\ fetched[r] = <<>>
  BY DEF BlobInit
<1>4. (\A X : OneEach(<<>>, <<>>, X)) /\ \A b : ~Has(<<>>, <<>>, b)
  BY DEF OneEach, Has
<1>5. HasInv
  BY <1>3, <1>4 DEF HasInv
<1> QED
  BY <1>2, <1>5 DEF OnceInv

(* ... and is kept by what takes messages from those under way, without    *)
(* adding to a sender's parts one that starts with offset 0; ...           *)
LEMMA KeepOnce ==
    ASSUME OnceInv, NewInv', IsABag(net'),
           \A m \in DOMAIN net' : m.part[1] = 0 => m \in DOMAIN net /\ net'[m] <= net[m],
           DOMAIN net \subseteq Fragment \cup Resend,
           \A b \in Blobs : Sent(b) => Sent(b)',
           UNCHANGED <<incoming, fetched, doubled>>
    PROVE  OnceInv'
<1>1. NetInv'
  <2> SUFFICES ASSUME NEW m \in DOMAIN net', m.part[1] = 0
               PROVE  /\ m.kind = "fragment" /\ m.part = FirstPart
                      /\ net'[m] = 1 \/ m \in doubled'
                      /\ Sent(m.blob)'
    BY DEF NetInv
  <2>1. m \in DOMAIN net /\ net'[m] <= net[m]
    OBVIOUS
  <2>2. /\ m.kind = "fragment" /\ m.part = FirstPart
        /\ net[m] = 1 \/ m \in doubled
        /\ Sent(m.blob)
    BY <2>1 DEF OnceInv, NetInv
  <2>3. m.blob \in Blobs
    BY <2>1 DEF Fragment, Resend
  <2>4. net'[m] = 1 \/ m \in doubled'
    BY <2>1, <2>2 DEF IsABag
  <2> QED
    BY <2>2, <2>3, <2>4
<1>2. HasInv'
  <2>1. \A r : BegunTwice(r)' = BegunTwice(r)
    BY DEF BegunTwice
  <2>2. \A r, b : Settled(r, b) => Settled(r, b)'
    BY <2>1 DEF Settled
  <2> QED
    BY <2>1, <2>2 DEF HasInv, OnceInv
<1> QED
  BY <1>1, <1>2 DEF OnceInv

(* ... by what changes the blobs of a receiver, ...                        *)
LEMMA ReceiverOnce ==
    ASSUME OnceInv, NEW r \in Receivers,
           \A q \in Receivers \ {r} : incoming'[q] = incoming[q] /\ fetched'[q] = fetched[q],
           UNCHANGED <<outgoing, todo, doubled>>,
           OneEach(incoming'[r], fetched'[r], BegunTwice(r)),
           IsABag(net'),
           DOMAIN net' \subseteq DOMAIN net,
           \A m \in DOMAIN net' : net'[m] <= net[m],
           \A b \in Blobs : Has(incoming'[r], fetched'[r], b) => Sent(b) /\ Settled(r, b)'
    PROVE  OnceInv'
<1>1. NewInv'
  BY DEF OnceInv, NewInv
<1>2. \A b : Sent(b)' <=> Sent(b)
  BY DEF Sent
<1>3. NetInv'
  <2> SUFFICES ASSUME NEW m \in DOMAIN net', m.part[1] = 0
               PROVE  /\ m.kind = "fragment" /\ m.part = FirstPart
                      /\ net'[m] = 1 \/ m \in doubled'
                      /\ Sent(m.blob)'
    BY DEF NetInv
  <2>1. /\ m.kind = "fragment" /\ m.part = FirstPart
        /\ net[m] = 1 \/ m \in doubled
        /\ Sent(m.blob)
    BY DEF OnceInv, NetInv
  <2>2. net'[m] = 1 \/ m \in doubled'
    BY <2>1 DEF IsABag
  <2> QED
    BY <1>2, <2>1, <2>2
<1>4. ASSUME NEW q \in Receivers
      PROVE  /\ OneEach(incoming'[q], fetched'[q], BegunTwice(q)')
             /\ \A b \in Blobs : Has(incoming'[q], fetched'[q], b) => Sent(b) /\ Settled(q, b)'
  <2>0. /\ BegunTwice(q)' = BegunTwice(q)
        /\ \A b : Settled(q, b) => Settled(q, b)'
    BY DEF BegunTwice, Settled
  <2>1. CASE q = r
    BY <2>0, <2>1
  <2>2. CASE q # r
    <3>1. incoming'[q] = incoming[q] /\ fetched'[q] = fetched[q]
      BY <2>2
    <3> QED
      BY <2>0, <3>1 DEF OnceInv, HasInv
  <2> QED
    BY <2>1, <2>2
<1>5. HasInv'
  BY <1>2, <1>4 DEF HasInv
<1> QED
  BY <1>1, <1>3, <1>5 DEF OnceInv

(* ... by the steps of the sender                                          *)
LEMMA PostOnce ==
    ASSUME ListsInv, OnceInv, NEW b \in Blobs, Post(b) \/ ExpireOutgoing(b)
    PROVE  OnceInv'
<1>1. UNCHANGED <<net, incoming, fetched, doubled>>
  BY DEF Post, ExpireOutgoing
<1>2. NewInv' /\ \A c \in Blobs : Sent(c) => Sent(c)'
  <2>1. CASE Post(b)
    BY <2>1 DEF Post, OnceInv, NewInv, Sent, ListsInv
  <2>2. CASE ExpireOutgoing(b)
    BY <2>2 DEF ExpireOutgoing, OnceInv, NewInv, Sent, ListsInv, Starts
  <2> QED
    BY <2>1, <2>2
<1>3. /\ IsABag(net) /\ DOMAIN net \subseteq Fragment \cup Resend
      /\ \A m \in DOMAIN net : net[m] <= net[m]
  BY DEF ListsInv, IsABag
<1> QED
  BY <1>1, <1>2, <1>3, KeepOnce

(* (a fragment of each blob: if it is the first, it was not under way)     *)
LEMMA OutgoingOnce ==
    ASSUME ListsInv, OnceInv, ProcessOutgoing
    PROVE  OnceInv'
<1> DEFINE busy == {b \in Blobs : ~SentEverything(b)}
           S == {[kind |-> "fragment", node |-> r, blob |-> b, part |-> NextPart(b)] :
                    r \in Receivers, b \in busy}
<1>1. /\ todo' = [b \in Blobs |-> IF b \in busy THEN TodoAfter(b) ELSE todo[b]]
      /\ net' = net (+) SetToBag(S)
      /\ UNCHANGED <<outgoing, incoming, expected, fetched, cancelled, lost, doubled>>
  BY DEF ProcessOutgoing
<1>2. ASSUME NEW b \in busy
      PROVE  /\ b \in Blobs /\ todo[b] # <<>>
             /\ Starts(TodoAfter(b)) => Starts(todo[b])
             /\ NextPart(b)[1] = 0 => /\ NextPart(b) = FirstPart
                                      /\ Starts(todo[b]) /\ ~Starts(TodoAfter(b))
  <2>1. b \in Blobs /\ ~SentEverything(b) /\ todo[b] \in SortedParts
    BY DEF ListsInv
  <2> QED
    BY <2>1, FirstSent, TodoFacts
<1> HIDE DEF busy
<1>3. \A m \in S : /\ m.kind = "fragment" /\ m.blob \in busy /\ m.part = NextPart(m.blob)
                   /\ m.node \in Receivers
  OBVIOUS
<1> HIDE DEF S
<1>4. /\ DOMAIN net' = DOMAIN net \cup S
      /\ \A m \in DOMAIN net \ S : net'[m] = net[m]
      /\ \A m \in S \ DOMAIN net : net'[m] = 1
  <2>1. IsABag(net)
    BY DEF ListsInv
  <2> DEFINE N == net (+) SetToBag(S)
  <2>2. /\ DOMAIN N = DOMAIN net \cup S
        /\ \A m \in DOMAIN net \ S : N[m] = net[m]
        /\ \A m \in S \ DOMAIN net : N[m] = 1
    BY <2>1, BagAdd
  <2> HIDE DEF N
  <2>3. net' = N
    BY <1>1 DEF N
  <2> QED
    BY <2>2, <2>3
<1>5. \A b \in Blobs : Sent(b) => Sent(b)'
  BY <1>1, <1>2 DEF Sent
<1>6. NewInv'
  BY <1>1, <1>2 DEF NewInv, OnceInv
<1>7. ASSUME NEW m \in S, m.part[1] = 0
      PROVE  /\ m \notin DOMAIN net /\ m.kind = "fragment" /\ m.part = FirstPart
             /\ Sent(m.blob)' /\ ~Sent(m.blob) /\ m.blob \in Blobs
  <2>1. /\ m.blob \in Blobs /\ m.part = FirstPart /\ todo[m.blob] # <<>>
        /\ Starts(todo[m.blob]) /\ ~Starts(TodoAfter(m.blob))
    BY <1>2, <1>3, <1>7
  <2>2. ~Sent(m.blob)
    BY <2>1 DEF Sent
  <2>3. m \notin DOMAIN net
    BY <1>7, <2>2 DEF OnceInv, NetInv
  <2>4. outgoing'[m.blob] # "new"
    BY <1>1, <2>1 DEF OnceInv, NewInv
  <2>5. todo'[m.blob] = TodoAfter(m.blob)
    BY <1>1, <1>3, <2>1
  <2> QED
    BY <1>3, <2>1, <2>2, <2>3, <2>4, <2>5 DEF Sent
<1>8. NetInv'
  <2> SUFFICES ASSUME NEW m \in DOMAIN net', m.part[1] = 0
               PROVE  /\ m.kind = "fragment" /\ m.part = FirstPart
                      /\ net'[m] = 1 \/ m \in doubled'
                      /\ Sent(m.blob)'
    BY DEF NetInv
  <2>1. CASE m \in S
    BY <1>4, <1>7, <2>1
  <2>2. CASE m \in DOMAIN net \ S
    <3>1. m.blob \in Blobs
      BY <2>2 DEF ListsInv, Fragment, Resend
    <3>2. net'[m] = net[m] /\ doubled' = doubled
      BY <1>1, <1>4, <2>2
    <3> QED
      BY <1>5, <2>2, <3>1, <3>2 DEF OnceInv, NetInv
  <2> QED
    BY <1>4, <2>1, <2>2
<1>9. HasInv'
  <2> SUFFICES ASSUME NEW r \in Receivers
               PROVE  /\ OneEach(incoming[r], fetched[r], BegunTwice(r))
                      /\ \A b \in Blobs : Has(incoming[r], fetched[r], b) =>
                            Sent(b)' /\ Settled(r, b)'
    <3>1. \A q : BegunTwice(q)' = BegunTwice(q)
      BY <1>1 DEF BegunTwice
    <3> QED
      BY <1>1, <3>1 DEF HasInv
  <2>1. ASSUME NEW b \in Blobs, Has(incoming[r], fetched[r], b)
        PROVE  Sent(b)' /\ Settled(r, b)'
    <3>1. Sent(b) /\ Settled(r, b) /\ BegunTwice(r)' = BegunTwice(r)
      BY <1>1, <2>1 DEF OnceInv, HasInv, BegunTwice
    <3> QED
      BY <1>4, <1>5, <1>7, <3>1 DEF Settled
  <2> QED
    BY <2>1 DEF OnceInv, HasInv
<1> QED
  BY <1>6, <1>8, <1>9 DEF OnceInv

(* (a part that is to be sent again)                                       *)
LEMMA ResendOnce ==
    ASSUME ListsInv, OnceInv, NEW m \in DOMAIN net, ProcessResend(m)
    PROVE  OnceInv'
<1>1. m \in Resend /\ m.part[1] # 0
  <2>1. m \in Fragment \cup Resend /\ m.kind = "resend"
    BY DEF ListsInv, ProcessResend
  <2>2. m \in Resend
    BY <2>1 DEF Fragment
  <2> QED
    BY <2>1, <2>2 DEF OnceInv, NetInv
<1> DEFINE b == m.blob
           more == Merge(todo[b], m.part[1], m.part[2])
<1>2. b \in Blobs /\ m.part \in Parts
  BY <1>1 DEF Resend
<1>3. MergedWell(more, todo[b], m.part[1], m.part[2])
  BY <1>2, PartFacts, MergeFacts DEF ListsInv, SortedParts
<1> HIDE DEF more
<1>4. Starts(more.dst) => Starts(todo[b])
  BY <1>1, <1>3 DEF MergedWell, Starts
<1>5. \/ outgoing[b] = "pending" /\ todo' = [todo EXCEPT ![b] = more.dst]
      \/ todo' = todo
  BY DEF ProcessResend, more
<1>6. UNCHANGED <<outgoing, incoming, fetched, doubled>>
  BY DEF ProcessResend
<1>7. NewInv' /\ \A c \in Blobs : Sent(c) => Sent(c)'
  BY <1>2, <1>4, <1>5, <1>6 DEF OnceInv, NewInv, Sent, ListsInv
<1>8. /\ IsABag(net') /\ DOMAIN net' \subseteq DOMAIN net
      /\ \A n \in DOMAIN net' : net'[n] <= net[n]
  BY BagTake DEF ListsInv, ProcessResend
<1>9. DOMAIN net \subseteq Fragment \cup Resend
  BY DEF ListsInv
<1> QED
  BY <1>6, <1>7, <1>8, <1>9, KeepOnce

(* and those of a receiver                                                 *)
LEMMA IncomingOnce ==
    ASSUME KindsDiffer, ListsInv, IntactInv, OnceInv, NEW m \in DOMAIN net, ProcessIncoming(m)
    PROVE  OnceInv'
<1>1. m \in Fragment /\ m.node \in Receivers /\ m.blob \in Blobs /\ m.part \in Parts
      /\ m.kind = "fragment"
  BY FragmentFacts DEF ProcessIncoming
<1> DEFINE r == m.node
           b == m.blob
           s == incoming[r]
           f == fetched[r]
           now == AfterFragment(s, b, m.part)
<1>2. s \in Seq(OwnBlobs) /\ f \in Seq(IntactBlobs)
  BY <1>1 DEF IntactInv
<1>3. /\ OneEach(s, f, BegunTwice(r))
      /\ \A c \in Blobs : Has(s, f, c) => Sent(c) /\ Settled(r, c)
  BY <1>1 DEF OnceInv, HasInv
<1>4. m.part[1] = 0 => /\ Sent(b) /\ m.part = FirstPart
                       /\ b \in BegunTwice(r) \/ (~Has(s, f, b) /\ net[m] = 1)
  <2>1. m.part[1] = 0 /\ m \in doubled => b \in BegunTwice(r)
    BY DEF BegunTwice
  <2>2. m.part[1] = 0 /\ Has(s, f, b) => b \in BegunTwice(r)
    BY <1>1, <1>3 DEF Settled
  <2> QED
    BY <1>1, <2>1, <2>2 DEF OnceInv, NetInv
<1>5. now \in Seq(OwnBlobs)
  BY <1>1, <1>2, AfterOwn
<1>6. /\ OneEach(now, f, BegunTwice(r))
      /\ \A c : Has(now, f, c) => Has(s, f, c) \/ (c = b /\ m.part[1] = 0)
  BY <1>1, <1>2, <1>3, <1>4, AfterOnce
<1>7. \/ /\ incoming' = [incoming EXCEPT ![r] = Incomplete(now)]
         /\ fetched' = [fetched EXCEPT ![r] = f \o Complete(now)]
      \/ incoming' = [incoming EXCEPT ![r] = now] /\ fetched' = fetched
  BY DEF ProcessIncoming
<1>8. UNCHANGED <<outgoing, todo, doubled>> /\ net' = net (-) SetToBag({m})
  BY DEF ProcessIncoming
<1>9. /\ IsABag(net') /\ DOMAIN net' \subseteq DOMAIN net
      /\ \A n \in DOMAIN net' : net'[n] <= net[n]
      /\ net[m] = 1 => m \notin DOMAIN net'
  BY <1>8, BagTake DEF ListsInv
<1> HIDE DEF now
<1>10. ASSUME NEW c \in Blobs, Has(now, f, c)
       PROVE  Sent(c) /\ Settled(r, c)'
  <2>0. BegunTwice(r)' = BegunTwice(r)
    BY <1>8 DEF BegunTwice
  <2>1. CASE Has(s, f, c)
    BY <1>3, <1>9, <2>0, <2>1 DEF Settled
  <2>2. CASE c = b /\ m.part[1] = 0 /\ c \notin BegunTwice(r)
    <3>1. ASSUME NEW n \in DOMAIN net', n.part[1] = 0, n.node = r, n.blob = c PROVE FALSE
      <4>1. n \in Fragment \cup Resend /\ n.kind = "fragment" /\ n.part = FirstPart
        BY <1>9, <3>1 DEF ListsInv, OnceInv, NetInv
      <4>2. n = m
        BY <1>1, <1>4, <2>2, <3>1, <4>1 DEF Fragment, Resend
      <4> QED
        BY <1>4, <1>9, <2>2, <4>2
    <3> QED
      BY <1>4, <2>2, <3>1 DEF Settled
  <2>3. CASE c = b /\ m.part[1] = 0 /\ c \in BegunTwice(r)
    BY <1>4, <2>0, <2>3 DEF Settled
  <2> QED
    BY <1>6, <1>10, <2>1, <2>2, <2>3
<1>11. PICK t, g : /\ incoming' = [incoming EXCEPT ![r] = t]
                   /\ fetched' = [fetched EXCEPT ![r] = g]
                   /\ OneEach(t, g, BegunTwice(r))
                   /\ \A c : Has(t, g, c) => Has(now, f, c)
  <2>1. CASE /\ incoming' = [incoming EXCEPT ![r] = Incomplete(now)]
             /\ fetched' = [fetched EXCEPT ![r] = f \o Complete(now)]
    BY <1>2, <1>5, <1>6, <2>1, HandOverOnce
  <2>2. CASE incoming' = [incoming EXCEPT ![r] = now] /\ fetched' = fetched
    <3>1. fetched' = [fetched EXCEPT ![r] = f]
      BY <1>1, <2>2 DEF ListsInv
    <3> QED
      BY <1>6, <2>2, <3>1
  <2> QED
    BY <1>7, <2>1, <2>2
<1>12. incoming'[r] = t /\ fetched'[r] = g
       /\ \A q \in Receivers \ {r} : incoming'[q] = incoming[q] /\ fetched'[q] = fetched[q]
  BY <1>1, <1>11 DEF ListsInv
<1>13. OneEach(incoming'[r], fetched'[r], BegunTwice(r))
  BY <1>11, <1>12
<1>14. \A c \in Blobs : Has(incoming'[r], fetched'[r], c) => Sent(c) /\ Settled(r, c)'
  BY <1>10, <1>11, <1>12
<1>15. r \in Receivers
  BY <1>1
<1> HIDE DEF r, b, s, f
<1> QED
  BY <1>8, <1>9, <1>12, <1>13, <1>14, <1>15, ReceiverOnce


(* (a blob that is expected)                                               *)
LEMMA ExpectOnce ==
    ASSUME ListsInv, OnceInv, NEW r \in Receivers, NEW k \in Kinds, Expect(r, k)
    PROVE  OnceInv'
<1> DEFINE s == incoming[r]
           f == fetched[r]
           t == Append(s, Pending(k, 0, 0, <<>>, Nothing))
<1>1. s \in Seq(WellBlobs)
  BY DEF ListsInv
<1>2. incoming'[r] = t /\ fetched'[r] = f
      /\ \A q \in Receivers \ {r} : incoming'[q] = incoming[q] /\ fetched'[q] = fetched[q]
  BY DEF Expect, ListsInv
<1>3. \A i \in DOMAIN t : Begun(t[i]) => i \in DOMAIN s /\ t[i] = s[i]
  <2> DEFINE p == Pending(k, 0, 0, <<>>, Nothing)
  <2>1. ~Begun(p)
    BY PendingFacts DEF Begun, Starts
  <2> HIDE DEF p, s
  <2>2. Append(s, p)[Len(s) + 1] = p /\ DOMAIN s = 1..Len(s) /\ Len(s) \in Nat
        /\ DOMAIN Append(s, p) = 1..(Len(s) + 1)
        /\ \A i \in 1..Len(s) : Append(s, p)[i] = s[i]
    BY <1>1, AppendProperties
  <2>3. t = Append(s, p)
    BY DEF p
  <2> HIDE DEF t
  <2> QED
    BY <2>1, <2>2, <2>3
<1>4. OneEach(s, f, BegunTwice(r))
      /\ \A b \in Blobs : Has(s, f, b) => Sent(b) /\ Settled(r, b)
  BY DEF OnceInv, HasInv
<1> HIDE DEF s, f, t
<1>5. OneEach(t, f, BegunTwice(r)) /\ \A b : Has(t, f, b) => Has(s, f, b)
  BY <1>3, <1>4 DEF OneEach, Has
<1>6. UNCHANGED <<outgoing, todo, net, doubled>> /\ \A b : Settled(r, b)' <=> Settled(r, b)
  BY DEF Expect, Settled, BegunTwice
<1>7. IsABag(net) /\ \A m \in DOMAIN net : net[m] <= net[m]
  BY DEF ListsInv, IsABag
<1>8. OneEach(incoming'[r], fetched'[r], BegunTwice(r))
  BY <1>2, <1>5
<1>9. \A c \in Blobs : Has(incoming'[r], fetched'[r], c) => Sent(c) /\ Settled(r, c)'
  BY <1>2, <1>4, <1>5, <1>6
<1> QED
  BY <1>2, <1>6, <1>7, <1>8, <1>9, ReceiverOnce

(* (complete blobs)                                                        *)
LEMMA HandleOnce ==
    ASSUME ListsInv, IntactInv, OnceInv, NEW r \in Receivers, HandleComplete(r)
    PROVE  OnceInv'
<1> DEFINE s == incoming[r]
           f == fetched[r]
           t == Incomplete(s)
           g == f \o Complete(s)
<1>1. s \in Seq(OwnBlobs) /\ f \in Seq(IntactBlobs)
  BY DEF IntactInv
<1>2. incoming'[r] = t /\ fetched'[r] = g
      /\ \A q \in Receivers \ {r} : incoming'[q] = incoming[q] /\ fetched'[q] = fetched[q]
  BY DEF HandleComplete, ListsInv
<1>3. OneEach(s, f, BegunTwice(r))
      /\ \A b \in Blobs : Has(s, f, b) => Sent(b) /\ Settled(r, b)
  BY DEF OnceInv, HasInv
<1>4. OneEach(t, g, BegunTwice(r)) /\ \A b : Has(t, g, b) => Has(s, f, b)
  BY <1>1, <1>3, HandOverOnce
<1> HIDE DEF s, f, t, g
<1>5. UNCHANGED <<outgoing, todo, net, doubled>> /\ \A b : Settled(r, b)' <=> Settled(r, b)
  BY DEF HandleComplete, Settled, BegunTwice
<1>6. IsABag(net) /\ \A m \in DOMAIN net : net[m] <= net[m]
  BY DEF ListsInv, IsABag
<1>7. OneEach(incoming'[r], fetched'[r], BegunTwice(r))
  BY <1>2, <1>4
<1>8. \A c \in Blobs : Has(incoming'[r], fetched'[r], c) => Sent(c) /\ Settled(r, c)'
  BY <1>2, <1>3, <1>4, <1>5
<1> QED
  BY <1>2, <1>5, <1>6, <1>7, <1>8, ReceiverOnce

(* (requests, which never ask for the first fragment)                      *)
LEMMA RequestOnce ==
    ASSUME ListsInv, OnceInv, NEW r \in Receivers, RequestResend(r)
    PROVE  OnceInv'
<1>1. PICK S : /\ IsABag(net') /\ net' = net (+) SetToBag(S)
               /\ \A m \in S : m \in Resend /\ m.kind = "resend" /\ m.part[1] # 0
  BY RequestLists
<1>2. IsABag(net) /\ DOMAIN net \subseteq Fragment \cup Resend
  BY DEF ListsInv
<1>3. \A m \in DOMAIN net' : m.part[1] = 0 => m \in DOMAIN net /\ net'[m] <= net[m]
  <2> DEFINE N == net (+) SetToBag(S)
  <2>1. /\ DOMAIN N = DOMAIN net \cup S
        /\ \A m \in DOMAIN net \ S : N[m] = net[m]
    BY <1>2, BagAdd
  <2> HIDE DEF N
  <2>2. net' = N /\ \A m \in DOMAIN net : net[m] <= net[m]
    BY <1>1, <1>2 DEF N, IsABag
  <2> QED
    BY <1>1, <2>1, <2>2
<1>4. UNCHANGED <<outgoing, todo, incoming, fetched, doubled>>
  BY DEF RequestResend
<1>5. NewInv' /\ \A b \in Blobs : Sent(b) => Sent(b)'
  BY <1>4 DEF OnceInv, NewInv, Sent
<1> QED
  BY <1>1, <1>2, <1>3, <1>4, <1>5, KeepOnce

(* (a blob that is given up)                                               *)
LEMMA CancelOnce ==
    ASSUME ListsInv, OnceInv, NEW r \in Receivers, NEW i \in DOMAIN incoming[r], Cancel(r, i)
    PROVE  OnceInv'
<1> DEFINE s == incoming[r]
           f == fetched[r]
           t == Only(s, DOMAIN s \ {i})
<1>1. s \in Seq(WellBlobs)
  BY DEF ListsInv
<1>2. incoming'[r] = t /\ fetched'[r] = f
      /\ \A q \in Receivers \ {r} : incoming'[q] = incoming[q] /\ fetched'[q] = fetched[q]
  BY DEF Cancel, ListsInv
<1>3. PICK h \in [DOMAIN t -> DOMAIN s] :
          /\ \A j, k \in DOMAIN t : h[j] = h[k] => j = k
          /\ \A j \in DOMAIN t : t[j] = s[h[j]]
  <2> DEFINE A == DOMAIN s \ {i}
  <2>1. A \in SUBSET DOMAIN s
    OBVIOUS
  <2> HIDE DEF A, s, t
  <2>2. PICK h \in [DOMAIN Only(s, A) -> A] :
            /\ \A j, k \in DOMAIN Only(s, A) : h[j] = h[k] => j = k
            /\ \A j \in DOMAIN Only(s, A) : Only(s, A)[j] = s[h[j]]
    BY <1>1, <2>1, OnlyPlaces
  <2>3. t = Only(s, A)
    BY DEF A, t
  <2>4. h \in [DOMAIN Only(s, A) -> DOMAIN s]
    BY <2>1
  <2> QED
    BY <2>2, <2>3, <2>4
<1>4. OneEach(s, f, BegunTwice(r))
      /\ \A b \in Blobs : Has(s, f, b) => Sent(b) /\ Settled(r, b)
  BY DEF OnceInv, HasInv
<1> HIDE DEF s, f, t
<1>5. OneEach(t, f, BegunTwice(r)) /\ \A b : Has(t, f, b) => Has(s, f, b)
  BY <1>3, <1>4 DEF OneEach, Has
<1>6. UNCHANGED <<outgoing, todo, net, doubled>> /\ \A b : Settled(r, b)' <=> Settled(r, b)
  BY DEF Cancel, Settled, BegunTwice
<1>7. IsABag(net) /\ \A m \in DOMAIN net : net[m] <= net[m]
  BY DEF ListsInv, IsABag
<1>8. OneEach(incoming'[r], fetched'[r], BegunTwice(r))
  BY <1>2, <1>5
<1>9. \A c \in Blobs : Has(incoming'[r], fetched'[r], c) => Sent(c) /\ Settled(r, c)'
  BY <1>2, <1>4, <1>5, <1>6
<1> QED
  BY <1>2, <1>6, <1>7, <1>8, <1>9, ReceiverOnce

(* (what the bus loses, ...                                                *)
LEMMA LoseOnce ==
    ASSUME ListsInv, OnceInv, NEW m \in DOMAIN net, Lose(m)
    PROVE  OnceInv'
<1>1. UNCHANGED <<outgoing, todo, incoming, fetched, doubled>>
  BY DEF Lose
<1>2. NewInv' /\ \A b \in Blobs : Sent(b) => Sent(b)'
  BY <1>1 DEF OnceInv, NewInv, Sent
<1>3. /\ IsABag(net') /\ DOMAIN net' \subseteq DOMAIN net
      /\ \A n \in DOMAIN net' : net'[n] <= net[n]
  BY BagTake DEF ListsInv, Lose
<1>4. DOMAIN net \subseteq Fragment \cup Resend
  BY DEF ListsInv
<1> QED
  BY <1>1, <1>2, <1>3, <1>4, KeepOnce

(* ... and what it delivers twice, which is noted).                        *)
LEMMA DuplicateOnce ==
    ASSUME ListsInv, OnceInv, NEW m \in DOMAIN net, Duplicate(m)
    PROVE  OnceInv'
<1>1. UNCHANGED <<outgoing, todo, incoming, fetched>> /\ doubled' = doubled \cup {m}
  BY DEF Duplicate
<1>2. /\ DOMAIN net' = DOMAIN net
      /\ \A n \in DOMAIN net \ {m} : net'[n] = net[n]
  <2> DEFINE N == net (+) SetToBag({m})
  <2>1. IsABag(net)
    BY DEF ListsInv
  <2>2. /\ DOMAIN N = DOMAIN net \cup {m}
        /\ \A n \in DOMAIN net \ {m} : N[n] = net[n]
    BY <2>1, BagAdd
  <2> HIDE DEF N
  <2>3. net' = N
    BY DEF Duplicate, N
  <2> QED
    BY <2>2, <2>3
<1>3. NewInv' /\ \A b : Sent(b)' <=> Sent(b)
  BY <1>1 DEF OnceInv, NewInv, Sent
<1>4. NetInv'
  BY <1>1, <1>2, <1>3 DEF OnceInv, NetInv
<1>5. \A r : BegunTwice(r) \subseteq BegunTwice(r)'
  BY <1>1 DEF BegunTwice
<1>6. \A r, b : Settled(r, b) => Settled(r, b)'
  BY <1>2, <1>5 DEF Settled
<1>7. ASSUME NEW r \in Receivers
      PROVE  OneEach(incoming[r], fetched[r], BegunTwice(r)')
  <2>1. OneEach(incoming[r], fetched[r], BegunTwice(r))
    BY DEF OnceInv, HasInv
  <2> QED
    BY <1>5, <2>1 DEF OneEach
<1>8. HasInv'
  BY <1>1, <1>3, <1>6, <1>7 DEF OnceInv, HasInv
<1> QED
  BY <1>3, <1>4, <1>8 DEF OnceInv

(* All steps keep it.                                                      *)
LEMMA OnceNext ==
    ASSUME KindsDiffer, ListsInv, IntactInv, OnceInv, [BlobNext]_blobVars
    PROVE  OnceInv'
<1>1. CASE UNCHANGED blobVars
  BY <1>1 DEF OnceInv, NewInv, NetInv, HasInv, Sent, Settled, BegunTwice, blobVars
<1>2. ASSUME NEW b \in Blobs, Post(b) \/ ExpireOutgoing(b) PROVE OnceInv'
  BY <1>2, PostOnce
<1>3. CASE ProcessOutgoing
  BY <1>3, OutgoingOnce
<1>4. ASSUME NEW m \in BagToSet(net),
             ProcessResend(m) \/ ProcessIncoming(m) \/ Lose(m) \/ Duplicate(m)
      PROVE  OnceInv'
  <2>1. m \in DOMAIN net
    BY DEF BagToSet
  <2> QED
    BY <1>4, <2>1, ResendOnce, IncomingOnce, LoseOnce, DuplicateOnce
<1>5. ASSUME NEW r \in Receivers, \/ \E k \in Kinds : Expect(r, k)
                                  \/ HandleComplete(r)
                                  \/ RequestResend(r)
                                  \/ \E i \in DOMAIN incoming[r] : Cancel(r, i)
      PROVE  OnceInv'
  BY <1>5, ExpectOnce, HandleOnce, RequestOnce, CancelOnce
<1> QED
  BY <1>1, <1>2, <1>3, <1>4, <1>5 DEF BlobNext

(* A receiver gets a blob once, also when a fragment of it that was sent   *)
(* again or delivered twice arrives after it was fetched, unless this is   *)
(* its first fragment (FetchedOnce), if no two blobs have the same message *)
(* type and target_blob_id.                                                *)
THEOREM BlobsOnce ==
    ASSUME KindsDiffer
    PROVE  BlobSpec => []FetchedOnce
<1>1. BlobInit => OnceInv
  BY OnceInit
<1>2. ListsInv /\ IntactInv /\ OnceInv /\ [BlobNext]_blobVars => OnceInv'
  BY OnceNext
<1>3. OnceInv => FetchedOnce
  BY DEF OnceInv, HasInv, OneEach, FetchedOnce
<1> QED
  BY ListsCorrect, IntactCorrect, <1>1, <1>2, <1>3, PTL DEF BlobSpec
================================================================================
