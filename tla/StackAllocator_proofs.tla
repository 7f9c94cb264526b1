------------------------ MODULE StackAllocator_proofs ------------------------
(***************************************************************************)
(* Proofs about StackAllocator, for any buffer, sizes and alignments.      *)
(*                                                                         *)
(* The argument: BlocksApart and Accounting need each other.  That _dif is *)
(* the number of bytes in use above _min is what makes it right to give up *)
(* everything above _min when it is zero: no block begins there, and since *)
(* none goes across _min none is cut.                                      *)
(***************************************************************************)
EXTENDS StackAllocator, FiniteSetTheorems, TLAPS

(* The bytes in use between two offsets, and how many they are.            *)
Between(S, i, j) == S \cap (i..(j - 1))

(* The number of bytes of an interval is the difference of its ends.       *)
LEMMA IntervalSize ==
    ASSUME NEW i \in Int, NEW j \in Int, i <= j
    PROVE  IsFiniteSet(i..(j - 1)) /\ Cardinality(i..(j - 1)) = j - i
<1>1. PICK k \in Int : k = j - 1
  OBVIOUS
<1>2. IsFiniteSet(i..k) /\ Cardinality(i..k) = IF i > k THEN 0 ELSE k - i + 1
  BY FS_Interval
<1>3. Cardinality(i..k) = j - i
  BY <1>1, <1>2
<1> QED
  BY <1>1, <1>2, <1>3

(* Bytes between two offsets can be counted, and are no more than fit.     *)
LEMMA BetweenSize ==
    ASSUME NEW S, NEW i \in Int, NEW j \in Int, i <= j
    PROVE  /\ IsFiniteSet(Between(S, i, j))
           /\ Cardinality(Between(S, i, j)) \in 0..(j - i)
           /\ Cardinality(Between(S, i, j)) = 0 => Between(S, i, j) = {}
<1>1. Between(S, i, j) \in SUBSET (i..(j - 1))
  BY DEF Between
<1>2. /\ IsFiniteSet(Between(S, i, j))
      /\ Cardinality(Between(S, i, j)) <= j - i
  <2>1. IsFiniteSet(i..(j - 1)) /\ Cardinality(i..(j - 1)) = j - i
    BY IntervalSize
  <2>2. /\ IsFiniteSet(Between(S, i, j))
        /\ Cardinality(Between(S, i, j)) <= Cardinality(i..(j - 1))
    BY <1>1, <2>1, FS_Subset
  <2> QED
    BY <2>1, <2>2
<1>3. Cardinality(Between(S, i, j)) \in Nat
  BY <1>2, FS_CardinalityType
<1> QED
  BY <1>2, <1>3, FS_EmptySet

(* The sizes of sets without a common byte add up.                         *)
LEMMA SizesAdd ==
    ASSUME NEW S, NEW T, IsFiniteSet(S), IsFiniteSet(T), S \cap T = {}
    PROVE  Cardinality(S \cup T) = Cardinality(S) + Cardinality(T)
<1>1. Cardinality(S) \in Nat /\ Cardinality(T) \in Nat
  BY FS_CardinalityType
<1>2. Cardinality(S \cap T) = 0
  BY FS_EmptySet
<1>3. Cardinality(S \cup T) = Cardinality(S) + Cardinality(T) - Cardinality(S \cap T)
  BY FS_Union
<1> QED
  BY <1>1, <1>2, <1>3

(* The invariant of all theorems.                                          *)
AllocInv == TypeOK /\ BlocksApart /\ Accounting

(* A block has bytes of its own, at least the one before it.               *)
LEMMA BlockFacts ==
    ASSUME AllocInv, NEW b \in Blocks
    PROVE  /\ b \in Block /\ b.at \in Nat /\ b.size \in Nat /\ b.pad \in 1..254
           /\ First(b) \in Nat /\ End(b) \in Nat /\ First(b) < End(b) /\ End(b) <= pos
           /\ b.at - 1 \in 0..(Top - 1) /\ mem[b.at - 1] = b.pad
           /\ Bytes(b) = First(b)..(End(b) - 1)
           /\ Bytes(b) \subseteq InUse /\ First(b) \in InUse
           /\ b.at - b.pad = First(b) /\ b.size + b.pad = End(b) - First(b)
<1>1. b \in Block /\ b.at \in Nat /\ b.size \in Nat /\ b.pad \in 1..254
  BY DEF AllocInv, TypeOK, Blocks, Block
<1>2. 0 <= First(b) /\ End(b) <= pos /\ mem[b.at - 1] = b.pad /\ pos \in 0..Top
  BY DEF AllocInv, BlocksApart, TypeOK
<1>3. First(b) \in Nat /\ End(b) \in Nat /\ First(b) < End(b)
  BY <1>1, <1>2 DEF First, End
<1>4. b.at - 1 \in 0..(Top - 1)
  BY <1>1, <1>2, AllocAssumption DEF First, End
<1>5. First(b) \in Bytes(b)
  BY <1>3 DEF Bytes
<1>6. b.at - b.pad = First(b) /\ b.size + b.pad = End(b) - First(b)
  BY <1>1 DEF First, End
<1> QED
  BY <1>1, <1>2, <1>3, <1>4, <1>5, <1>6 DEF Bytes, InUse
(* Making one more block at the end.                                       *)
LEMMA AllocateInv ==
    ASSUME AllocInv, NEW n \in Sizes, NEW a \in Aligns, Allocate(n, a)
    PROVE  AllocInv'
<1> DEFINE m == Padding(a)
           b == [at |-> pos + m, size |-> n, pad |-> m]
<1>1. /\ n \in Nat /\ a \in 1..254 /\ Top \in Nat
      /\ pos \in 0..Top /\ min \in 0..Top /\ dif \in 0..Top /\ min <= pos
  BY AllocAssumption DEF AllocInv, TypeOK, Accounting
<1>2. m \in 1..254
  BY <1>1 DEF Padding
<1>3. /\ m + n <= Top - pos
      /\ Grow(m + n)
      /\ mem' = [x \in DOMAIN mem |-> IF x = b.at - 1 THEN m
                    ELSE IF x \in b.at..(End(b) - 1) THEN 0 ELSE mem[x]]
      /\ \/ live' = live \cup {b} /\ lost' = lost
         \/ lost' = lost \cup {b} /\ live' = live
  BY DEF Allocate
<1> HIDE DEF m
<1>4. /\ b \in Block /\ First(b) = pos /\ End(b) = pos + m + n
      /\ Bytes(b) = pos..(pos + m + n - 1) /\ b.at = pos + m /\ b.pad = m
  BY <1>1, <1>2 DEF Block, First, End, Bytes
<1>5. Blocks' = Blocks \cup {b}
  BY <1>3 DEF Blocks
<1>6. b \notin Blocks
  BY <1>1, <1>2, <1>4, BlockFacts
<1>7. InUse' = InUse \cup Bytes(b)
  BY <1>5 DEF InUse
<1> HIDE DEF b
<1>8. pos' = pos + m + n /\ pos' \in 0..Top /\ pos < pos'
  BY <1>1, <1>2, <1>3 DEF Grow
<1>81. Bytes(b) = pos..(pos' - 1)
  <2>1. pos' - 1 = pos + m + n - 1
    BY <1>1, <1>2, <1>8
  <2> QED
    BY <1>4, <2>1
<1>9. \A c \in Blocks : /\ First(c) \in Nat /\ End(c) \in Nat /\ End(c) <= pos
                        /\ First(c) < End(c)
                        /\ c.at - 1 \in 0..(Top - 1) /\ mem[c.at - 1] = c.pad
                        /\ c.at - 1 < pos
  <2>1. ASSUME NEW c \in Blocks PROVE c.at - 1 < pos
    <3>1. c.at \in Nat /\ c.size \in Nat /\ End(c) <= pos
      BY <2>1, BlockFacts
    <3> QED
      BY <1>1, <3>1 DEF End
  <2> QED
    BY <2>1, BlockFacts
<1>10. BlocksApart'
  <2>1. ASSUME NEW c \in Blocks PROVE mem'[c.at - 1] = c.pad
    BY <1>1, <1>2, <1>3, <1>4, <1>9 DEF AllocInv, TypeOK
  <2>2. mem'[b.at - 1] = b.pad
    BY <1>1, <1>2, <1>3, <1>4, <1>8 DEF AllocInv, TypeOK
  <2>3. \A c \in Blocks' : /\ 0 <= First(c) /\ End(c) <= pos'
                           /\ mem'[c.at - 1] = c.pad
    BY <1>1, <1>4, <1>5, <1>8, <1>9, <2>1, <2>2
  <2>4. \A c, d \in Blocks' : c # d => End(c) <= First(d) \/ End(d) <= First(c)
    BY <1>4, <1>5, <1>9 DEF AllocInv, BlocksApart
  <2>5. live' \cap lost' = {}
    BY <1>3, <1>6 DEF Blocks, AllocInv, BlocksApart
  <2> QED
    BY <2>3, <2>4, <2>5 DEF BlocksApart, First, End
<1>11. /\ min' \in 0..Top /\ dif' \in 0..Top /\ min' <= pos'
       /\ 0..(min' - 1) \subseteq InUse'
       /\ \A c \in Blocks' : First(c) < min' => End(c) <= min'
       /\ dif' = Cardinality(Between(InUse', min', pos'))
       /\ dif' = 0 => pos' = min'
  <2> DEFINE used == Between(InUse, min, pos)
  <2>1. /\ 0..(min - 1) \subseteq InUse
        /\ \A c \in Blocks : First(c) < min => End(c) <= min
        /\ dif = Cardinality(used)
    BY DEF AllocInv, Accounting, Between
  <2>2. IsFiniteSet(used) /\ Cardinality(used) <= pos - min
    BY <1>1, BetweenSize
  <2>3. CASE min = pos
    <3>1. min' = pos' /\ dif' = dif
      BY <1>1, <1>2, <1>3, <1>8, <2>3 DEF Grow
    <3>2. dif = 0
      BY <1>1, <2>1, <2>2, <2>3
    <3>3. 0..(min' - 1) \subseteq InUse'
      BY <1>1, <1>7, <1>8, <1>81, <2>1, <2>3, <3>1
    <3>4. \A c \in Blocks' : First(c) < min' => End(c) <= min'
      BY <1>1, <1>4, <1>5, <1>8, <1>9, <3>1
    <3>5. Cardinality(Between(InUse', min', pos')) = 0
      <4>1. Between(InUse', min', pos') = {}
        BY <1>8, <3>1 DEF Between
      <4> QED
        BY <4>1, FS_EmptySet
    <3> QED
      BY <1>1, <1>8, <3>1, <3>2, <3>3, <3>4, <3>5
  <2>4. CASE min # pos
    <3>1. min' = min /\ dif' = dif + (m + n)
      BY <1>1, <1>2, <1>3, <2>4 DEF Grow
    <3>2. 0..(min' - 1) \subseteq InUse'
      BY <1>7, <2>1, <3>1
    <3>3. \A c \in Blocks' : First(c) < min' => End(c) <= min'
      BY <1>1, <1>4, <1>5, <2>1, <3>1
    <3>4. InUse \cap Bytes(b) = {}
      BY <1>1, <1>2, <1>4, <1>9 DEF InUse, Bytes
    <3>5. Between(InUse', min', pos') = used \cup Bytes(b)
      <4>1. InUse \cap (pos..(pos' - 1)) = {}
        BY <1>81, <3>4
      <4> QED
        BY <1>1, <1>7, <1>8, <1>81, <3>1, <4>1 DEF Between
    <3>6. IsFiniteSet(Bytes(b)) /\ Cardinality(Bytes(b)) = m + n
      <4>1. /\ pos \in Int /\ pos' \in Int /\ pos <= pos' /\ pos' - pos = m + n
        BY <1>1, <1>2, <1>8
      <4>2. \A j \in Int : pos <= j => /\ IsFiniteSet(pos..(j - 1))
                                      /\ Cardinality(pos..(j - 1)) = j - pos
        BY <4>1, IntervalSize
      <4> QED
        BY <1>81, <4>1, <4>2
    <3>7. Cardinality(used \cup Bytes(b)) = dif + (m + n)
      <4>1. used \cap Bytes(b) = {}
        BY <3>4 DEF Between
      <4> HIDE DEF used
      <4> QED
        BY <2>1, <2>2, <3>6, <4>1, SizesAdd
    <3>8. dif' \in 0..Top /\ dif' # 0
      BY <1>1, <1>2, <1>3, <2>1, <2>2, <3>1
    <3> QED
      BY <1>1, <1>8, <3>1, <3>2, <3>3, <3>5, <3>7, <3>8
  <2> QED
    BY <2>3, <2>4
<1>12. Accounting'
  BY <1>11 DEF Accounting, Between, First, End
<1>13. TypeOK'
  <2>1. mem' \in [0..(Top - 1) -> 0..254]
    BY <1>2, <1>3 DEF AllocInv, TypeOK
  <2> QED
    BY <1>3, <1>4, <1>8, <1>11, <2>1 DEF AllocInv, TypeOK
<1> QED
  BY <1>10, <1>12, <1>13 DEF AllocInv
(* Returning a block: what _min, _dif and _pos are before the last line of *)
(* deallocate, in each of its branches.                                    *)
LEMMA ReturnedCounts ==
    ASSUME AllocInv, NEW b \in Blocks, NEW left, left = InUse \ Bytes(b),
           NEW last \in Nat, last = IF End(b) = pos THEN First(b) ELSE pos,
           NEW low, low = MinAfter(First(b), End(b) - First(b)),
           NEW num, num = DifAfter(First(b), End(b) - First(b))
    PROVE  /\ low \in Nat /\ num \in Nat /\ low <= last
           /\ 0..(low - 1) \subseteq left
           /\ low = min \/ low = First(b)
           /\ low <= min
           /\ num = Cardinality(Between(left, low, last))
<1> DEFINE p == First(b)
           e == End(b)
           used == Between(InUse, min, pos)
           rest == Between(left, low, last)
<1>1. /\ pos \in Nat /\ min \in Nat /\ dif \in Nat /\ min <= pos
      /\ 0..(min - 1) \subseteq InUse
      /\ p < min => e <= min
      /\ dif = Cardinality(used)
  BY DEF AllocInv, TypeOK, Accounting, Between
<1>2. p \in Nat /\ e \in Nat /\ p < e /\ e <= pos /\ Bytes(b) = p..(e - 1)
      /\ Bytes(b) \subseteq InUse
  BY BlockFacts
<1>3. p + (e - p) = e
  BY <1>2
<1>4. /\ IsFiniteSet(used) /\ Cardinality(used) \in 0..(pos - min)
  BY <1>1, BetweenSize
<1> HIDE DEF p, e
<1>5. low = IF e = pos THEN IF min = pos THEN min - (e - p) ELSE min
            ELSE IF e = min THEN min - (e - p)
            ELSE IF e > min THEN min ELSE p
  BY <1>3 DEF MinAfter, p, e
<1>6. num = IF e = pos THEN IF min = pos THEN dif ELSE dif - (e - p)
            ELSE IF e = min THEN dif
            ELSE IF e > min THEN dif - (e - p) ELSE dif + (min - p) - (e - p)
  BY <1>3 DEF DifAfter, p, e
<1>7. low = IF e <= min THEN p ELSE min
  BY <1>1, <1>2, <1>5
<1>8. num = IF e <= min THEN dif + (min - e) ELSE dif - (e - p)
  BY <1>1, <1>2, <1>6
<1>9. last = IF e = pos THEN p ELSE pos
  BY DEF p, e
<1>10. left = InUse \ (p..(e - 1))
  BY <1>2
<1>11. low <= last
  BY <1>1, <1>2, <1>7, <1>9
<1>12. 0..(low - 1) \subseteq left
  BY <1>1, <1>2, <1>7, <1>10
<1>13. CASE e <= min
  <2>1. rest = used \cup (e..(min - 1))
    BY <1>1, <1>2, <1>7, <1>9, <1>10, <1>13 DEF Between
  <2>2. used \cap (e..(min - 1)) = {}
    BY <1>1, <1>2 DEF Between
  <2>3. IsFiniteSet(e..(min - 1)) /\ Cardinality(e..(min - 1)) = min - e
    BY <1>1, <1>2, <1>13, IntervalSize
  <2>4. Cardinality(used \cup (e..(min - 1))) = dif + (min - e)
    <3> HIDE DEF used
    <3> QED
      BY <1>1, <1>4, <2>2, <2>3, SizesAdd
  <2>5. num = Cardinality(rest) /\ num \in Nat
    <3>1. num = dif + (min - e) /\ num \in Nat
      BY <1>1, <1>2, <1>8, <1>13
    <3> HIDE DEF used, rest
    <3> QED
      BY <2>1, <2>4, <3>1
  <2> QED
    BY <1>1, <1>2, <1>7, <1>11, <1>12, <1>13, <2>5 DEF p
<1>14. CASE ~(e <= min)
  <2>1. p >= min
    BY <1>1, <1>2, <1>14
  <2>2. used = rest \cup (p..(e - 1))
    BY <1>1, <1>2, <1>7, <1>9, <1>10, <1>14, <2>1 DEF Between
  <2>3. rest \cap (p..(e - 1)) = {}
    BY <1>10 DEF Between
  <2>4. IsFiniteSet(p..(e - 1)) /\ Cardinality(p..(e - 1)) = e - p
    BY <1>2, IntervalSize
  <2>5. IsFiniteSet(rest) /\ Cardinality(rest) \in Nat
    <3>1. low \in Int /\ last \in Int
      BY <1>1, <1>2, <1>7
    <3>2. Cardinality(Between(left, low, last)) \in 0..(last - low)
      BY <1>11, <3>1, BetweenSize
    <3> QED
      BY <1>11, <3>1, <3>2, BetweenSize
  <2>6. Cardinality(used) = Cardinality(rest) + (e - p)
    <3> HIDE DEF used, rest
    <3> QED
      BY <2>2, <2>3, <2>4, <2>5, SizesAdd
  <2>7. num = Cardinality(rest) /\ num \in Nat
    BY <1>1, <1>2, <1>8, <1>14, <2>5, <2>6
  <2> QED
    BY <1>1, <1>2, <1>7, <1>11, <1>12, <1>14, <2>7 DEF p
<1> QED
  BY <1>13, <1>14

(* A user that returns a block.                                            *)
LEMMA DeallocateInv ==
    ASSUME AllocInv, NEW b \in live, Deallocate(b)
    PROVE  AllocInv'
<1> DEFINE p == First(b)
           e == End(b)
           left == InUse \ Bytes(b)
           last == IF e = pos THEN p ELSE pos
           low == MinAfter(p, e - p)
           num == DifAfter(p, e - p)
<1>1. b \in Blocks
  BY DEF Blocks
<1>2. /\ b.at \in Nat /\ b.size \in Nat /\ b.pad \in 1..254
      /\ p \in Nat /\ e \in Nat /\ p < e /\ e <= pos /\ mem[b.at - 1] = b.pad
      /\ Bytes(b) = p..(e - 1)
  BY <1>1, BlockFacts
<1>3. /\ pos \in 0..Top /\ min \in 0..Top /\ dif \in 0..Top /\ min <= pos /\ Top \in Nat
      /\ \A c \in Blocks : First(c) < min => End(c) <= min
  BY AllocAssumption DEF AllocInv, TypeOK, Accounting
<1>4. b.at - b.pad = p /\ b.size + b.pad = e - p
  BY <1>1, BlockFacts
<1>5. last \in Nat
  BY <1>2, <1>3
<1>6. p + (e - p) = e
  BY <1>2
<1>7. /\ live' = live \ {b} /\ lost' = lost /\ mem' = mem
      /\ min' = low /\ dif' = num
      /\ pos' = IF num = 0 THEN low ELSE last
  <2>1. pos - (e - p) = p \/ e # pos
    BY <1>2, <1>3
  <2>2. PosAfter(p, e - p) = IF num = 0 THEN low ELSE last
    BY <1>6, <2>1 DEF PosAfter
  <2> QED
    BY <1>2, <1>4, <2>2 DEF Deallocate
<1>8. Blocks' = Blocks \ {b}
  BY <1>7 DEF Blocks, AllocInv, BlocksApart
<1>9. \A c \in Blocks' : /\ c \in Blocks /\ c # b
                         /\ First(c) \in Nat /\ End(c) \in Nat /\ First(c) < End(c)
                         /\ End(c) <= pos /\ First(c) \in Bytes(c)
                         /\ Bytes(c) = First(c)..(End(c) - 1)
                         /\ End(c) <= p \/ e <= First(c)
                         /\ mem[c.at - 1] = c.pad
  <2>1. ASSUME NEW c \in Blocks PROVE First(c) \in Bytes(c)
    <3>1. First(c) \in Nat /\ End(c) \in Nat /\ First(c) < End(c)
      BY <2>1, BlockFacts
    <3> QED
      BY <3>1 DEF Bytes
  <2>2. \A c \in Blocks : c # b => End(c) <= p \/ e <= First(c)
    BY <1>1 DEF AllocInv, BlocksApart
  <2> QED
    BY <1>8, <2>1, <2>2, BlockFacts
<1>10. InUse' = left
  <2>1. \A c \in Blocks' : Bytes(c) \cap Bytes(b) = {}
    BY <1>2, <1>9
  <2> QED
    BY <1>1, <1>8, <2>1 DEF InUse
<1> HIDE DEF left, last, low, num, p, e
<1>11. /\ low \in Nat /\ num \in Nat /\ low <= last
       /\ 0..(low - 1) \subseteq left
       /\ low = min \/ low = p
       /\ low <= min
       /\ num = Cardinality(Between(left, low, last))
  BY <1>1, <1>5, ReturnedCounts DEF left, last, low, num, p, e
<1>12. \A c \in Blocks' : /\ First(c) < low => End(c) <= low
                          /\ End(c) <= last
  <2>1. \A c \in Blocks' : End(c) <= last
    BY <1>2, <1>3, <1>9 DEF last
  <2>2. ASSUME NEW c \in Blocks', First(c) < low PROVE End(c) <= low
    <3>1. CASE low = min
      BY <1>3, <1>9, <2>2, <3>1
    <3>2. CASE low = p
      BY <1>2, <1>9, <2>2, <3>2
    <3> QED
      BY <1>11, <3>1, <3>2
  <2> QED
    BY <2>1, <2>2
<1>13. ASSUME num = 0
       PROVE  /\ Between(left, low, last) = {}
              /\ \A c \in Blocks' : End(c) <= low
  <2>1. Between(left, low, last) = {}
    <3>1. /\ low \in Int /\ last \in Int /\ low <= last
          /\ Cardinality(Between(left, low, last)) = 0
      BY <1>5, <1>11, <1>13
    <3> QED
      BY <3>1, BetweenSize
  <2>2. ASSUME NEW c \in Blocks' PROVE End(c) <= low
    <3>1. First(c) \in left
      BY <1>9, <1>10, <2>2 DEF InUse
    <3>2. First(c) < low
      BY <1>5, <1>9, <1>11, <1>12, <2>1, <2>2, <3>1 DEF Between
    <3> QED
      BY <1>12, <2>2, <3>2
  <2> QED
    BY <2>1, <2>2
<1>14. \A c \in Blocks' : End(c) <= pos'
  BY <1>7, <1>12, <1>13
<1>15. BlocksApart'
  <2>1. \A c, d \in Blocks' : c # d => End(c) <= First(d) \/ End(d) <= First(c)
    BY <1>8 DEF AllocInv, BlocksApart
  <2>2. live' \cap lost' = {}
    BY <1>7 DEF AllocInv, BlocksApart
  <2> QED
    BY <1>7, <1>9, <1>14, <2>1, <2>2 DEF BlocksApart, First, End
<1>16. dif' = Cardinality(Between(InUse', min', pos'))
  <2>1. CASE num = 0
    <3>1. Between(left, low, low) = {}
      BY <1>11 DEF Between
    <3> QED
      BY <1>7, <1>10, <2>1, <3>1, FS_EmptySet
  <2>2. CASE num # 0
    BY <1>7, <1>10, <1>11, <2>2
  <2> QED
    BY <2>1, <2>2
<1>17. Accounting'
  <2>1. /\ min' <= pos'
        /\ 0..(min' - 1) \subseteq InUse'
        /\ \A c \in Blocks' : First(c) < min' => End(c) <= min'
        /\ dif' = 0 => pos' = min'
    BY <1>7, <1>10, <1>11, <1>12
  <2> QED
    BY <1>16, <2>1 DEF Accounting, Between, First, End
<1>18. TypeOK'
  <2>1. last \in 0..Top
    BY <1>2, <1>3 DEF last
  <2>2. num \in 0..Top
    BY <1>3, <1>5, <1>11, <2>1, BetweenSize
  <2>3. low \in 0..Top /\ pos' \in 0..Top
    BY <1>3, <1>7, <1>11, <2>1
  <2> QED
    BY <1>7, <2>2, <2>3 DEF AllocInv, TypeOK
<1> QED
  BY <1>15, <1>17, <1>18 DEF AllocInv

(* The invariant holds.                                                    *)
LEMMA AllocCorrect == Spec => []AllocInv
<1>1. Init => AllocInv
  <2> SUFFICES ASSUME Init PROVE AllocInv
    OBVIOUS
  <2>1. Blocks = {} /\ InUse = {}
    BY DEF Init, Blocks, InUse
  <2>2. TypeOK
    BY AllocAssumption DEF Init, TypeOK
  <2>3. BlocksApart
    BY <2>1 DEF Init, BlocksApart, Blocks
  <2>4. Accounting
    <3>1. InUse \cap (min..(pos - 1)) = {}
      BY <2>1
    <3> QED
      BY <2>1, <3>1, FS_EmptySet DEF Init, Accounting
  <2> QED
    BY <2>2, <2>3, <2>4 DEF AllocInv
<1>2. AllocInv /\ [Next]_vars => AllocInv'
  <2> SUFFICES ASSUME AllocInv, [Next]_vars PROVE AllocInv'
    OBVIOUS
  <2>1. CASE UNCHANGED vars
    BY <2>1 DEF vars, AllocInv, TypeOK, BlocksApart, Accounting, Blocks, InUse, Bytes,
                First, End
  <2>2. CASE Next
    BY <2>2, AllocateInv, DeallocateInv DEF Next
  <2> QED
    BY <2>1, <2>2
<1> QED
  BY <1>1, <1>2, PTL DEF Spec

(* All variables keep their types: _pos never passes the end.              *)
THEOREM TypeCorrect == Spec => []TypeOK
<1>1. AllocInv => TypeOK
  BY DEF AllocInv
<1> QED
  BY AllocCorrect, <1>1, PTL

(* No two blocks ever share a byte, nor does a block lie beyond _pos, and  *)
(* the padding of each can be read before it, for any sizes, alignments    *)
(* and orders of allocation and deallocation.                              *)
THEOREM ApartCorrect == Spec => []BlocksApart
<1>1. AllocInv => BlocksApart
  BY DEF AllocInv
<1> QED
  BY AllocCorrect, <1>1, PTL

(* The three numbers always mean what Accounting says of them.             *)
THEOREM AccountingCorrect == Spec => []Accounting
<1>1. AllocInv => Accounting
  BY DEF AllocInv
<1> QED
  BY AllocCorrect, <1>1, PTL

(* When all blocks were returned the whole buffer is available, in         *)
(* whatever order they were.                                               *)
THEOREM ReturnedCorrect == Spec => []AllReturned
<1>1. AllocInv => AllReturned
  <2> SUFFICES ASSUME AllocInv, Blocks = {} PROVE pos = 0
    BY DEF AllReturned
  <2>1. InUse = {}
    BY DEF InUse
  <2>2. dif = 0 /\ pos = min
    <3>1. InUse \cap (min..(pos - 1)) = {}
      BY <2>1
    <3>2. dif = 0
      BY <3>1, FS_EmptySet DEF AllocInv, Accounting
    <3> QED
      BY <3>2 DEF AllocInv, Accounting
  <2>3. 0..(min - 1) = {} /\ min \in Nat
    BY <2>1 DEF AllocInv, Accounting, TypeOK
  <2>4. min = 0
    <3>1. min > 0 => 0 \in 0..(min - 1)
      BY <2>3
    <3> QED
      BY <2>3, <3>1
  <2> QED
    BY <2>2, <2>4
<1> QED
  BY AllocCorrect, <1>1, PTL
=============================================================================
