--------------------------- MODULE StackAllocator ---------------------------
(***************************************************************************)
(* The stack allocator of eagine/memory: base_stack_allocator, which cuts  *)
(* blocks from a buffer, and stack_byte_allocator on top of it, which      *)
(* aligns them and keeps the padding in the byte before each block.        *)
(*                                                                         *)
(* Blocks may be returned in any order, but the allocator keeps no list of *)
(* them: all it knows are three numbers.  Below _min everything is in use, *)
(* between _min and _pos there may be holes, and _dif is how many bytes    *)
(* are in use there.                                                       *)
(*                                                                         *)
(* Addresses are offsets in the buffer, which is aligned as the assertion  *)
(* is_aligned_to in allocate requires.  An allocation that does not fit    *)
(* fails the assertion after it and has no step here.  An allocator that   *)
(* is moved into its own buffer (accomodate_self) has a block there like   *)
(* any user, and reallocation is deallocation and allocation.              *)
(*                                                                         *)
(* Definitions named Dev_X are deviations of the definition X that follows *)
(* them, made as a plausible mistake in the code would make them.          *)
(***************************************************************************)
EXTENDS Integers, FiniteSets

CONSTANTS Top,        \* size of the buffer
          Sizes,      \* bound: the sizes that are asked for
          Aligns,     \* bound: the alignments; the padding has to fit a byte
          MaxBlocks   \* bound: blocks at a time

ASSUME AllocAssumption == /\ Top \in Nat
                          /\ Sizes \subseteq Nat
                          /\ Aligns \subseteq 1..254
                          /\ MaxBlocks \in Nat

VARIABLES
    pos,     \* _pos: the end of what is allocated
    min,     \* _min
    dif,     \* _dif
    mem,     \* the bytes of the buffer; 0 stands for what users write
    live,    \* the blocks that users have
    lost     \* (history) blocks that nobody has and nobody returned

vars == <<pos, min, dif, mem, live, lost>>

(* A block as its user sees it; pad (history) tells how many bytes before  *)
(* it belong to it too.                                                    *)
Block == [at : Nat, size : Nat, pad : 1..254]

First(b) == b.at - b.pad
End(b) == b.at + b.size
Bytes(b) == First(b)..(End(b) - 1)
Blocks == live \cup lost
InUse == UNION {Bytes(b) : b \in Blocks}

Init == /\ pos = 0 /\ min = 0 /\ dif = 0
        /\ mem \in [0..(Top - 1) -> {0}]
        /\ live = {} /\ lost = {}
-----------------------------------------------------------------------------
(* base_stack_allocator::allocate, for k bytes that are available.         *)
Grow(k) == /\ IF min = pos
              THEN min' = min + k /\ dif' = dif
              ELSE min' = min /\ dif' = dif + k
           /\ pos' = pos + k

(* stack_byte_allocator::allocate: at least one byte comes before a block. *)
Padding(a) == a - (pos % a)

(* The fallback allocator drops a block without bytes, which it takes for  *)
(* a failure, and asks elsewhere (fallback_alloc.hpp:61): its padding is   *)
(* never returned.                                                         *)
Allocate(n, a) ==
    LET m == Padding(a)
        b == [at |-> pos + m, size |-> n, pad |-> m]
    IN  /\ Cardinality(Blocks) < MaxBlocks
        /\ m + n <= Top - pos
        /\ Grow(m + n)
        /\ mem' = [x \in DOMAIN mem |->
                      IF x = b.at - 1 THEN m
                      ELSE IF x \in b.at..(End(b) - 1) THEN 0 ELSE mem[x]]
        /\ \/ live' = live \cup {b} /\ UNCHANGED lost
           \/ n = 0 /\ lost' = lost \cup {b} /\ UNCHANGED live

(* base_stack_allocator::deallocate, for n bytes from p.  Only the number  *)
(* of bytes in use above _min is updated for a block that is not the last. *)
Dev_MinAfter(p, n) ==
    IF p + n = pos THEN IF min = pos THEN min - n ELSE min
    ELSE IF p + n > min THEN min ELSE min - n

MinAfter(p, n) ==
    IF p + n = pos THEN IF min = pos THEN min - n ELSE min
    ELSE IF p + n = min THEN min - n
    ELSE IF p + n > min THEN min ELSE p

Dev_DifAfter(p, n) ==
    IF p + n = pos THEN IF min = pos THEN dif ELSE dif - n
    ELSE IF p + n = min THEN dif
    ELSE IF p + n > min THEN dif - n ELSE dif

DifAfter(p, n) ==
    IF p + n = pos THEN IF min = pos THEN dif ELSE dif - n
    ELSE IF p + n = min THEN dif
    ELSE IF p + n > min THEN dif - n ELSE dif + (min - p) - n

Dev_PosAfter(p, n) == IF p + n = pos THEN pos - n ELSE pos

PosAfter(p, n) == IF DifAfter(p, n) = 0 THEN MinAfter(p, n)
                  ELSE IF p + n = pos THEN pos - n ELSE pos

(* stack_byte_allocator::deallocate: the byte before the block tells how   *)
(* many of those before it belong to it.                                   *)
Deallocate(b) ==
    LET m == mem[b.at - 1]
        p == b.at - m
        n == b.size + m
    IN  /\ live' = live \ {b}
        /\ min' = MinAfter(p, n)
        /\ dif' = DifAfter(p, n)
        /\ pos' = PosAfter(p, n)
        /\ UNCHANGED <<mem, lost>>

Next == \/ \E n \in Sizes, a \in Aligns : Allocate(n, a)
        \/ \E b \in live : Deallocate(b)

Spec == Init /\ [][Next]_vars
-----------------------------------------------------------------------------
(* All variables have their types: _pos never passes the end.              *)
TypeOK == /\ pos \in 0..Top /\ min \in 0..Top /\ dif \in 0..Top
          /\ mem \in [0..(Top - 1) -> 0..254]
          /\ live \subseteq Block /\ lost \subseteq Block

(* The blocks that are in use, with the bytes before them, lie below _pos  *)
(* and never share a byte, in whatever order blocks are returned; nobody   *)
(* writes the byte that says where a block begins.                         *)
BlocksApart ==
    /\ \A b \in Blocks : /\ 0 <= First(b) /\ End(b) <= pos
                         /\ mem[b.at - 1] = b.pad
    /\ \A b, c \in Blocks : b # c => End(b) <= First(c) \/ End(c) <= First(b)
    /\ live \cap lost = {}

(* What _min and _dif mean: all bytes below _min are in use and no block   *)
(* goes across it, and _dif of the bytes above it are in use.  When none   *)
(* are, everything from _min on is available again.                        *)
Accounting ==
    /\ min <= pos
    /\ 0..(min - 1) \subseteq InUse
    /\ \A b \in Blocks : First(b) < min => End(b) <= min
    /\ dif = Cardinality(InUse \cap (min..(pos - 1)))
    /\ dif = 0 => pos = min

(* When all blocks were returned, in whatever order, the whole buffer is   *)
(* available, unless the fallback allocator lost a block.                  *)
AllReturned == Blocks = {} => pos = 0
=============================================================================
