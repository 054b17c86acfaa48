------------------------- MODULE FreeListAllocatorProofs -----------------------
(***************************************************************************)
(* For every arena size, alignment, request size and id range: the types,  *)
(* and that the allocator never hands out a byte twice.                    *)
(***************************************************************************)
EXTENDS FreeListAllocator, WellFoundedInduction, TLAPS

\* Rounding up reaches at least the value rounded.
LEMMA AlignUpBounds ==
    ASSUME NEW v \in Nat
    PROVE  align_up(v) \in Nat /\ align_up(v) >= v
<1>1. v % Align \in 0 .. Align - 1
  BY AllocatorAssumption
<1> QED
  BY <1>1, AllocatorAssumption DEF align_up

\* What is put back of a block carved for an aligned request lies inside the
\* block, apart from the allocation and apart from each other.
LEMMA RemainderFacts ==
    ASSUME NEW b \in Block, NEW size \in Nat, Fits(b, size)
    PROVE  LET got == [start |-> align_up(b.start), size |-> size]
           IN  /\ got \in Block
               /\ Remainder(b, size) \subseteq Block
               /\ Bytes(got) \subseteq Bytes(b)
               /\ End(got) <= End(b)
               /\ \A r \in Remainder(b, size) :
                    Bytes(r) \subseteq Bytes(b) /\ End(r) <= End(b) /\ Disjoint(r, got)
               /\ \A r, s \in Remainder(b, size) : r # s => Disjoint(r, s)
<1> DEFINE a     == align_up(b.start)
           got   == [start |-> a, size |-> size]
           left  == [start |-> b.start, size |-> a - b.start]
           right == [start |-> a + size, size |-> End(b) - (a + size)]
<1>1. a \in Nat /\ a >= b.start /\ a + size <= End(b) /\ End(b) \in Nat
  BY AlignUpBounds DEF Block, Fits, End
<1>2. Remainder(b, size) = {r \in {left, right} : r.size > 0}
  BY DEF Remainder
<1> HIDE DEF a
<1>3. left \in Block /\ right \in Block /\ got \in Block
  BY <1>1 DEF Block, End
<1>4. End(left) = a /\ End(got) = a + size /\ End(right) = End(b)
  BY <1>1 DEF Block, End
<1>5. /\ Bytes(got) \subseteq Bytes(b)
      /\ Bytes(left) \subseteq Bytes(b)
      /\ Bytes(right) \subseteq Bytes(b)
  BY <1>1, <1>4 DEF Bytes, Block
<1>6. Disjoint(left, got) /\ Disjoint(right, got) /\ Disjoint(left, right) /\ Disjoint(right, left)
  BY <1>1, <1>4 DEF Bytes, Disjoint, Block
<1> QED
  BY <1>1, <1>2, <1>3, <1>4, <1>5, <1>6 DEF a

\* The runs of a set of blocks are blocks, cover only bytes the set covered, end
\* where some block of the set ends, and no two of them share a byte.
LEMMA CoalesceFacts ==
    ASSUME NEW F \in SUBSET Block
    PROVE  /\ Coalesce(F) \subseteq Block
           /\ \A r \in Coalesce(F) : \A p \in Bytes(r) : \E d \in F : p \in Bytes(d)
           /\ \A r \in Coalesce(F) : \E d \in F : End(r) = End(d)
           /\ \A r, s \in Coalesce(F) : r # s => Disjoint(r, s)
           /\ \A r, s \in Coalesce(F) : r # s => End(r) < s.start \/ End(s) < r.start
<1> DEFINE Run(b, c) == [start |-> b.start, size |-> End(c) - b.start]
<1>1. ASSUME NEW r \in Coalesce(F)
      PROVE  \E b, c \in F : IsRun(F, b, c) /\ r = Run(b, c)
  BY <1>1 DEF Coalesce
<1>2. ASSUME NEW b \in F, NEW c \in F, IsRun(F, b, c)
      PROVE  /\ Run(b, c) \in Block
             /\ End(Run(b, c)) = End(c)
             /\ Bytes(Run(b, c)) = b.start .. End(c) - 1
  BY <1>2 DEF IsRun, Block, End, Bytes
<1>3. ASSUME NEW b \in F, NEW c \in F, IsRun(F, b, c),
             NEW x \in F, NEW y \in F, IsRun(F, x, y), b.start = x.start, End(c) < End(y)
      PROVE  FALSE
  <2>1. End(c) \in x.start .. End(y) - 1
    BY <1>3 DEF IsRun, Block, End
  <2>2. PICK d \in F : End(c) \in Bytes(d)
    BY <1>3, <2>1 DEF IsRun
  <2>3. d.start <= End(c) /\ End(c) < End(d)
    BY <2>2 DEF Bytes, Block, End
  <2> QED
    BY <1>3, <2>3 DEF IsRun, Block, End
<1>4. ASSUME NEW b \in F, NEW c \in F, IsRun(F, b, c),
             NEW x \in F, NEW y \in F, IsRun(F, x, y), b.start < x.start
      PROVE  End(c) < x.start
  <2>1. SUFFICES ASSUME End(c) >= x.start PROVE FALSE
    BY DEF Block, End
  <2>2. CASE c.start < x.start
    BY <1>4, <2>1, <2>2 DEF IsRun, Block, End
  <2>3. CASE c.start >= x.start
    <3>1. x.start - 1 \in b.start .. End(c) - 1
      BY <1>4, <2>1 DEF Block, End
    <3>2. PICK d \in F : x.start - 1 \in Bytes(d)
      BY <1>4, <3>1 DEF IsRun
    <3>3. d.start < x.start /\ End(d) >= x.start
      BY <3>2 DEF Bytes, Block, End
    <3> QED
      BY <1>4, <3>3 DEF IsRun, Block, End
  <2> QED
    BY <2>2, <2>3 DEF Block
<1>5. Coalesce(F) \subseteq Block
  BY <1>1, <1>2
<1>6. \A r \in Coalesce(F) : \A p \in Bytes(r) : \E d \in F : p \in Bytes(d)
  <2> SUFFICES ASSUME NEW r \in Coalesce(F), NEW p \in Bytes(r)
               PROVE  \E d \in F : p \in Bytes(d)
    OBVIOUS
  <2>1. PICK b \in F, c \in F : IsRun(F, b, c) /\ r = Run(b, c)
    BY <1>1
  <2>2. p \in b.start .. End(c) - 1
    BY <2>1, <1>2
  <2> QED
    BY <2>1, <2>2 DEF IsRun
<1>7. \A r \in Coalesce(F) : \E d \in F : End(r) = End(d)
  BY <1>1, <1>2
<1>8. ASSUME NEW r \in Coalesce(F), NEW s \in Coalesce(F), r # s
      PROVE  Disjoint(r, s) /\ (End(r) < s.start \/ End(s) < r.start)
  <2>1. PICK b \in F, c \in F : IsRun(F, b, c) /\ r = Run(b, c)
    BY <1>1
  <2>2. PICK x \in F, y \in F : IsRun(F, x, y) /\ s = Run(x, y)
    BY <1>1
  <2>3. /\ Bytes(r) = b.start .. End(c) - 1 /\ Bytes(s) = x.start .. End(y) - 1
        /\ r.start = b.start /\ End(r) = End(c) /\ s.start = x.start /\ End(s) = End(y)
    BY <2>1, <2>2, <1>2
  <2>4. CASE b.start < x.start
    BY <1>4, <2>1, <2>2, <2>3, <2>4 DEF Disjoint, Block, End
  <2>5. CASE x.start < b.start
    BY <1>4, <2>1, <2>2, <2>3, <2>5 DEF Disjoint, Block, End
  <2>6. CASE b.start = x.start
    <3>1. End(c) # End(y)
      BY <1>8, <2>1, <2>2, <2>6
    <3> QED
      BY <1>3, <2>1, <2>2, <2>6, <3>1 DEF Block, End
  <2> QED
    BY <2>4, <2>5, <2>6 DEF Block
<1> QED
  BY <1>5, <1>6, <1>7, <1>8

\* Alloc keeps the types.
LEMMA AllocTypeOK ==
    ASSUME NEW size \in Nat, TypeOK, Alloc(size)
    PROVE  TypeOK'
<1>1. PICK b \in free :
        /\ Fits(b, size)
        /\ free' = (free \ {b}) \cup Remainder(b, size)
        /\ used' = [i \in (DOMAIN used) \cup {next_id} |->
                      IF i = next_id THEN [start |-> align_up(b.start), size |-> size]
                                     ELSE used[i]]
        /\ next_id' = NextId(next_id)
  BY DEF Alloc, IsFirstFit
<1>2. b \in Block
  BY DEF TypeOK
<1>3. /\ Remainder(b, size) \subseteq Block
      /\ [start |-> align_up(b.start), size |-> size] \in Block
  BY <1>1, <1>2, RemainderFacts
<1>4. next_id' \in 1 .. MaxId
  BY <1>1, AllocatorAssumption DEF TypeOK, NextId
<1> QED
  BY <1>1, <1>3, <1>4 DEF TypeOK

\* FreeById keeps the types.
LEMMA FreeTypeOK ==
    ASSUME NEW id, TypeOK, FreeById(id)
    PROVE  TypeOK'
<1>1. free \cup {used[id]} \in SUBSET Block
  BY DEF TypeOK, FreeById
<1>2. Coalesce(free \cup {used[id]}) \subseteq Block
  BY <1>1, CoalesceFacts
<1> QED
  BY <1>2 DEF TypeOK, FreeById

\* Renew keeps the types.
LEMMA RenewTypeOK == Renew => TypeOK'
  BY AllocatorAssumption DEF Renew, TypeOK, Block

\* Alloc keeps blocks apart: the split stays inside the block it splits.
LEMMA AllocNoOverlap ==
    ASSUME NEW size \in Nat, TypeOK, NoOverlap, Alloc(size)
    PROVE  NoOverlap'
<1> DEFINE got(b) == [start |-> align_up(b.start), size |-> size]
<1>1. PICK b \in free :
        /\ Fits(b, size)
        /\ free' = (free \ {b}) \cup Remainder(b, size)
        /\ used' = [i \in (DOMAIN used) \cup {next_id} |->
                      IF i = next_id THEN got(b) ELSE used[i]]
  BY DEF Alloc, IsFirstFit
<1>2. b \in Block
  BY DEF TypeOK
<1>3. /\ Bytes(got(b)) \subseteq Bytes(b)
      /\ End(got(b)) <= End(b)
      /\ \A r \in Remainder(b, size) :
           Bytes(r) \subseteq Bytes(b) /\ End(r) <= End(b) /\ Disjoint(r, got(b))
      /\ \A r, s \in Remainder(b, size) : r # s => Disjoint(r, s)
      /\ Remainder(b, size) \subseteq Block
      /\ got(b) \in Block
  BY <1>1, <1>2, RemainderFacts
<1> HIDE DEF got
<1>4. \A x \in free' : End(x) <= Total
  BY <1>1, <1>2, <1>3, AllocatorAssumption DEF NoOverlap, TypeOK, Block, End
<1>5. \A i \in DOMAIN used' : End(used'[i]) <= Total
  BY <1>1, <1>2, <1>3, AllocatorAssumption DEF NoOverlap, TypeOK, Block, End
<1>6. \A x, y \in free' : x # y => Disjoint(x, y)
  BY <1>1, <1>3 DEF NoOverlap, Disjoint
<1>7. \A i, j \in DOMAIN used' : i # j => Disjoint(used'[i], used'[j])
  BY <1>1, <1>3 DEF NoOverlap, Disjoint
<1>8. \A x \in free', i \in DOMAIN used' : Disjoint(x, used'[i])
  BY <1>1, <1>3 DEF NoOverlap, Disjoint
<1> QED
  BY <1>4, <1>5, <1>6, <1>7, <1>8 DEF NoOverlap, Disjoint, End, Bytes

\* FreeById keeps blocks apart: a merged block covers only bytes of the blocks it
\* merges, none of them live.
LEMMA FreeNoOverlap ==
    ASSUME NEW id, TypeOK, NoOverlap, FreeById(id)
    PROVE  NoOverlap'
<1> DEFINE F == free \cup {used[id]}
<1>1. /\ id \in DOMAIN used
      /\ free' = Coalesce(F)
      /\ used' = [i \in (DOMAIN used) \ {id} |-> used[i]]
  BY DEF FreeById
<1>2. F \in SUBSET Block
  BY <1>1 DEF TypeOK
<1>3. \A d \in F : End(d) <= Total
  BY <1>1 DEF NoOverlap
<1>4. \A d \in F, i \in DOMAIN used' : Disjoint(d, used'[i])
  BY <1>1 DEF NoOverlap
<1> HIDE DEF F
<1>5. /\ \A r \in Coalesce(F) : \A p \in Bytes(r) : \E d \in F : p \in Bytes(d)
      /\ \A r \in Coalesce(F) : \E d \in F : End(r) = End(d)
      /\ \A r, s \in Coalesce(F) : r # s => Disjoint(r, s)
  BY <1>2, CoalesceFacts
<1>6. \A x \in free' : End(x) <= Total
  BY <1>1, <1>3, <1>5
<1>7. \A i \in DOMAIN used' : End(used'[i]) <= Total
  BY <1>1 DEF NoOverlap
<1>8. \A x, y \in free' : x # y => Disjoint(x, y)
  BY <1>1, <1>5
<1>9. \A i, j \in DOMAIN used' : i # j => Disjoint(used'[i], used'[j])
  BY <1>1 DEF NoOverlap
<1>10. \A x \in free', i \in DOMAIN used' : Disjoint(x, used'[i])
  BY <1>1, <1>4, <1>5 DEF Disjoint
<1> QED
  BY <1>6, <1>7, <1>8, <1>9, <1>10 DEF NoOverlap, Disjoint, End, Bytes

\* A new arena is one free block.
LEMMA RenewNoOverlap == Renew => NoOverlap'
  BY AllocatorAssumption DEF Renew, NoOverlap, End

\* TypeOK: every reachable allocator state is well typed; in particular 0, the id
\* of a zeroed descriptor, is never an allocation, however often next_id wraps.
THEOREM TypeCorrect == Spec => []TypeOK
<1>1. New => TypeOK
  BY AllocatorAssumption DEF New, TypeOK, Block
<1>2. TypeOK /\ [Next]_allocVars => TypeOK'
  <2> SUFFICES ASSUME TypeOK, [Next]_allocVars PROVE TypeOK'
    OBVIOUS
  <2>1. ASSUME NEW size \in Sizes, Alloc(size) PROVE TypeOK'
    BY <2>1, AllocTypeOK, AllocatorAssumption
  <2>2. ASSUME NEW id \in 1 .. MaxId, FreeById(id) PROVE TypeOK'
    BY <2>2, FreeTypeOK
  <2>3. CASE Renew
    BY <2>3, RenewTypeOK
  <2>4. CASE UNCHANGED allocVars
    BY <2>4 DEF TypeOK, allocVars
  <2> QED
    BY <2>1, <2>2, <2>3, <2>4 DEF Next
<1> QED
  BY <1>1, <1>2, PTL DEF Spec

\* NoOverlap: no byte is handed out twice or offered while in use.  With TypeOK it
\* is inductive.
THEOREM NeverOverlaps == Spec => []NoOverlap
<1>1. New => NoOverlap
  BY AllocatorAssumption DEF New, NoOverlap, End
<1>2. TypeOK /\ NoOverlap /\ [Next]_allocVars => NoOverlap'
  <2> SUFFICES ASSUME TypeOK, NoOverlap, [Next]_allocVars PROVE NoOverlap'
    OBVIOUS
  <2>1. ASSUME NEW size \in Sizes, Alloc(size) PROVE NoOverlap'
    BY <2>1, AllocNoOverlap, AllocatorAssumption
  <2>2. ASSUME NEW id \in 1 .. MaxId, FreeById(id) PROVE NoOverlap'
    BY <2>2, FreeNoOverlap
  <2>3. CASE Renew
    BY <2>3, RenewNoOverlap
  <2>4. CASE UNCHANGED allocVars
    BY <2>4 DEF NoOverlap, Disjoint, End, Bytes, allocVars
  <2> QED
    BY <2>1, <2>2, <2>3, <2>4 DEF Next
<1> QED
  BY <1>1, <1>2, TypeCorrect, PTL DEF Spec

\* The free list is merged: two blocks touch at most at the place where a request of
\* size 0 was carved out, and there no aligned request begins in the first of them.
Before(b, c) == End(b) < c.start \/ (End(b) = c.start /\ c.start <= align_up(b.start))

Merged == \A b, c \in free : b # c => Before(b, c) \/ Before(c, b)

\* The least aligned position from v on.
LEMMA AlignUpLeast ==
    ASSUME NEW v \in Nat, NEW a \in Nat, a % Align = 0, v <= a
    PROVE  align_up(v) <= a
<1> DEFINE q == v \div Align
           p == a \div Align
<1>1. Align \in Nat \ {0}
  BY AllocatorAssumption
<1>2. /\ q \in Int /\ v = Align * q + (v % Align) /\ v % Align \in 0 .. Align - 1
      /\ p \in Int /\ a = Align * p + (a % Align)
  BY <1>1
<1> HIDE DEF q, p
<1>3. CASE v % Align = 0
  BY <1>3 DEF align_up
<1>4. CASE v % Align # 0
  <2>1. align_up(v) = Align * q + Align
    BY <1>1, <1>2, <1>4 DEF align_up
  <2>2. Align * p > Align * q
    BY <1>1, <1>2, <1>4
  <2>3. CASE p <= q
    <3>1. Align * (q - p) >= 0
      BY <1>1, <1>2, <2>3
    <3>2. Align * (q - p) = Align * q - Align * p
      BY <1>1, <1>2
    <3> QED
      BY <1>1, <1>2, <2>2, <3>1, <3>2
  <2>4. CASE p >= q + 1
    <3>1. Align * (p - (q + 1)) >= 0
      BY <1>1, <1>2, <2>4
    <3>2. Align * (p - (q + 1)) = Align * p - (Align * q + Align)
      BY <1>1, <1>2
    <3> QED
      BY <1>1, <1>2, <2>1, <3>1, <3>2
  <2> QED
    BY <1>2, <2>3, <2>4
<1> QED
  BY <1>3, <1>4

\* In a merged free list an aligned stretch of free bytes lies in one block.
LEMMA MergedMeansComplete == TypeOK /\ Merged => AllocComplete
<1> SUFFICES ASSUME TypeOK, Merged, NEW size \in Sizes \ {0}, NEW a \in 0 .. Total - size,
                    a % Align = 0, a .. a + size - 1 \subseteq Covered(free)
             PROVE  \E b \in free : Fits(b, size)
  BY DEF AllocComplete
<1>1. size \in Nat /\ size > 0 /\ a \in Nat /\ free \subseteq Block
  BY AllocatorAssumption DEF TypeOK
<1>2. ASSUME NEW x \in a .. a + size - 1 PROVE \E b \in free : x \in Bytes(b)
  BY <1>2 DEF Covered
<1>3. PICK b \in free : a \in Bytes(b)
  BY <1>1, <1>2
<1>4. /\ b.start \in Nat /\ b.size \in Nat /\ End(b) \in Nat
      /\ b.start <= a /\ a < End(b)
  BY <1>1, <1>3 DEF Block, Bytes, End
<1>5. align_up(b.start) <= a
  BY <1>1, <1>4, AlignUpLeast
<1>6. ASSUME a + size > End(b) PROVE FALSE
  <2>1. PICK c \in free : End(b) \in Bytes(c)
    BY <1>1, <1>2, <1>4, <1>6
  <2>2. c.start \in Nat /\ End(c) \in Nat /\ c.start <= End(b) /\ End(b) < End(c)
    BY <1>1, <1>4, <2>1 DEF Block, Bytes, End
  <2>3. Before(b, c) \/ Before(c, b)
    BY <2>2, <1>4 DEF Merged
  <2> QED
    BY <1>1, <1>4, <1>5, <2>2, <2>3, AlignUpBounds DEF Before
<1> QED
  BY <1>1, <1>4, <1>5, <1>6, AlignUpBounds DEF Fits

\* Carving a block leaves the list merged.
LEMMA AllocMerged ==
    ASSUME NEW size \in Nat, TypeOK, Merged, Alloc(size)
    PROVE  Merged'
<1>1. PICK b \in free : Fits(b, size) /\ free' = (free \ {b}) \cup Remainder(b, size)
  BY DEF Alloc, IsFirstFit
<1> DEFINE a == align_up(b.start)
           left == [start |-> b.start, size |-> a - b.start]
           right == [start |-> a + size, size |-> End(b) - (a + size)]
<1>2. /\ free \subseteq Block /\ b.start \in Nat /\ b.size \in Nat /\ End(b) \in Nat
      /\ a \in Nat /\ b.start <= a /\ a + size <= End(b)
  BY <1>1, AlignUpBounds DEF TypeOK, Block, End, Fits
<1> HIDE DEF a
<1>3. /\ left.start = b.start /\ End(left) = a
      /\ right.start = a + size /\ End(right) = End(b)
  BY <1>2 DEF End
<1>4. align_up(left.start) = a
  BY <1>3 DEF a
<1>5. /\ left.size > 0 => b.start < a
      /\ right.size > 0 => a + size < End(b)
  BY <1>2
<1>6. \A r \in Remainder(b, size) : (r = left \/ r = right) /\ r.size > 0
  BY DEF Remainder, a
<1> HIDE DEF left, right
<1>7. Before(left, right)
  BY <1>2, <1>3, <1>4 DEF Before
<1>8. ASSUME NEW c \in free, c # b, NEW r \in Remainder(b, size)
      PROVE  Before(c, r) \/ Before(r, c)
  <2>1. c.start \in Nat /\ End(c) \in Nat /\ align_up(c.start) \in Nat
    BY <1>2, AlignUpBounds DEF Block, End
  <2>2. Before(b, c) \/ Before(c, b)
    BY <1>8 DEF Merged
  <2>3. CASE r = left
    BY <1>2, <1>3, <1>4, <2>1, <2>2, <2>3 DEF Before, a
  <2>4. CASE r = right
    BY <1>2, <1>3, <1>5, <1>6, <2>1, <2>2, <2>4 DEF Before, a
  <2> QED
    BY <1>6, <2>3, <2>4
<1>9. ASSUME NEW r \in Remainder(b, size), NEW s \in Remainder(b, size), r # s
      PROVE  Before(r, s) \/ Before(s, r)
  BY <1>6, <1>7, <1>9
<1> QED
  BY <1>1, <1>8, <1>9 DEF Merged, Before, End

\* Freeing merges everything that touches.
LEMMA FreeMerged ==
    ASSUME NEW id, TypeOK, FreeById(id)
    PROVE  Merged'
<1>1. free' = Coalesce(free \cup {used[id]}) /\ free \cup {used[id]} \in SUBSET Block
  BY DEF FreeById, TypeOK
<1>2. \A r, s \in free' : r # s => End(r) < s.start \/ End(s) < r.start
  BY <1>1, CoalesceFacts
<1> QED
  BY <1>2 DEF Merged, Before, End

\* AllocComplete: freeing in any order leaves no two neighbours unmerged that a later
\* request would need together, so the writer drops or resets only for lack of room.
THEOREM AllocNeverGivesUp == Spec => []AllocComplete
<1>1. New => Merged
  BY DEF New, Merged
<1>2. TypeOK /\ Merged /\ [Next]_allocVars => Merged'
  <2> SUFFICES ASSUME TypeOK, Merged, [Next]_allocVars PROVE Merged'
    OBVIOUS
  <2>1. ASSUME NEW size \in Sizes, Alloc(size) PROVE Merged'
    BY <2>1, AllocMerged, AllocatorAssumption
  <2>2. ASSUME NEW id \in 1 .. MaxId, FreeById(id) PROVE Merged'
    BY <2>2, FreeMerged
  <2>3. CASE Renew
    BY <2>3 DEF Renew, Merged
  <2>4. CASE UNCHANGED allocVars
    BY <2>4 DEF Merged, Before, End, allocVars
  <2> QED
    BY <2>1, <2>2, <2>3, <2>4 DEF Next
<1> QED
  BY <1>1, <1>2, TypeCorrect, MergedMeansComplete, PTL DEF Spec

\* A non-empty set of naturals has a least element.
LEMMA LeastNatural ==
    ASSUME NEW T \in SUBSET Nat, T # {}
    PROVE  \E x \in T : \A y \in T : x <= y
<1> DEFINE Less == {q \in Nat \X Nat : q[1] < q[2]}
<1>1. IsWellFoundedOn(Less, Nat)
  BY NatLessThanWellFounded DEF OpToRel
<1> HIDE DEF Less
<1>2. PICK x \in T : \A y \in T : ~(<<y, x>> \in Less)
  BY <1>1, WFMin
<1>3. ASSUME NEW y \in T, y < x PROVE FALSE
  BY <1>2, <1>3 DEF Less
<1> QED
  BY <1>3

\* A non-empty set of naturals with an upper bound has a greatest element.
LEMMA GreatestNatural ==
    ASSUME NEW N \in Nat, NEW T \in SUBSET (0 .. N), T # {}
    PROVE  \E x \in T : \A y \in T : y <= x
<1> DEFINE Up == {u \in Nat : \A y \in T : y <= u}
<1>1. N \in Up
  OBVIOUS
<1>2. PICK u \in Up : \A w \in Up : u <= w
  BY <1>1, LeastNatural
<1>3. CASE u \in T
  BY <1>3
<1>4. CASE u \notin T
  <2>1. \A y \in T : y <= u - 1
    BY <1>4
  <2>2. PICK y \in T : y <= u - 1
    BY <2>1
  <2>3. u - 1 \in Up
    BY <2>1, <2>2
  <2> QED
    BY <1>2, <2>3
<1> QED
  BY <1>3, <1>4

\* The first block of the stretch of F that holds byte p: no block of F that begins
\* before it reaches it.
LEMMA RunBegins ==
    ASSUME NEW F \in SUBSET Block, NEW d \in F, NEW p \in Bytes(d)
    PROVE  \E b \in F : /\ b.start <= p
                        /\ \A q \in b.start .. p : \E c \in F : q \in Bytes(c)
                        /\ \A c \in F : c.start < b.start => End(c) < b.start
<1> DEFINE Reaches(b) == b.start <= p /\ \A q \in b.start .. p : \E c \in F : q \in Bytes(c)
           Starts == {n \in Nat : \E b \in F : n = b.start /\ Reaches(b)}
<1>1. p \in Nat /\ d.start \in Starts
  BY DEF Block, Bytes, End
<1>2. PICK n \in Starts : \A m \in Starts : n <= m
  BY <1>1, LeastNatural
<1>3. PICK b \in F : n = b.start /\ Reaches(b)
  BY <1>2
<1>4. ASSUME NEW c \in F, c.start < b.start, End(c) >= b.start PROVE FALSE
  <2>1. b.start \in Nat /\ c.start \in Nat /\ End(c) \in Nat /\ c.start <= p
    BY <1>1, <1>3, <1>4 DEF Block, End
  <2>2. ASSUME NEW q \in c.start .. p PROVE \E e \in F : q \in Bytes(e)
    <3>1. CASE q < b.start
      BY <1>4, <2>1, <3>1 DEF Bytes
    <3>2. CASE q >= b.start
      BY <1>1, <1>3, <2>1, <3>2
    <3> QED
      BY <1>1, <2>1, <3>1, <3>2
  <2>3. c.start \in Starts
    BY <2>1, <2>2
  <2> QED
    BY <1>2, <1>3, <1>4, <2>1, <2>3
<1>5. \A c \in F : End(c) \in Nat /\ b.start \in Nat
  BY <1>3 DEF Block, End
<1> QED
  BY <1>3, <1>4, <1>5

\* The last block of that stretch: no block of F that overlaps or touches the stretch
\* ends after it.
LEMMA RunEnds ==
    ASSUME NEW N \in Nat, NEW F \in SUBSET Block, \A c \in F : End(c) <= N,
           NEW d \in F, NEW p \in Bytes(d)
    PROVE  \E b \in F : /\ p < End(b)
                        /\ \A q \in p .. End(b) - 1 : \E c \in F : q \in Bytes(c)
                        /\ \A c \in F : c.start <= End(b) => End(c) <= End(b)
<1> DEFINE Reaches(b) == p < End(b) /\ \A q \in p .. End(b) - 1 : \E c \in F : q \in Bytes(c)
           Ends == {n \in 0 .. N : \E b \in F : n = End(b) /\ Reaches(b)}
<1>1. p \in Nat /\ End(d) \in 0 .. N /\ Reaches(d)
  BY DEF Block, Bytes, End
<1>2. End(d) \in Ends
  BY <1>1
<1>3. PICK n \in Ends : \A m \in Ends : m <= n
  BY <1>2, GreatestNatural
<1>4. PICK b \in F : n = End(b) /\ Reaches(b)
  BY <1>3
<1>5. ASSUME NEW c \in F, c.start <= End(b), End(c) > End(b) PROVE FALSE
  <2>1. End(b) \in Nat /\ c.start \in Nat /\ End(c) \in 0 .. N /\ p < End(c)
    BY <1>1, <1>4, <1>5 DEF Block, End
  <2>2. ASSUME NEW q \in p .. End(c) - 1 PROVE \E e \in F : q \in Bytes(e)
    <3>1. CASE q >= End(b)
      BY <1>1, <1>5, <2>1, <3>1 DEF Bytes
    <3>2. CASE q < End(b)
      BY <1>1, <1>4, <2>1, <3>2
    <3> QED
      BY <1>1, <2>1, <3>1, <3>2
  <2>3. End(c) \in Ends
    BY <2>1, <2>2
  <2> QED
    BY <1>3, <1>4, <1>5, <2>1, <2>3
<1>6. \A c \in F : End(c) \in Nat /\ End(b) \in Nat
  BY <1>4 DEF Block, End
<1> QED
  BY <1>4, <1>5, <1>6

\* Merging loses no byte: every byte of a set of blocks lies in one of its runs.
LEMMA CoalesceCovers ==
    ASSUME NEW N \in Nat, NEW F \in SUBSET Block, \A c \in F : End(c) <= N
    PROVE  Covered(F) \subseteq Covered(Coalesce(F))
<1> SUFFICES ASSUME NEW d \in F, NEW p \in Bytes(d)
             PROVE  \E r \in Coalesce(F) : p \in Bytes(r)
  BY DEF Covered
<1>1. PICK b \in F : /\ b.start <= p
                     /\ \A q \in b.start .. p : \E c \in F : q \in Bytes(c)
                     /\ \A c \in F : c.start < b.start => End(c) < b.start
  BY RunBegins
<1>2. PICK e \in F : /\ p < End(e)
                     /\ \A q \in p .. End(e) - 1 : \E c \in F : q \in Bytes(c)
                     /\ \A c \in F : c.start <= End(e) => End(c) <= End(e)
  BY RunEnds
<1>3. p \in Nat /\ b.start \in Nat /\ End(e) \in Nat
  BY DEF Block, Bytes, End
<1>4. \A q \in b.start .. End(e) - 1 : \E c \in F : q \in Bytes(c)
  BY <1>1, <1>2, <1>3
<1>5. IsRun(F, b, e)
  BY <1>1, <1>2, <1>3, <1>4 DEF IsRun
<1> DEFINE r == [start |-> b.start, size |-> End(e) - b.start]
<1>6. r \in Coalesce(F)
  <2>1. <<b, e>> \in {q \in F \X F : IsRun(F, q[1], q[2])}
    BY <1>5
  <2> QED
    BY <2>1 DEF Coalesce
<1>7. p \in Bytes(r)
  BY <1>1, <1>2, <1>3 DEF Bytes, End
<1> QED
  BY <1>6, <1>7

\* A block carved for a request is all there: in the allocation or put back.
LEMMA RemainderCovers ==
    ASSUME NEW b \in Block, NEW size \in Nat, Fits(b, size)
    PROVE  Bytes(b) \subseteq
             Bytes([start |-> align_up(b.start), size |-> size]) \cup Covered(Remainder(b, size))
<1> DEFINE a     == align_up(b.start)
           got   == [start |-> a, size |-> size]
           left  == [start |-> b.start, size |-> a - b.start]
           right == [start |-> a + size, size |-> End(b) - (a + size)]
<1>1. a \in Nat /\ a >= b.start /\ a + size <= End(b) /\ End(b) \in Nat /\ b.start \in Nat
  BY AlignUpBounds DEF Block, Fits, End
<1>2. Remainder(b, size) = {r \in {left, right} : r.size > 0}
  BY DEF Remainder
<1> HIDE DEF a
<1> SUFFICES ASSUME NEW p \in Bytes(b), p \notin Bytes(got)
             PROVE  \E r \in Remainder(b, size) : p \in Bytes(r)
  BY DEF Covered, a
<1>3. p \in Int /\ b.start <= p /\ p < End(b) /\ (p < a \/ p >= a + size)
  BY <1>1 DEF Bytes, End
<1>4. CASE p < a
  <2>1. p \in Bytes(left) /\ left.size > 0
    BY <1>1, <1>3, <1>4 DEF Bytes, End
  <2> QED
    BY <1>2, <2>1
<1>5. CASE p >= a + size
  <2>1. p \in Bytes(right) /\ right.size > 0
    BY <1>1, <1>3, <1>5 DEF Bytes, End
  <2> QED
    BY <1>2, <2>1
<1> QED
  BY <1>3, <1>4, <1>5

Known == Covered(free) \cup Covered(Live)

\* Alloc under a fresh id keeps every byte in the books.
LEMMA AllocKeepsBytes ==
    ASSUME NEW size \in Nat, TypeOK, Alloc(size), next_id \notin DOMAIN used
    PROVE  Known \subseteq Known'
<1> DEFINE got(b) == [start |-> align_up(b.start), size |-> size]
<1>1. PICK b \in free :
        /\ Fits(b, size)
        /\ free' = (free \ {b}) \cup Remainder(b, size)
        /\ used' = [i \in (DOMAIN used) \cup {next_id} |->
                      IF i = next_id THEN got(b) ELSE used[i]]
  BY DEF Alloc, IsFirstFit
<1>2. Bytes(b) \subseteq Bytes(got(b)) \cup Covered(Remainder(b, size))
  BY <1>1, RemainderCovers DEF TypeOK
<1> HIDE DEF got
<1>3. Covered(Remainder(b, size)) \subseteq Covered(free')
  BY <1>1 DEF Covered
<1>4. got(b) \in Live' /\ Live \subseteq Live'
  BY <1>1 DEF Live
<1>5. Bytes(got(b)) \subseteq Covered(Live') /\ Covered(Live) \subseteq Covered(Live')
  BY <1>4 DEF Covered
<1>6. ASSUME NEW c \in free PROVE Bytes(c) \subseteq Covered(free') \cup Covered(Live')
  <2>1. CASE c = b
    BY <1>2, <1>3, <1>5, <2>1
  <2>2. CASE c # b
    <3>1. c \in free'
      BY <1>1, <2>2
    <3> QED
      BY <3>1 DEF Covered
  <2> QED
    BY <2>1, <2>2
<1>7. Covered(free) \subseteq Covered(free') \cup Covered(Live')
  BY <1>6 DEF Covered
<1>8. Known' = Covered(free') \cup Covered(Live')
  BY DEF Known, Covered, Bytes, End
<1> QED
  BY <1>5, <1>7, <1>8 DEF Known

\* FreeById keeps every byte in the books: the freed block joins the free list whole.
LEMMA FreeKeepsBytes ==
    ASSUME NEW id, TypeOK, NoOverlap, FreeById(id)
    PROVE  Known \subseteq Known'
<1> DEFINE F == free \cup {used[id]}
<1>1. /\ id \in DOMAIN used
      /\ free' = Coalesce(F)
      /\ used' = [i \in (DOMAIN used) \ {id} |-> used[i]]
  BY DEF FreeById
<1>2. F \in SUBSET Block /\ (\A c \in F : End(c) <= Total) /\ Total \in Nat
  BY <1>1, AllocatorAssumption DEF TypeOK, NoOverlap
<1>3. Covered(F) \subseteq Covered(free')
  BY <1>1, <1>2, CoalesceCovers
<1>4. Covered(free) \subseteq Covered(F) /\ Bytes(used[id]) \subseteq Covered(F)
  BY DEF Covered
<1>5. ASSUME NEW i \in DOMAIN used
      PROVE  Bytes(used[i]) \subseteq Covered(free') \cup Covered(Live')
  <2>1. CASE i = id
    BY <1>3, <1>4, <2>1
  <2>2. CASE i # id
    <3>1. used[i] \in Live'
      BY <1>1, <2>2 DEF Live
    <3> QED
      BY <3>1 DEF Covered
  <2> QED
    BY <2>1, <2>2
<1>6. Covered(Live) \subseteq Covered(free') \cup Covered(Live')
  BY <1>5 DEF Live, Covered
<1>7. Known' = Covered(free') \cup Covered(Live')
  BY DEF Known, Covered, Bytes, End
<1> QED
  BY <1>3, <1>4, <1>6, <1>7 DEF Known

\* A new arena has every byte in one free block.
LEMMA RenewKeepsBytes ==
    ASSUME TypeOK, NoOverlap, Renew
    PROVE  Known \subseteq Known'
<1> DEFINE whole == [start |-> 0, size |-> Total]
<1>1. Bytes(whole) = 0 .. Total - 1
  BY AllocatorAssumption DEF Bytes, End
<1>2. \A b \in Block : End(b) <= Total => Bytes(b) \subseteq 0 .. Total - 1
  BY AllocatorAssumption DEF Bytes, End, Block
<1>3. Covered(free) \subseteq 0 .. Total - 1
  BY <1>2 DEF TypeOK, NoOverlap, Covered
<1>4. Covered(Live) \subseteq 0 .. Total - 1
  BY <1>2 DEF TypeOK, NoOverlap, Covered, Live
<1>5. Covered(free') = Bytes(whole)
  BY DEF Renew, Covered
<1>6. Known' = Covered(free') \cup Covered(Live')
  BY DEF Known, Covered, Bytes, End
<1> QED
  BY <1>1, <1>3, <1>4, <1>5, <1>6 DEF Known

\* LostOnlyByIdReuse: no sequence of allocations and frees leaks a byte of the arena,
\* unless next_id wraps onto an allocation that is still live.
THEOREM NoByteLost == Spec => LostOnlyByIdReuse
<1>1. TypeOK /\ NoOverlap /\ [Next]_allocVars
        => [ \/ Covered(free) \cup Covered(Live) \subseteq (Covered(free) \cup Covered(Live))'
             \/ next_id \in DOMAIN used ]_allocVars
  <2> SUFFICES ASSUME TypeOK, NoOverlap, Next, next_id \notin DOMAIN used
               PROVE  Known \subseteq Known'
    BY DEF Known
  <2>1. ASSUME NEW size \in Sizes, Alloc(size) PROVE Known \subseteq Known'
    BY <2>1, AllocKeepsBytes, AllocatorAssumption
  <2>2. ASSUME NEW id \in 1 .. MaxId, FreeById(id) PROVE Known \subseteq Known'
    BY <2>2, FreeKeepsBytes
  <2>3. CASE Renew
    BY <2>3, RenewKeepsBytes
  <2> QED
    BY <2>1, <2>2, <2>3 DEF Next
<1> QED
  BY <1>1, TypeCorrect, NeverOverlaps, PTL DEF Spec, LostOnlyByIdReuse

================================================================================
