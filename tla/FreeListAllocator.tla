--------------------------- MODULE FreeListAllocator ---------------------------
(***************************************************************************)
(* The arena allocator of allocator.rs: a first-fit free list over the     *)
(* bytes 0 .. Total-1 of the payload arena, and the table of live          *)
(* allocations keyed by a u32 id.  The free list is modelled as the SET of *)
(* its blocks; FreeListVec runs the code's Vec beside it and checks that   *)
(* the two agree.  What the set form leaves out is only the order of the   *)
(* Vec, which the code keeps sorted by start.                              *)
(***************************************************************************)
EXTENDS Integers

CONSTANTS Total,    \* arena_size, in bytes
          Align,    \* the alignment of every request (allocator_align, 64)
          Sizes,    \* the request sizes considered
          MaxId     \* the last id before next_id wraps (u32::MAX in the code)

ASSUME AllocatorAssumption ==
    /\ Total \in Nat
    /\ Align \in Nat \ {0}
    /\ Sizes \subseteq Nat
    /\ MaxId \in Nat \ {0}

VARIABLES free,     \* the blocks of the free list
          used,     \* id -> block, the live allocations
          next_id   \* the id of the next allocation

allocVars == <<free, used, next_id>>

--------------------------------------------------------------------------------
Block == [start : Nat, size : Nat]

End(b) == b.start + b.size
Bytes(b) == b.start .. End(b) - 1
Covered(F) == UNION {Bytes(b) : b \in F}

align_up(v) == IF v % Align = 0 THEN v ELSE v + (Align - (v % Align))

Fits(b, size) == align_up(b.start) + size <= End(b)

\* The scan over the sorted list stops at the first block that fits.
IsFirstFit(b, size) ==
    /\ b \in free
    /\ Fits(b, size)
    /\ \A c \in free : Fits(c, size) => b.start <= c.start

\* Fault: the tail is measured from the block's start, not the aligned start.
Remainder_TailFromStart(b, size) ==
    LET a == align_up(b.start)
    IN  { r \in { [start |-> b.start, size |-> a - b.start],
                  [start |-> b.start + size, size |-> End(b) - (b.start + size)] } : r.size > 0 }

\* Fault: the gap before the aligned start is not put back.
Remainder_NoGap(b, size) ==
    LET a == align_up(b.start)
    IN  { r \in { [start |-> a + size, size |-> End(b) - (a + size)] } : r.size > 0 }

\* What is put back of block b once an aligned `size` is carved out of it: the
\* gap before the allocation and the tail after it, each only if not empty.
Remainder(b, size) ==
    LET a == align_up(b.start)
    IN  { r \in { [start |-> b.start, size |-> a - b.start],
                  [start |-> a + size, size |-> End(b) - (a + size)] } : r.size > 0 }

\* Fault: wrapping_add(1) without max(1).
NextId_Zero(id) == IF id = MaxId THEN 0 ELSE id + 1

\* u32: next_id.wrapping_add(1).max(1), so 0 is never an id.
NextId(id) == IF id = MaxId THEN 1 ELSE id + 1

\* Blocks b and c are the first and the last of a run of F, that is of a
\* longest stretch of blocks of F each overlapping or touching the next.
IsRun(F, b, c) ==
    /\ b.start <= End(c)
    /\ \A d \in F : d.start < b.start => End(d) < b.start
    /\ \A d \in F : d.start <= End(c) => End(d) <= End(c)
    /\ \A p \in b.start .. End(c) - 1 : \E d \in F : p \in Bytes(d)

\* Fault: the freed block is pushed and never merged.
Coalesce_PushOnly(F) == F

\* The free list after the merge loop: one block per run.
Coalesce(F) ==
    { [start |-> q[1].start, size |-> End(q[2]) - q[1].start] :
        q \in { p \in F \X F : IsRun(F, p[1], p[2]) } }

--------------------------------------------------------------------------------
New ==
    /\ free = {[start |-> 0, size |-> Total]}
    /\ used = [i \in {} |-> [start |-> 0, size |-> 0]]
    /\ next_id = 1

\* A live entry under next_id is overwritten: BTreeMap::insert, result unused.
Alloc(size) ==
    \E b \in free :
        /\ IsFirstFit(b, size)
        /\ free' = (free \ {b}) \cup Remainder(b, size)
        /\ used' = [i \in (DOMAIN used) \cup {next_id} |->
                      IF i = next_id THEN [start |-> align_up(b.start), size |-> size]
                                     ELSE used[i]]
        /\ next_id' = NextId(next_id)

FreeById(id) ==
    /\ id \in DOMAIN used
    /\ free' = Coalesce(free \cup {used[id]})
    /\ used' = [i \in (DOMAIN used) \ {id} |-> used[i]]
    /\ UNCHANGED next_id

\* The writer replaces the allocator by a new one (reset_allocator_state).
Renew ==
    /\ free' = {[start |-> 0, size |-> Total]}
    /\ used' = [i \in {} |-> [start |-> 0, size |-> 0]]
    /\ next_id' = 1

Next ==
    \/ \E size \in Sizes : Alloc(size)
    \/ \E id \in 1 .. MaxId : FreeById(id)
    \/ Renew

Spec == New /\ [][Next]_allocVars

--------------------------------------------------------------------------------
Live == {used[i] : i \in DOMAIN used}

\* Type invariant: blocks have natural bounds and ids stay in the id range, so 0
\* (the id of a zeroed descriptor) never names an allocation.
TypeOK ==
    /\ free \subseteq Block
    /\ DOMAIN used \subseteq 1 .. MaxId
    /\ \A i \in DOMAIN used : used[i] \in Block
    /\ next_id \in 1 .. MaxId

Disjoint(b, c) == \A p \in Bytes(b) : p \notin Bytes(c)

\* No byte of the arena is given out twice, nor given out while the free list
\* still offers it, and no block leaves the arena: alloc's split and the merge in
\* insert_and_coalesce keep the live and the free blocks apart, whatever the
\* order of allocations and frees, ids wrapping around included.
NoOverlap ==
    /\ \A b \in free : End(b) <= Total
    /\ \A i \in DOMAIN used : End(used[i]) <= Total
    /\ \A b, c \in free : b # c => Disjoint(b, c)
    /\ \A i, j \in DOMAIN used : i # j => Disjoint(used[i], used[j])
    /\ \A b \in free, i \in DOMAIN used : Disjoint(b, used[i])

\* alloc answers None only when the arena holds no aligned stretch of free bytes
\* of that size: freeing in any order leaves no two neighbours unmerged that a
\* later request would need together.
AllocComplete ==
    \A size \in Sizes \ {0} :
        (\E a \in 0 .. Total - size :
            a % Align = 0 /\ a .. a + size - 1 \subseteq Covered(free))
        => \E b \in free : Fits(b, size)

\* Bytes leave the allocator's books (neither free nor live) only by an
\* allocation whose id is still live, after next_id went all the way round:
\* `used.insert` then forgets the older block.
LostOnlyByIdReuse ==
    [][ \/ Covered(free) \cup Covered(Live) \subseteq (Covered(free) \cup Covered(Live))'
        \/ next_id \in DOMAIN used ]_allocVars

================================================================================
