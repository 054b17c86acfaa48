------------------------------ MODULE FreeListVec ------------------------------
(***************************************************************************)
(* The free list as allocator.rs keeps it, a Vec of (start, len) scanned   *)
(* by index, split in place, and merged by sort and a single pass; run in  *)
(* step with the set form of FreeListAllocator on the same calls.          *)
(***************************************************************************)
EXTENDS FreeListAllocator, Sequences, Functions

VARIABLE vec        \* Vec<(u64, u64)>, in list order

vecVars == <<allocVars, vec>>

\* The index the while loop of alloc stops at (some block fits).
FitIndex(size) ==
    CHOOSE k \in 1 .. Len(vec) :
        Fits(vec[k], size) /\ \A j \in 1 .. k - 1 : ~Fits(vec[j], size)

\* if len > 0 { insert(idx, block) }
Keep(b) == IF b.size > 0 THEN <<b>> ELSE <<>>

\* remove(idx), then insert(idx, right) and insert(idx, left) when not empty.
VecAlloc(size) ==
    LET k     == FitIndex(size)
        a     == align_up(vec[k].start)
        left  == [start |-> vec[k].start, size |-> a - vec[k].start]
        right == [start |-> a + size, size |-> End(vec[k]) - (a + size)]
    IN  SubSeq(vec, 1, k - 1) \o Keep(left) \o Keep(right) \o SubSeq(vec, k + 1, Len(vec))

\* sort_by_key is stable: blocks that start together (one is empty) keep their order.
Precedes(s, i, j) == s[i].start < s[j].start \/ (s[i].start = s[j].start /\ i < j)

SortByStart(s) ==
    LET order == CHOOSE p \in [1 .. Len(s) -> 1 .. Len(s)] :
                     \A i, j \in 1 .. Len(s) : i < j => Precedes(s, p[i], p[j])
    IN  [k \in 1 .. Len(s) |-> s[order[k]]]

\* Fault: blocks that only touch are not merged.
Grow_StrictOverlap(merged, b) ==
    LET last == merged[Len(merged)]
        end  == IF End(b) >= End(last) THEN End(b) ELSE End(last)
    IN  IF merged # <<>> /\ b.start < End(last)
        THEN [merged EXCEPT ![Len(merged)].size = end - last.start]
        ELSE Append(merged, b)

\* One turn of the merge loop: the last merged block grows while the next one starts at
\* or before its end.
Grow(merged, b) ==
    LET last == merged[Len(merged)]
        end  == IF End(b) >= End(last) THEN End(b) ELSE End(last)
    IN  IF merged # <<>> /\ b.start <= End(last)
        THEN [merged EXCEPT ![Len(merged)].size = end - last.start]
        ELSE Append(merged, b)

\* The merged list after each turn.
MergePass(sorted) ==
    LET merged[n \in 0 .. Len(sorted)] ==
            IF n = 0 THEN <<>> ELSE Grow(merged[n - 1], sorted[n])
    IN  merged

VecFree(id) ==
    LET sorted == SortByStart(Append(vec, used[id]))
    IN  MergePass(sorted)[Len(sorted)]

VecInit == New /\ vec = <<[start |-> 0, size |-> Total]>>

VecAllocStep(size) == Alloc(size) /\ vec' = VecAlloc(size)
VecFreeStep(id) == FreeById(id) /\ vec' = VecFree(id)
VecRenewStep == Renew /\ vec' = <<[start |-> 0, size |-> Total]>>

VecNext ==
    \/ \E size \in Sizes : VecAllocStep(size)
    \/ \E id \in 1 .. MaxId : VecFreeStep(id)
    \/ VecRenewStep

VecSpec == VecInit /\ [][VecNext]_vecVars

\* The Vec holds exactly the blocks of the set form, sorted by start without
\* repetition, and the index scan finds a fitting block whenever the set form
\* does and the same one: the index loop, the in-place split and the sort-and-merge pass
\* compute what FreeListAllocator states.
VecAgrees ==
    /\ Range(vec) = free
    /\ \A j, k \in 1 .. Len(vec) : j < k => vec[j].start < vec[k].start

================================================================================
