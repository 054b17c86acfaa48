---------------------------- MODULE TransportProofs -----------------------------
(***************************************************************************)
(* For every ring capacity, arena and set of leases and buffers: the types *)
(* of the transport's state; while clean, the ring bounds; while clean,    *)
(* one owner for each allocation; how large an arena is large enough;      *)
(* while clean, that a frame queued or held downstream stays as it was     *)
(* published; that the transport implements FrameChannel; and, when no     *)
(* consumer ever attaches, that what is left in the ring is readable.      *)
(***************************************************************************)
EXTENDS Transport, FreeListAllocatorProofs, FiniteSetTheorems, Sequences, SequenceTheorems

--------------------------------------------------------------------------------
(***************************************************************************)
(* Types.                                                                  *)
(***************************************************************************)

Busy == {"alloc", "drop", "reset_ready_tail", "reset_rec_head", "reset_rec_tail",
         "retry", "copy", "push", "slot"}

\* The values of the two calls' locals.
WriteLocals == [lease : Leases \cup {None}, size : Nat, publish : BOOLEAN, pos : Nat]
ReadLocals  == [latest : BOOLEAN, head : Nat, cur : Nat, chosen : Nat, newtail : Nat,
                rec : Nat, desc : Desc, wrap : Wraps \cup {None}]

\* The types, by owner.  What TransportTypeOK lacks to be inductive is in WriterOK:
\* a call that allocates or publishes names a memory, and from the copy on that
\* memory has its lease.
HeaderOK == ready_head \in Nat /\ ready_tail \in Nat /\ rec_head \in Nat /\ rec_tail \in Nat

RegionOK ==
    /\ ready \in [0 .. ReadyCap - 1 -> Desc]
    /\ recycle \in [0 .. RecCap - 1 -> Nat]
    /\ arena \in [0 .. Total - 1 -> Nat]

WriterOK ==
    /\ lease \in [Leases -> Lease \cup {None}]
    /\ wpc \in {"idle", "alloc", "drop", "reset_ready_tail", "reset_rec_head",
                "reset_rec_tail", "retry", "copy", "push", "slot",
                "drain", "drain_store"}
    /\ wreg \in WriteLocals
    /\ frames \in Nat
    /\ wpc \in Busy => wreg.lease \in Leases
    /\ wpc \in {"copy", "push", "slot"} => lease[wreg.lease] # None

ReaderOK ==
    /\ held \in [Wraps -> Desc \cup {None}]
    /\ rpc \in {"detached", "attach", "idle", "rx_tail", "rx_drop", "rx_slot",
                "rx_read", "rx_take", "rc_spin", "rc_slot", "poisoned"}
    /\ rreg \in ReadLocals
    /\ attaches \in Nat

HistoryOK == taken \in Nat /\ clean \in BOOLEAN

TypeInv == TypeOK /\ HeaderOK /\ RegionOK /\ WriterOK /\ ReaderOK /\ HistoryOK

LEMMA TypeInvImplies == TypeInv => TransportTypeOK
BY DEF TypeInv, HeaderOK, RegionOK, WriterOK, ReaderOK, HistoryOK, TransportTypeOK,
       WriteLocals, ReadLocals

\* Writing a value of the right type anywhere keeps a ring's or a table's type.
LEMMA WriteType ==
    ASSUME NEW S, NEW T, NEW f \in [S -> T], NEW k, NEW v \in T
    PROVE  [f EXCEPT ![k] = v] \in [S -> T]
OBVIOUS

\* The locals of an idle reader and of an idle writer are well typed.
LEMMA LocalsType ==
    /\ ZeroDesc \in Desc
    /\ NoWrite \in WriteLocals
    /\ NoRead \in ReadLocals
BY DEF ZeroDesc, Desc, NoWrite, WriteLocals, NoRead, ReadLocals

LEMMA ReadLocalsFields ==
    ASSUME NEW r \in ReadLocals
    PROVE  /\ r.head \in Nat /\ r.cur \in Nat /\ r.chosen \in Nat /\ r.newtail \in Nat
           /\ r.rec \in Nat /\ r.desc \in Desc /\ r.desc.id \in Nat
BY DEF ReadLocals, Desc

\* The descriptor publish_lease writes is well formed.
LEMMA PublishedType ==
    ASSUME TypeInv, wpc = "slot"
    PROVE  Published \in Desc
<1>1. wreg.lease \in Leases /\ lease[wreg.lease] \in Lease /\ wreg.pos \in Nat /\ frames \in Nat
  BY DEF TypeInv, WriterOK, Busy, WriteLocals
<1> QED
  BY <1>1 DEF Published, Desc, Lease

\* A descriptor put together from fields of descriptors is one.
LEMMA MixType ==
    ASSUME NEW a \in Desc, NEW b \in Desc, NEW c \in Desc, NEW d \in Desc, NEW e \in Desc
    PROVE  [seq |-> a.seq, id |-> b.id, off |-> c.off, len |-> d.len, pts |-> e.pts] \in Desc
BY DEF Desc

\* Whatever a read of a ready slot returns, it is a descriptor.
LEMMA ReadySlotType ==
    ASSUME TypeInv, NEW p \in Nat
    PROVE  ReadySlotReads(ReadySlot(p)) \subseteq Desc
<1>1. ReadySlot(p) \in 0 .. ReadyCap - 1
  BY TransportAssumption DEF ReadySlot
<1> DEFINE s == ReadySlot(p)
           both == {ready[s], Published}
<1>2. ready[s] \in Desc
  BY <1>1 DEF TypeInv, RegionOK
<1> HIDE DEF s
<1>3. CASE ~(wpc = "slot" /\ s = ReadySlot(wreg.pos))
  <2>1. ReadySlotReads(s) = {ready[s]}
    BY <1>3 DEF ReadySlotReads
  <2> QED
    BY <1>2, <2>1 DEF s
<1>4. CASE wpc = "slot" /\ s = ReadySlot(wreg.pos)
  <2>1. \A a \in both : a \in Desc
    BY <1>2, <1>4, PublishedType
  <2>2. ReadySlotReads(s) =
          {[seq |-> a.seq, id |-> b.id, off |-> c.off, len |-> d.len, pts |-> e.pts] :
             a \in both, b \in both, c \in both, d \in both, e \in both}
    BY <1>4 DEF ReadySlotReads
  <2> HIDE DEF both
  <2>3. \A a, b, c, d, e \in both :
          [seq |-> a.seq, id |-> b.id, off |-> c.off, len |-> d.len, pts |-> e.pts] \in Desc
    BY <2>1, MixType
  <2>4. ReadySlotReads(s) \subseteq Desc
    BY <2>2, <2>3
  <2> QED
    BY <2>4 DEF s
<1> QED
  BY <1>3, <1>4

\* The second newest position is a counter value also when head - 2 wraps.
LEMMA ChosenType ==
    ASSUME NEW head \in Nat, NEW tail \in Nat
    PROVE  Chosen(head, tail) \in Nat /\ NewTail(head, tail) \in Nat
<1>1. U64 \in Nat /\ U64 >= 2
  BY TransportAssumption
<1> QED
  BY <1>1 DEF Chosen, NewTail, wrapping_sub, saturating_sub

LEMMA InitType == Init => TypeInv
<1> SUFFICES ASSUME Init PROVE TypeInv
  OBVIOUS
<1>1. TypeOK
  BY AllocatorAssumption DEF Init, WriterInit, New, TypeOK, Block
<1>2. HeaderOK
  BY DEF Init, WriterInit, HeaderOK
<1>3. RegionOK
  BY LocalsType DEF Init, WriterInit, RegionOK
<1>4. WriterOK
  BY LocalsType DEF Init, WriterInit, WriterOK, Busy
<1>5. ReaderOK
  BY LocalsType DEF Init, ReaderInit, ReaderOK
<1>6. HistoryOK
  BY DEF Init, HistoryOK
<1> QED
  BY <1>1, <1>2, <1>3, <1>4, <1>5, <1>6 DEF TypeInv

\* Every step of either process, and the consumer's death, keeps the types.
LEMMA StepType == TypeInv /\ [TransportNext]_vars => TypeInv'
<1> SUFFICES ASSUME TypeInv, [TransportNext]_vars PROVE TypeInv'
  OBVIOUS
<1>1. TypeOK /\ HeaderOK /\ RegionOK /\ WriterOK /\ ReaderOK /\ HistoryOK
  BY DEF TypeInv
<1>2. UNCHANGED allocVars => TypeOK'
  BY <1>1 DEF allocVars, TypeOK
<1>3. UNCHANGED headerVars => HeaderOK'
  BY <1>1 DEF headerVars, HeaderOK
<1>4. UNCHANGED <<ready, recycle, arena>> => RegionOK'
  BY <1>1 DEF RegionOK
<1>5. UNCHANGED writerVars => WriterOK'
  BY <1>1 DEF writerVars, WriterOK
<1>6. UNCHANGED readerVars => ReaderOK'
  BY <1>1 DEF readerVars, ReaderOK
<1>7. UNCHANGED historyVars => HistoryOK'
  BY <1>1 DEF historyVars, HistoryOK
<1>8. ASSUME NEW id, FreeIfLive(id)
      PROVE  TypeOK'
  BY <1>1, <1>2, <1>8, FreeTypeOK DEF FreeIfLive
<1>9. wreg \in WriteLocals /\ wreg.pos \in Nat /\ wreg.size \in Nat
  BY <1>1 DEF WriterOK, WriteLocals
<1>10. rreg \in ReadLocals
  BY <1>1 DEF ReaderOK
<1>11. /\ rreg.head \in Nat /\ rreg.cur \in Nat /\ rreg.chosen \in Nat /\ rreg.newtail \in Nat
       /\ rreg.rec \in Nat /\ rreg.desc \in Desc /\ rreg.desc.id \in Nat
  BY <1>10, ReadLocalsFields
<1>12. ASSUME NEW l \in Leases, NEW size \in Sizes, NEW publish \in BOOLEAN,
             AllocLease(l, size, publish)
       PROVE  TypeInv'
  <2>1. WriterOK'
    BY <1>12, <1>1, AllocatorAssumption DEF AllocLease, WriterOK, Busy, WriteLocals, NoWrite
  <2>2. TypeOK' /\ HeaderOK' /\ RegionOK' /\ ReaderOK' /\ HistoryOK'
    BY <1>12, <1>2, <1>3, <1>4, <1>6, <1>7 DEF AllocLease, headerVars, readerVars, historyVars
  <2> QED
    BY <2>1, <2>2 DEF TypeInv
<1>13. CASE AllocGrant
  <2>1. TypeOK'
    BY <1>13, <1>1, <1>9, AllocTypeOK DEF AllocGrant
  <2>2. WriterOK'
    <3> DEFINE new == [id |-> next_id, off |-> used'[next_id].start, len |-> wreg.size]
    <3>1. next_id \in DOMAIN used'
      BY <1>13 DEF AllocGrant, Alloc
    <3>2. next_id \in Nat /\ used'[next_id].start \in Nat /\ wreg.size \in Nat
      BY <2>1, <3>1, <1>9, <1>1 DEF TypeOK, Block
    <3>3. new \in Lease /\ new # None
      BY <3>2, NoneAssumption DEF Lease
    <3>4. lease' = [lease EXCEPT ![wreg.lease] = new] /\ wreg.lease \in Leases
      BY <1>13, <1>1 DEF AllocGrant, WriterOK, Busy
    <3>5. \/ wpc' = "copy" /\ wreg' = wreg
          \/ wpc' = "idle" /\ wreg' = NoWrite
      BY <1>13 DEF AllocGrant
    <3>6. frames' = frames
      BY <1>13 DEF AllocGrant
    <3> HIDE DEF new
    <3>7. lease' \in [Leases -> Lease \cup {None}] /\ lease'[wreg.lease] # None
      BY <3>3, <3>4, <1>1 DEF WriterOK
    <3> QED
      BY <3>4, <3>5, <3>6, <3>7, <1>1, LocalsType DEF WriterOK, Busy
  <2>3. HistoryOK'
    BY <1>13, <1>1 DEF AllocGrant, HistoryOK
  <2>4. HeaderOK' /\ RegionOK' /\ ReaderOK'
    BY <1>13, <1>3, <1>4, <1>6 DEF AllocGrant, headerVars, readerVars
  <2> QED
    BY <2>1, <2>2, <2>3, <2>4 DEF TypeInv
<1>14. CASE DropOldest
  <2>1. TypeOK'
    BY <1>14, <1>8 DEF DropOldest
  <2>2. WriterOK'
    <3>1. /\ wreg' = [wreg EXCEPT !.pos = ready_tail] /\ wpc = "alloc" /\ wpc' = "drop"
          /\ lease' = lease /\ frames' = frames
      BY <1>14 DEF DropOldest
    <3>2. wreg' \in WriteLocals /\ wreg'.lease = wreg.lease
      BY <3>1, <1>1, <1>9 DEF WriteLocals, HeaderOK
    <3> QED
      BY <3>1, <3>2, <1>1 DEF WriterOK, Busy
  <2>3. HistoryOK'
    BY <1>14, <1>1 DEF DropOldest, HistoryOK
  <2>4. HeaderOK' /\ RegionOK' /\ ReaderOK'
    BY <1>14, <1>3, <1>4, <1>6 DEF DropOldest, headerVars, readerVars
  <2> QED
    BY <2>1, <2>2, <2>3, <2>4 DEF TypeInv
<1>15. CASE DropStore
  <2>1. HeaderOK'
    <3>1. /\ ready_tail' = wreg.pos + 1
          /\ ready_head' = ready_head /\ rec_head' = rec_head /\ rec_tail' = rec_tail
      BY <1>15 DEF DropStore, recVars
    <3> QED
      BY <3>1, <1>1, <1>9 DEF HeaderOK
  <2>2. WriterOK'
    <3>1. /\ wreg' = [wreg EXCEPT !.pos = 0] /\ wpc = "drop" /\ wpc' = "alloc"
          /\ lease' = lease /\ frames' = frames
      BY <1>15 DEF DropStore
    <3>2. wreg' \in WriteLocals /\ wreg'.lease = wreg.lease
      BY <3>1, <1>1, <1>9 DEF WriteLocals
    <3> QED
      BY <3>1, <3>2, <1>1 DEF WriterOK, Busy
  <2>3. TypeOK' /\ RegionOK' /\ ReaderOK' /\ HistoryOK'
    BY <1>15, <1>2, <1>4, <1>6, <1>7 DEF DropStore, readerVars, historyVars
  <2> QED
    BY <2>1, <2>2, <2>3 DEF TypeInv
<1>16. CASE Reset
  <2>1. TypeOK'
    BY <1>16, RenewTypeOK DEF Reset
  <2>2. HeaderOK'
    BY <1>16, <1>1 DEF Reset, HeaderOK, recVars
  <2>3. WriterOK'
    BY <1>16, <1>1 DEF Reset, WriterOK, Busy
  <2>4. HistoryOK'
    BY <1>16, <1>1 DEF Reset, HistoryOK
  <2>5. RegionOK' /\ ReaderOK'
    BY <1>16, <1>4, <1>6 DEF Reset, readerVars
  <2> QED
    BY <2>1, <2>2, <2>3, <2>4, <2>5 DEF TypeInv
<1>17. CASE ResetReadyTail
  <2>1. HeaderOK'
    BY <1>17, <1>1 DEF ResetReadyTail, HeaderOK, readyVars, recVars
  <2>2. WriterOK'
    BY <1>17, <1>1 DEF ResetReadyTail, WriterOK, Busy
  <2>3. TypeOK' /\ RegionOK' /\ ReaderOK' /\ HistoryOK'
    BY <1>17, <1>2, <1>4, <1>6, <1>7 DEF ResetReadyTail, readerVars, historyVars
  <2> QED
    BY <2>1, <2>2, <2>3 DEF TypeInv
<1>18. CASE ResetRecHead
  <2>1. HeaderOK'
    BY <1>18, <1>1 DEF ResetRecHead, HeaderOK, readyVars, recVars
  <2>2. WriterOK'
    BY <1>18, <1>1 DEF ResetRecHead, WriterOK, Busy
  <2>3. TypeOK' /\ RegionOK' /\ ReaderOK' /\ HistoryOK'
    BY <1>18, <1>2, <1>4, <1>6, <1>7 DEF ResetRecHead, readerVars, historyVars
  <2> QED
    BY <2>1, <2>2, <2>3 DEF TypeInv
<1>19. CASE ResetRecTail
  <2>1. HeaderOK'
    BY <1>19, <1>1 DEF ResetRecTail, HeaderOK, readyVars, recVars
  <2>2. WriterOK'
    BY <1>19, <1>1 DEF ResetRecTail, WriterOK, Busy
  <2>3. TypeOK' /\ RegionOK' /\ ReaderOK' /\ HistoryOK'
    BY <1>19, <1>2, <1>4, <1>6, <1>7 DEF ResetRecTail, readerVars, historyVars
  <2> QED
    BY <2>1, <2>2, <2>3 DEF TypeInv
<1>20. CASE Exhausted
  <2>1. WriterOK'
    <3>1. wpc' = "idle" /\ wreg' = NoWrite /\ lease' = lease /\ frames' = frames
      BY <1>20 DEF Exhausted
    <3> QED
      BY <3>1, <1>1, LocalsType DEF WriterOK, Busy
  <2>2. TypeOK' /\ HeaderOK' /\ RegionOK' /\ ReaderOK' /\ HistoryOK'
    BY <1>20, <1>2, <1>3, <1>4, <1>6, <1>7 DEF Exhausted, headerVars, readerVars, historyVars
  <2> QED
    BY <2>1, <2>2 DEF TypeInv
<1>21. CASE Copy
  <2>1. RegionOK'
    <3>1. /\ ready' = ready /\ recycle' = recycle
          /\ arena' = [p \in DOMAIN arena |->
                         IF p \in Payload(lease[wreg.lease]) THEN frames + 1 ELSE arena[p]]
      BY <1>21 DEF Copy
    <3>2. frames + 1 \in Nat
      BY <1>1 DEF WriterOK
    <3> QED
      BY <3>1, <3>2, <1>1 DEF RegionOK
  <2>2. WriterOK'
    <3>1. /\ wpc = "copy" /\ wpc' = "push" /\ wreg' = wreg
          /\ lease' = lease /\ frames' = frames + 1
      BY <1>21 DEF Copy
    <3> QED
      BY <3>1, <1>1 DEF WriterOK, Busy
  <2>3. TypeOK' /\ HeaderOK' /\ ReaderOK' /\ HistoryOK'
    BY <1>21, <1>2, <1>3, <1>6, <1>7 DEF Copy, headerVars, readerVars, historyVars
  <2> QED
    BY <2>1, <2>2, <2>3 DEF TypeInv
<1>22. CASE PushSpin
  <2>1. WriterOK'
    <3>1. /\ wreg' = [wreg EXCEPT !.pos = ready_head] /\ wpc = "push" /\ wpc' = "slot"
          /\ lease' = lease /\ frames' = frames
      BY <1>22 DEF PushSpin
    <3>2. wreg' \in WriteLocals /\ wreg'.lease = wreg.lease
      BY <3>1, <1>1, <1>9 DEF WriteLocals, HeaderOK
    <3> QED
      BY <3>1, <3>2, <1>1 DEF WriterOK, Busy
  <2>2. TypeOK' /\ HeaderOK' /\ RegionOK' /\ ReaderOK' /\ HistoryOK'
    BY <1>22, <1>2, <1>3, <1>4, <1>6, <1>7 DEF PushSpin, headerVars, readerVars, historyVars
  <2> QED
    BY <2>1, <2>2 DEF TypeInv
<1>23. CASE PushStore
  <2>1. HeaderOK'
    <3>1. /\ ready_head' = wreg.pos + 1
          /\ ready_tail' = ready_tail /\ rec_head' = rec_head /\ rec_tail' = rec_tail
      BY <1>23 DEF PushStore, recVars
    <3> QED
      BY <3>1, <1>1, <1>9 DEF HeaderOK
  <2>2. RegionOK'
    <3>1. Published \in Desc
      BY <1>23, PublishedType DEF PushStore
    <3>2. /\ ready' = [ready EXCEPT ![ReadySlot(wreg.pos)] = Published]
          /\ recycle' = recycle /\ arena' = arena
      BY <1>23 DEF PushStore
    <3> QED
      BY <3>1, <3>2, <1>1, WriteType DEF RegionOK
  <2>3. WriterOK'
    <3>1. /\ lease' = [lease EXCEPT ![wreg.lease] = None] /\ wpc' = "idle" /\ wreg' = NoWrite
          /\ frames' = frames
      BY <1>23 DEF PushStore
    <3>2. lease' \in [Leases -> Lease \cup {None}]
      BY <3>1, <1>1, WriteType DEF WriterOK
    <3> QED
      BY <3>1, <3>2, <1>1, LocalsType DEF WriterOK, Busy
  <2>4. TypeOK' /\ ReaderOK' /\ HistoryOK'
    BY <1>23, <1>2, <1>6, <1>7 DEF PushStore, readerVars, historyVars
  <2> QED
    BY <2>1, <2>2, <2>3, <2>4 DEF TypeInv
<1>24. CASE DrainTake
  <2>1. TypeOK'
    BY <1>24, <1>8 DEF DrainTake
  <2>2. WriterOK'
    <3>1. /\ wreg' = [wreg EXCEPT !.pos = rec_tail] /\ wpc' = "drain_store"
          /\ lease' = lease /\ frames' = frames
      BY <1>24 DEF DrainTake
    <3>2. wreg' \in WriteLocals
      BY <3>1, <1>1, <1>9 DEF WriteLocals, HeaderOK
    <3> QED
      BY <3>1, <3>2, <1>1 DEF WriterOK, Busy
  <2>3. HeaderOK' /\ RegionOK' /\ ReaderOK' /\ HistoryOK'
    BY <1>24, <1>3, <1>4, <1>6, <1>7 DEF DrainTake, headerVars, readerVars, historyVars
  <2> QED
    BY <2>1, <2>2, <2>3 DEF TypeInv
<1>25. CASE DrainStore
  <2>1. HeaderOK'
    <3>1. /\ rec_tail' = wreg.pos + 1
          /\ ready_head' = ready_head /\ ready_tail' = ready_tail /\ rec_head' = rec_head
      BY <1>25 DEF DrainStore, readyVars
    <3> QED
      BY <3>1, <1>1, <1>9 DEF HeaderOK
  <2>2. WriterOK'
    <3>1. wpc' = "drain" /\ wreg' = NoWrite /\ lease' = lease /\ frames' = frames
      BY <1>25 DEF DrainStore
    <3> QED
      BY <3>1, <1>1, LocalsType DEF WriterOK, Busy
  <2>3. TypeOK' /\ RegionOK' /\ ReaderOK' /\ HistoryOK'
    BY <1>25, <1>2, <1>4, <1>6, <1>7 DEF DrainStore, readerVars, historyVars
  <2> QED
    BY <2>1, <2>2, <2>3 DEF TypeInv
<1>26. CASE DrainEnd
  <2>1. WriterOK'
    BY <1>26, <1>1 DEF DrainEnd, WriterOK, Busy
  <2>2. TypeOK' /\ HeaderOK' /\ RegionOK' /\ ReaderOK' /\ HistoryOK'
    BY <1>26, <1>2, <1>3, <1>4, <1>6, <1>7 DEF DrainEnd, headerVars, readerVars, historyVars
  <2> QED
    BY <2>1, <2>2 DEF TypeInv
<1>27. ASSUME NEW l \in Leases, PublishLease(l)
       PROVE  TypeInv'
  <2>1. WriterOK'
    BY <1>27, <1>1 DEF PublishLease, WriterOK, Busy, WriteLocals, NoWrite
  <2>2. TypeOK' /\ HeaderOK' /\ RegionOK' /\ ReaderOK' /\ HistoryOK'
    BY <1>27, <1>2, <1>3, <1>4, <1>6, <1>7 DEF PublishLease, headerVars, readerVars, historyVars
  <2> QED
    BY <2>1, <2>2 DEF TypeInv
<1>28. ASSUME NEW l \in Leases, FreeLease(l)
       PROVE  TypeInv'
  <2>1. TypeOK'
    BY <1>28, <1>8 DEF FreeLease
  <2>2. WriterOK'
    <3>1. /\ lease' = [lease EXCEPT ![l] = None] /\ wpc = "idle"
          /\ UNCHANGED <<wpc, wreg, frames>>
      BY <1>28 DEF FreeLease
    <3>2. lease' \in [Leases -> Lease \cup {None}]
      BY <3>1, <1>1, WriteType DEF WriterOK
    <3> QED
      BY <3>1, <3>2, <1>1 DEF WriterOK, Busy
  <2>3. HeaderOK' /\ RegionOK' /\ ReaderOK' /\ HistoryOK'
    BY <1>28, <1>3, <1>4, <1>6, <1>7 DEF FreeLease, headerVars, readerVars, historyVars
  <2> QED
    BY <2>1, <2>2, <2>3 DEF TypeInv
<1>29. CASE DrainBegin
  <2>1. WriterOK'
    BY <1>29, <1>1 DEF DrainBegin, WriterOK, Busy
  <2>2. TypeOK' /\ HeaderOK' /\ RegionOK' /\ ReaderOK' /\ HistoryOK'
    BY <1>29, <1>2, <1>3, <1>4, <1>6, <1>7 DEF DrainBegin, headerVars, readerVars, historyVars
  <2> QED
    BY <2>1, <2>2 DEF TypeInv
<1>30. CASE AttachStore
  <2>1. HeaderOK'
    <3>1. /\ ready_tail' = rreg.head
          /\ ready_head' = ready_head /\ rec_head' = rec_head /\ rec_tail' = rec_tail
      BY <1>30 DEF AttachStore, recVars
    <3> QED
      BY <3>1, <1>1, <1>11 DEF HeaderOK
  <2>2. ReaderOK'
    BY <1>30, <1>1, LocalsType DEF AttachStore, ReaderOK
  <2>3. HistoryOK'
    BY <1>30, <1>1, <1>11 DEF AttachStore, HistoryOK
  <2>4. TypeOK' /\ RegionOK' /\ WriterOK'
    BY <1>30, <1>2, <1>4, <1>5 DEF AttachStore, writerVars
  <2> QED
    BY <2>1, <2>2, <2>3, <2>4 DEF TypeInv
<1>31. CASE RecvEmpty
  <2>1. ReaderOK'
    BY <1>31, <1>1, LocalsType DEF RecvEmpty, ReaderOK
  <2>2. TypeOK' /\ HeaderOK' /\ RegionOK' /\ WriterOK' /\ HistoryOK'
    BY <1>31, <1>2, <1>3, <1>4, <1>5, <1>7 DEF RecvEmpty, headerVars, writerVars, historyVars
  <2> QED
    BY <2>1, <2>2 DEF TypeInv
<1>32. CASE RecvFifo
  <2>1. ReaderOK'
    <3>1. ready_tail \in Nat /\ ready_tail + 1 \in Nat
      BY <1>1 DEF HeaderOK
    <3>2. [rreg EXCEPT !.cur = ready_tail, !.chosen = ready_tail,
                       !.newtail = ready_tail + 1] \in ReadLocals
      BY <3>1, <1>10 DEF ReadLocals
    <3>3. /\ rreg' = [rreg EXCEPT !.cur = ready_tail, !.chosen = ready_tail,
                                 !.newtail = ready_tail + 1]
          /\ rpc' = "rx_read" /\ held' = held /\ attaches' = attaches
      BY <1>32 DEF RecvFifo
    <3> QED
      BY <3>2, <3>3, <1>1 DEF ReaderOK
  <2>2. TypeOK' /\ HeaderOK' /\ RegionOK' /\ WriterOK' /\ HistoryOK'
    BY <1>32, <1>2, <1>3, <1>4, <1>5, <1>7 DEF RecvFifo, headerVars, writerVars, historyVars
  <2> QED
    BY <2>1, <2>2 DEF TypeInv
<1>33. CASE RecvLatest
  <2>1. ReaderOK'
    <3>1. ready_tail \in Nat /\ rreg.head \in Nat
      BY <1>1, <1>11 DEF HeaderOK
    <3> DEFINE chosen == Chosen(rreg.head, ready_tail)
               newtail == NewTail(rreg.head, ready_tail)
    <3>2. chosen \in Nat /\ newtail \in Nat
      BY <3>1, ChosenType
    <3>3. /\ rreg' = [rreg EXCEPT !.cur = ready_tail, !.chosen = chosen, !.newtail = newtail]
          /\ rpc' \in {"rx_drop", "rx_read"}
          /\ held' = held /\ attaches' = attaches
      BY <1>33 DEF RecvLatest
    <3> HIDE DEF chosen, newtail
    <3>4. rreg' \in ReadLocals
      BY <3>1, <3>2, <3>3, <1>10 DEF ReadLocals
    <3> QED
      BY <3>3, <3>4, <1>1 DEF ReaderOK
  <2>2. TypeOK' /\ HeaderOK' /\ RegionOK' /\ WriterOK' /\ HistoryOK'
    BY <1>33, <1>2, <1>3, <1>4, <1>5, <1>7 DEF RecvLatest, headerVars, writerVars, historyVars
  <2> QED
    BY <2>1, <2>2 DEF TypeInv
<1>34. CASE RecvPanic
  <2>1. ReaderOK'
    BY <1>34, <1>1, LocalsType DEF RecvPanic, ReaderOK
  <2>2. TypeOK' /\ HeaderOK' /\ RegionOK' /\ WriterOK' /\ HistoryOK'
    BY <1>34, <1>2, <1>3, <1>4, <1>5, <1>7 DEF RecvPanic, headerVars, writerVars, historyVars
  <2> QED
    BY <2>1, <2>2 DEF TypeInv
<1>35. CASE SkipTry
  <2>1. ReaderOK'
    <3>1. PICK d \in ReadySlotReads(ReadySlot(rreg.cur)) :
            rreg' = [rreg EXCEPT !.desc = d, !.rec = rec_head]
      BY <1>35 DEF SkipTry
    <3>2. d \in Desc /\ rec_head \in Nat
      BY <3>1, <1>11, <1>1, ReadySlotType DEF HeaderOK
    <3>3. rreg' \in ReadLocals
      BY <3>1, <3>2, <1>10 DEF ReadLocals
    <3>4. rpc' = "rx_slot" /\ held' = held /\ attaches' = attaches
      BY <1>35 DEF SkipTry
    <3> QED
      BY <3>3, <3>4, <1>1 DEF ReaderOK
  <2>2. TypeOK' /\ HeaderOK' /\ RegionOK' /\ WriterOK' /\ HistoryOK'
    BY <1>35, <1>2, <1>3, <1>4, <1>5, <1>7 DEF SkipTry, headerVars, writerVars, historyVars
  <2> QED
    BY <2>1, <2>2 DEF TypeInv
<1>36. CASE SkipStore
  <2>1. HeaderOK'
    <3>1. /\ rec_head' = rreg.rec + 1
          /\ ready_head' = ready_head /\ ready_tail' = ready_tail /\ rec_tail' = rec_tail
      BY <1>36 DEF SkipStore, readyVars
    <3> QED
      BY <3>1, <1>1, <1>11 DEF HeaderOK
  <2>2. RegionOK'
    <3>1. /\ recycle' = [recycle EXCEPT ![RecSlot(rreg.rec)] = rreg.desc.id]
          /\ ready' = ready /\ arena' = arena
      BY <1>36 DEF SkipStore
    <3> QED
      BY <3>1, <1>1, <1>11, WriteType DEF RegionOK
  <2>3. ReaderOK'
    <3>1. rreg.cur + 1 \in Nat
      BY <1>11
    <3>2. [rreg EXCEPT !.cur = rreg.cur + 1, !.desc = ZeroDesc, !.rec = 0] \in ReadLocals
      BY <3>1, <1>10, LocalsType DEF ReadLocals
    <3>3. /\ rreg' = [rreg EXCEPT !.cur = rreg.cur + 1, !.desc = ZeroDesc, !.rec = 0]
          /\ rpc' \in {"rx_drop", "rx_read"} /\ held' = held /\ attaches' = attaches
      BY <1>36 DEF SkipStore
    <3> QED
      BY <3>2, <3>3, <1>1 DEF ReaderOK
  <2>4. HistoryOK'
    BY <1>36, <1>1, <1>11 DEF SkipStore, HistoryOK
  <2>5. TypeOK' /\ WriterOK'
    BY <1>36, <1>2, <1>5 DEF SkipStore, writerVars
  <2> QED
    BY <2>1, <2>2, <2>3, <2>4, <2>5 DEF TypeInv
<1>37. CASE SkipFull
  <2>1. ReaderOK'
    BY <1>37, <1>1 DEF SkipFull, ReaderOK
  <2>2. TypeOK' /\ HeaderOK' /\ RegionOK' /\ WriterOK' /\ HistoryOK'
    BY <1>37, <1>2, <1>3, <1>4, <1>5, <1>7 DEF SkipFull, headerVars, writerVars, historyVars
  <2> QED
    BY <2>1, <2>2 DEF TypeInv
<1>38. CASE RecvRead
  <2>1. ReaderOK'
    <3>1. PICK d \in ReadySlotReads(ReadySlot(rreg.chosen)) :
            \/ rpc' = "rx_take" /\ rreg' = [rreg EXCEPT !.desc = d]
            \/ rpc' = "idle" /\ rreg' = NoRead
      BY <1>38 DEF RecvRead
    <3>2. d \in Desc
      BY <3>1, <1>11, <1>1, ReadySlotType
    <3>3. rreg' \in ReadLocals
      BY <3>1, <3>2, <1>10, LocalsType DEF ReadLocals
    <3>4. rpc' \in {"rx_take", "idle"} /\ held' = held /\ attaches' = attaches
      BY <1>38 DEF RecvRead
    <3> QED
      BY <3>3, <3>4, <1>1 DEF ReaderOK
  <2>2. TypeOK' /\ HeaderOK' /\ RegionOK' /\ WriterOK' /\ HistoryOK'
    BY <1>38, <1>2, <1>3, <1>4, <1>5, <1>7 DEF RecvRead, headerVars, writerVars, historyVars
  <2> QED
    BY <2>1, <2>2 DEF TypeInv
<1>39. CASE RecvTake
  <2>1. HeaderOK'
    <3>1. /\ ready_tail' = rreg.newtail
          /\ ready_head' = ready_head /\ rec_head' = rec_head /\ rec_tail' = rec_tail
      BY <1>39 DEF RecvTake, recVars
    <3> QED
      BY <3>1, <1>1, <1>11 DEF HeaderOK
  <2>2. ReaderOK'
    <3>1. PICK w \in Wraps : held' = [held EXCEPT ![w] = rreg.desc]
      BY <1>39 DEF RecvTake
    <3>2. held' \in [Wraps -> Desc \cup {None}]
      BY <3>1, <1>1, <1>11, WriteType DEF ReaderOK
    <3>3. rreg' = NoRead /\ rpc' = "idle" /\ attaches' = attaches
      BY <1>39 DEF RecvTake
    <3> QED
      BY <3>2, <3>3, <1>1, LocalsType DEF ReaderOK
  <2>3. HistoryOK'
    BY <1>39, <1>1, <1>11 DEF RecvTake, HistoryOK
  <2>4. TypeOK' /\ RegionOK' /\ WriterOK'
    BY <1>39, <1>2, <1>4, <1>5 DEF RecvTake, writerVars
  <2> QED
    BY <2>1, <2>2, <2>3, <2>4 DEF TypeInv
<1>40. CASE RecycleSpin
  <2>1. ReaderOK'
    <3>1. [rreg EXCEPT !.rec = rec_head] \in ReadLocals
      BY <1>1, LocalsType, <1>10 DEF ReadLocals, HeaderOK
    <3>2. /\ rreg' = [rreg EXCEPT !.rec = rec_head]
          /\ rpc' = "rc_slot" /\ held' = held /\ attaches' = attaches
      BY <1>40 DEF RecycleSpin
    <3> QED
      BY <3>1, <3>2, <1>1 DEF ReaderOK
  <2>2. TypeOK' /\ HeaderOK' /\ RegionOK' /\ WriterOK' /\ HistoryOK'
    BY <1>40, <1>2, <1>3, <1>4, <1>5, <1>7 DEF RecycleSpin, headerVars, writerVars, historyVars
  <2> QED
    BY <2>1, <2>2 DEF TypeInv
<1>41. CASE RecycleStore
  <2>1. HeaderOK'
    <3>1. /\ rec_head' = rreg.rec + 1
          /\ ready_head' = ready_head /\ ready_tail' = ready_tail /\ rec_tail' = rec_tail
      BY <1>41 DEF RecycleStore, readyVars
    <3> QED
      BY <3>1, <1>1, <1>11 DEF HeaderOK
  <2>2. RegionOK'
    <3>1. /\ recycle' = [recycle EXCEPT ![RecSlot(rreg.rec)] = rreg.desc.id]
          /\ ready' = ready /\ arena' = arena
      BY <1>41 DEF RecycleStore
    <3> QED
      BY <3>1, <1>1, <1>11, WriteType DEF RegionOK
  <2>3. ReaderOK'
    <3>1. /\ held' = [held EXCEPT ![rreg.wrap] = None]
          /\ rreg' = NoRead /\ rpc' = "idle" /\ attaches' = attaches
      BY <1>41 DEF RecycleStore
    <3>2. held' \in [Wraps -> Desc \cup {None}]
      BY <3>1, <1>1, WriteType DEF ReaderOK
    <3> QED
      BY <3>1, <3>2, <1>1, LocalsType DEF ReaderOK
  <2>4. TypeOK' /\ WriterOK' /\ HistoryOK'
    BY <1>41, <1>2, <1>5, <1>7 DEF RecycleStore, writerVars, historyVars
  <2> QED
    BY <2>1, <2>2, <2>3, <2>4 DEF TypeInv
<1>42. CASE AttachLoad
  <2>1. ReaderOK'
    <3>1. [NoRead EXCEPT !.head = ready_head] \in ReadLocals
      BY <1>1, LocalsType, <1>10 DEF ReadLocals, HeaderOK
    <3>2. /\ rreg' = [NoRead EXCEPT !.head = ready_head]
          /\ rpc' = "attach" /\ held' = held /\ attaches' = attaches + 1
      BY <1>42 DEF AttachLoad
    <3> QED
      BY <3>1, <3>2, <1>1 DEF ReaderOK
  <2>2. TypeOK' /\ HeaderOK' /\ RegionOK' /\ WriterOK' /\ HistoryOK'
    BY <1>42, <1>2, <1>3, <1>4, <1>5, <1>7 DEF AttachLoad, headerVars, writerVars, historyVars
  <2> QED
    BY <2>1, <2>2 DEF TypeInv
<1>43. ASSUME NEW latest \in LatestOnly, RecvHead(latest)
       PROVE  TypeInv'
  <2>1. ReaderOK'
    <3>1. [NoRead EXCEPT !.latest = latest, !.head = ready_head] \in ReadLocals
      BY <1>1, LocalsType, TransportAssumption DEF HeaderOK, ReadLocals
    <3>2. /\ rreg' = [NoRead EXCEPT !.latest = latest, !.head = ready_head]
          /\ rpc' = "rx_tail" /\ held' = held /\ attaches' = attaches
      BY <1>43 DEF RecvHead
    <3> QED
      BY <3>1, <3>2, <1>1 DEF ReaderOK
  <2>2. TypeOK' /\ HeaderOK' /\ RegionOK' /\ WriterOK' /\ HistoryOK'
    BY <1>43, <1>2, <1>3, <1>4, <1>5, <1>7 DEF RecvHead, headerVars, writerVars, historyVars
  <2> QED
    BY <2>1, <2>2 DEF TypeInv
<1>44. ASSUME NEW w \in Wraps, DropWrap(w)
       PROVE  TypeInv'
  <2>1. ReaderOK'
    <3>1. held[w] \in Desc
      BY <1>44, <1>1 DEF DropWrap, ReaderOK
    <3>2. [NoRead EXCEPT !.wrap = w, !.desc = held[w]] \in ReadLocals
      BY <3>1, LocalsType DEF ReadLocals
    <3>3. /\ rreg' = [NoRead EXCEPT !.wrap = w, !.desc = held[w]]
          /\ rpc' = "rc_spin" /\ held' = held /\ attaches' = attaches
      BY <1>44 DEF DropWrap
    <3> QED
      BY <3>2, <3>3, <1>1 DEF ReaderOK
  <2>2. TypeOK' /\ HeaderOK' /\ RegionOK' /\ WriterOK' /\ HistoryOK'
    BY <1>44, <1>2, <1>3, <1>4, <1>5, <1>7 DEF DropWrap, headerVars, writerVars, historyVars
  <2> QED
    BY <2>1, <2>2 DEF TypeInv
<1>45. CASE Crash
  <2>1. ReaderOK'
    BY <1>45, <1>1, LocalsType DEF Crash, ReaderOK
  <2>2. TypeOK' /\ HeaderOK' /\ RegionOK' /\ WriterOK' /\ HistoryOK'
    BY <1>45, <1>2, <1>3, <1>4, <1>5, <1>7 DEF Crash, headerVars, writerVars, historyVars
  <2> QED
    BY <2>1, <2>2 DEF TypeInv
<1>46. CASE UNCHANGED vars
  BY <1>2, <1>3, <1>4, <1>5, <1>6, <1>7, <1>46 DEF vars, TypeInv
<1>47. CASE WriterStep
  BY <1>47, <1>13, <1>14, <1>15, <1>16, <1>17, <1>18, <1>19,
     <1>20, <1>21, <1>22, <1>23, <1>24, <1>25, <1>26
     DEF WriterStep
<1>48. CASE ReaderStep
  BY <1>48, <1>30, <1>31, <1>32, <1>33, <1>34, <1>35, <1>36,
     <1>37, <1>38, <1>39, <1>40, <1>41
     DEF ReaderStep
<1>49. CASE WriterCall
  BY <1>49, <1>12, <1>27, <1>28, <1>29
     DEF WriterCall
<1>50. CASE ReaderCall
  BY <1>50, <1>42, <1>43, <1>44
     DEF ReaderCall
<1> QED
  BY <1>45, <1>46, <1>47, <1>48, <1>49, <1>50 DEF TransportNext

\* TransportTypeOK: counters, ring slots, arena and both calls' locals stay well
\* typed in every reachable state, torn reads and a crashing consumer included.
THEOREM TransportTypeCorrect == TransportSpec => []TransportTypeOK
<1> QED
  BY TypeInvImplies, InitType, StepType, PTL DEF TransportSpec

--------------------------------------------------------------------------------
(***************************************************************************)
(* For every capacity, arena and set of leases and buffers: until the      *)
(* writer first drops a queued frame or resets, both rings stay within     *)
(* capacity and no receive panics.                                         *)
(*                                                                         *)
(* Either side works with positions it loaded earlier, so the bounds alone *)
(* are not inductive: RingInv says where those positions still lie when    *)
(* they are used.                                                          *)
(***************************************************************************)

Dropping  == {"drop", "reset_ready_tail", "reset_rec_head", "reset_rec_tail"}
Receiving == {"rx_drop", "rx_slot", "rx_read", "rx_take"}
Pushing   == {"rx_slot", "rc_slot"}

\* The ready ring is within capacity; the slot the writer fills is the next and free;
\* a head the reader loaded, and the tail it will store, lie between tail and head.
ReadyRing ==
    /\ ready_tail <= ready_head /\ ready_head <= ready_tail + ReadyCap
    /\ wpc = "slot" => wreg.pos = ready_head /\ ready_head < ready_tail + ReadyCap
    /\ rpc \in {"attach", "rx_tail"} => ready_tail <= rreg.head /\ rreg.head <= ready_head
    /\ rpc \in Receiving => ready_tail <= rreg.newtail /\ rreg.newtail <= ready_head

\* The same of the recycle ring, with the sides exchanged.
RecycleRing ==
    /\ rec_tail <= rec_head /\ rec_head <= rec_tail + RecCap
    /\ rpc \in Pushing => rreg.rec = rec_head /\ rec_head < rec_tail + RecCap
    /\ wpc = "drain_store" => wreg.pos = rec_tail /\ rec_tail < rec_head

RingInv == clean => ReadyRing /\ RecycleRing /\ wpc \notin Dropping /\ rpc # "poisoned"

\* RingInv and the types give the invariant the runs check.
LEMMA RingInvImplies == TypeInv /\ RingInv => CleanRingsBounded
BY TransportAssumption
   DEF TypeInv, HeaderOK, RingInv, ReadyRing, RecycleRing, CleanRingsBounded, RingsBounded

\* With the tail at or behind the head, room means fewer entries than the capacity.
LEMMA RoomMeans ==
    ASSUME NEW head \in Nat, NEW tail \in Nat, NEW cap \in Nat, tail <= head,
           HasRoom(head, tail, cap)
    PROVE  head < tail + cap
BY DEF HasRoom, wrapping_sub

\* The tail a latest-only receive stores lies between the tail and the head it saw.
LEMMA NewTailBounds ==
    ASSUME NEW head \in Nat, NEW tail \in Nat, tail <= head, head # tail
    PROVE  /\ NewTail(head, tail) \in Nat
           /\ tail <= NewTail(head, tail) /\ NewTail(head, tail) <= head
BY DEF NewTail, saturating_sub

\* head - 2 does not underflow when something is queued and the tail is behind the head.
LEMMA NoUnderflow ==
    ASSUME NEW head \in Nat, NEW tail \in Nat, tail <= head, head # tail
    PROVE  ~Underflows(head, tail)
BY DEF Underflows, saturating_sub

LEMMA InitRing == Init => RingInv
BY TransportAssumption
   DEF Init, WriterInit, ReaderInit, RingInv, ReadyRing, RecycleRing, Dropping, Receiving, Pushing

\* Every step of either process, and the consumer's death, keeps RingInv.
LEMMA StepRing == TypeInv /\ RingInv /\ [TransportNext]_vars => RingInv'
<1> SUFFICES ASSUME TypeInv, RingInv, [TransportNext]_vars, clean' PROVE RingInv'
  BY DEF RingInv
<1> USE DEF Dropping, Receiving, Pushing
<1>1. /\ ready_head \in Nat /\ ready_tail \in Nat /\ rec_head \in Nat /\ rec_tail \in Nat
      /\ ReadyCap \in Nat \ {0} /\ RecCap \in Nat \ {0}
  BY TransportAssumption DEF TypeInv, HeaderOK
<1>2. wreg \in WriteLocals /\ rreg \in ReadLocals /\ NoRead \in ReadLocals
  BY LocalsType DEF TypeInv, WriterOK, ReaderOK
<1>3. /\ wreg.pos \in Nat /\ rreg.head \in Nat /\ rreg.newtail \in Nat /\ rreg.rec \in Nat
  BY <1>2, ReadLocalsFields DEF WriteLocals
<1>4. clean => ReadyRing /\ RecycleRing /\ wpc \notin Dropping /\ rpc # "poisoned"
  BY DEF RingInv
<1>5. ASSUME NEW l \in Leases, NEW size \in Sizes, NEW publish \in BOOLEAN, AllocLease(l, size, publish)
      PROVE  RingInv'
  <2>1. /\ wpc' = "alloc"
        /\ ready_head' = ready_head /\ ready_tail' = ready_tail
        /\ rec_head' = rec_head /\ rec_tail' = rec_tail
        /\ rpc' = rpc /\ rreg' = rreg
        /\ clean' = clean
    BY <1>5 DEF AllocLease, headerVars, readerVars, historyVars
  <2> QED
    BY <2>1, <1>1, <1>3, <1>4 DEF RingInv, ReadyRing, RecycleRing
<1>6. CASE AllocGrant
  <2>1. /\ wpc' \in {"copy", "idle"}
        /\ ready_head' = ready_head /\ ready_tail' = ready_tail
        /\ rec_head' = rec_head /\ rec_tail' = rec_tail
        /\ rpc' = rpc /\ rreg' = rreg
        /\ clean' => clean
    BY <1>6 DEF AllocGrant, headerVars, readerVars
  <2> QED
    BY <2>1, <1>1, <1>3, <1>4 DEF RingInv, ReadyRing, RecycleRing
<1>7. CASE DropOldest
  <2>1. /\ clean' = FALSE
    BY <1>7 DEF DropOldest
  <2> QED
    BY <2>1, <1>1, <1>3, <1>4 DEF RingInv, ReadyRing, RecycleRing
<1>8. CASE DropStore
  <2>1. /\ wpc = "drop"
        /\ clean' = clean
    BY <1>8 DEF DropStore, historyVars
  <2> QED
    BY <2>1, <1>1, <1>3, <1>4 DEF RingInv, ReadyRing, RecycleRing
<1>9. CASE Reset
  <2>1. /\ clean' = FALSE
    BY <1>9 DEF Reset
  <2> QED
    BY <2>1, <1>1, <1>3, <1>4 DEF RingInv, ReadyRing, RecycleRing
<1>10. CASE ResetReadyTail
  <2>1. /\ wpc = "reset_ready_tail"
        /\ clean' = clean
    BY <1>10 DEF ResetReadyTail, historyVars
  <2> QED
    BY <2>1, <1>1, <1>3, <1>4 DEF RingInv, ReadyRing, RecycleRing
<1>11. CASE ResetRecHead
  <2>1. /\ wpc = "reset_rec_head"
        /\ clean' = clean
    BY <1>11 DEF ResetRecHead, historyVars
  <2> QED
    BY <2>1, <1>1, <1>3, <1>4 DEF RingInv, ReadyRing, RecycleRing
<1>12. CASE ResetRecTail
  <2>1. /\ wpc = "reset_rec_tail"
        /\ clean' = clean
    BY <1>12 DEF ResetRecTail, historyVars
  <2> QED
    BY <2>1, <1>1, <1>3, <1>4 DEF RingInv, ReadyRing, RecycleRing
<1>13. CASE Exhausted
  <2>1. /\ wpc' = "idle"
        /\ ready_head' = ready_head /\ ready_tail' = ready_tail
        /\ rec_head' = rec_head /\ rec_tail' = rec_tail
        /\ rpc' = rpc /\ rreg' = rreg
        /\ clean' = clean
    BY <1>13 DEF Exhausted, headerVars, readerVars, historyVars
  <2> QED
    BY <2>1, <1>1, <1>3, <1>4 DEF RingInv, ReadyRing, RecycleRing
<1>14. CASE Copy
  <2>1. /\ wpc' = "push"
        /\ ready_head' = ready_head /\ ready_tail' = ready_tail
        /\ rec_head' = rec_head /\ rec_tail' = rec_tail
        /\ rpc' = rpc /\ rreg' = rreg
        /\ clean' = clean
    BY <1>14 DEF Copy, headerVars, readerVars, historyVars
  <2> QED
    BY <2>1, <1>1, <1>3, <1>4 DEF RingInv, ReadyRing, RecycleRing
<1>15. CASE PushSpin
  <2>1. /\ wpc' = "slot" /\ wreg'.pos = ready_head
        /\ HasRoom(ready_head, ready_tail, ReadyCap)
        /\ ready_head' = ready_head /\ ready_tail' = ready_tail
        /\ rec_head' = rec_head /\ rec_tail' = rec_tail
        /\ rpc' = rpc /\ rreg' = rreg
        /\ clean' = clean
    BY <1>15, <1>2 DEF PushSpin, WriteLocals, headerVars, readerVars, historyVars
  <2> QED
    BY <2>1, <1>1, <1>3, <1>4, RoomMeans DEF RingInv, ReadyRing, RecycleRing
<1>16. CASE PushStore
  <2>1. /\ wpc = "slot" /\ wpc' = "idle"
        /\ ready_head' = wreg.pos + 1 /\ ready_tail' = ready_tail
        /\ rec_head' = rec_head /\ rec_tail' = rec_tail
        /\ rpc' = rpc /\ rreg' = rreg
        /\ clean' = clean
    BY <1>16 DEF PushStore, recVars, readerVars, historyVars
  <2> QED
    BY <2>1, <1>1, <1>3, <1>4 DEF RingInv, ReadyRing, RecycleRing
<1>17. CASE DrainTake
  <2>1. /\ wpc' = "drain_store" /\ wreg'.pos = rec_tail
        /\ rec_head # rec_tail
        /\ ready_head' = ready_head /\ ready_tail' = ready_tail
        /\ rec_head' = rec_head /\ rec_tail' = rec_tail
        /\ rpc' = rpc /\ rreg' = rreg
        /\ clean' = clean
    BY <1>17, <1>2 DEF DrainTake, WriteLocals, headerVars, readerVars, historyVars
  <2> QED
    BY <2>1, <1>1, <1>3, <1>4 DEF RingInv, ReadyRing, RecycleRing
<1>18. CASE DrainStore
  <2>1. /\ wpc = "drain_store" /\ wpc' = "drain"
        /\ ready_head' = ready_head /\ ready_tail' = ready_tail
        /\ rec_tail' = wreg.pos + 1 /\ rec_head' = rec_head
        /\ rpc' = rpc /\ rreg' = rreg
        /\ clean' = clean
    BY <1>18 DEF DrainStore, readyVars, readerVars, historyVars
  <2> QED
    BY <2>1, <1>1, <1>3, <1>4 DEF RingInv, ReadyRing, RecycleRing
<1>19. CASE DrainEnd
  <2>1. /\ wpc' = "idle"
        /\ ready_head' = ready_head /\ ready_tail' = ready_tail
        /\ rec_head' = rec_head /\ rec_tail' = rec_tail
        /\ rpc' = rpc /\ rreg' = rreg
        /\ clean' = clean
    BY <1>19 DEF DrainEnd, headerVars, readerVars, historyVars
  <2> QED
    BY <2>1, <1>1, <1>3, <1>4 DEF RingInv, ReadyRing, RecycleRing
<1>20. ASSUME NEW l \in Leases, PublishLease(l)
      PROVE  RingInv'
  <2>1. /\ wpc' = "copy"
        /\ ready_head' = ready_head /\ ready_tail' = ready_tail
        /\ rec_head' = rec_head /\ rec_tail' = rec_tail
        /\ rpc' = rpc /\ rreg' = rreg
        /\ clean' = clean
    BY <1>20 DEF PublishLease, headerVars, readerVars, historyVars
  <2> QED
    BY <2>1, <1>1, <1>3, <1>4 DEF RingInv, ReadyRing, RecycleRing
<1>21. ASSUME NEW l \in Leases, FreeLease(l)
      PROVE  RingInv'
  <2>1. /\ wpc' = wpc /\ wreg' = wreg
        /\ ready_head' = ready_head /\ ready_tail' = ready_tail
        /\ rec_head' = rec_head /\ rec_tail' = rec_tail
        /\ rpc' = rpc /\ rreg' = rreg
        /\ clean' = clean
    BY <1>21 DEF FreeLease, headerVars, readerVars, historyVars
  <2> QED
    BY <2>1, <1>1, <1>3, <1>4 DEF RingInv, ReadyRing, RecycleRing
<1>22. CASE DrainBegin
  <2>1. /\ wpc' = "drain"
        /\ ready_head' = ready_head /\ ready_tail' = ready_tail
        /\ rec_head' = rec_head /\ rec_tail' = rec_tail
        /\ rpc' = rpc /\ rreg' = rreg
        /\ clean' = clean
    BY <1>22 DEF DrainBegin, headerVars, readerVars, historyVars
  <2> QED
    BY <2>1, <1>1, <1>3, <1>4 DEF RingInv, ReadyRing, RecycleRing
<1>23. CASE AttachStore
  <2>1. /\ rpc = "attach" /\ rpc' = "idle"
        /\ ready_tail' = rreg.head /\ ready_head' = ready_head
        /\ rec_head' = rec_head /\ rec_tail' = rec_tail
        /\ wpc' = wpc /\ wreg' = wreg
        /\ clean' = clean
    BY <1>23 DEF AttachStore, recVars, writerVars
  <2> QED
    BY <2>1, <1>1, <1>3, <1>4 DEF RingInv, ReadyRing, RecycleRing
<1>24. CASE RecvEmpty
  <2>1. /\ rpc' = "idle"
        /\ ready_head' = ready_head /\ ready_tail' = ready_tail
        /\ rec_head' = rec_head /\ rec_tail' = rec_tail
        /\ wpc' = wpc /\ wreg' = wreg
        /\ clean' = clean
    BY <1>24 DEF RecvEmpty, headerVars, writerVars, historyVars
  <2> QED
    BY <2>1, <1>1, <1>3, <1>4 DEF RingInv, ReadyRing, RecycleRing
<1>25. CASE RecvFifo
  <2>1. /\ rpc = "rx_tail" /\ rpc' = "rx_read"
        /\ rreg'.newtail = ready_tail + 1 /\ rreg.head # ready_tail
        /\ ready_head' = ready_head /\ ready_tail' = ready_tail
        /\ rec_head' = rec_head /\ rec_tail' = rec_tail
        /\ wpc' = wpc /\ wreg' = wreg
        /\ clean' = clean
    BY <1>25, <1>2 DEF RecvFifo, ReadLocals, headerVars, writerVars, historyVars
  <2> QED
    BY <2>1, <1>1, <1>3, <1>4 DEF RingInv, ReadyRing, RecycleRing
<1>26. CASE RecvLatest
  <2>1. /\ rpc = "rx_tail" /\ rpc' \in {"rx_drop", "rx_read"}
        /\ rreg'.newtail = NewTail(rreg.head, ready_tail) /\ rreg.head # ready_tail
        /\ ready_head' = ready_head /\ ready_tail' = ready_tail
        /\ rec_head' = rec_head /\ rec_tail' = rec_tail
        /\ wpc' = wpc /\ wreg' = wreg
        /\ clean' = clean
    BY <1>26, <1>2 DEF RecvLatest, ReadLocals, headerVars, writerVars, historyVars
  <2>2. ready_tail <= rreg.head /\ rreg.head <= ready_head
    BY <2>1, <1>4, SMT DEF ReadyRing
  <2>3. /\ NewTail(rreg.head, ready_tail) \in Nat
        /\ ready_tail <= NewTail(rreg.head, ready_tail)
        /\ NewTail(rreg.head, ready_tail) <= rreg.head
    BY <2>1, <2>2, <1>1, <1>3, NewTailBounds
  <2>4. rpc' = "rx_drop" \/ rpc' = "rx_read"
    BY <2>1
  <2> QED
    BY <2>1, <2>2, <2>3, <2>4, <1>1, <1>3, <1>4 DEF RingInv, ReadyRing, RecycleRing
<1>27. CASE RecvPanic
  <2>1. /\ rpc = "rx_tail" /\ rreg.head # ready_tail
        /\ Underflows(rreg.head, ready_tail)
        /\ clean' = clean
    BY <1>27 DEF RecvPanic, historyVars
  <2> QED
    BY <2>1, <1>1, <1>3, <1>4, NoUnderflow DEF RingInv, ReadyRing, RecycleRing
<1>28. CASE SkipTry
  <2>1. /\ rpc = "rx_drop" /\ rpc' = "rx_slot"
        /\ rreg'.newtail = rreg.newtail /\ rreg'.rec = rec_head
        /\ HasRoom(rec_head, rec_tail, RecCap)
        /\ ready_head' = ready_head /\ ready_tail' = ready_tail
        /\ rec_head' = rec_head /\ rec_tail' = rec_tail
        /\ wpc' = wpc /\ wreg' = wreg
        /\ clean' = clean
    BY <1>28, <1>2 DEF SkipTry, ReadLocals, headerVars, writerVars, historyVars
  <2> QED
    BY <2>1, <1>1, <1>3, <1>4, RoomMeans DEF RingInv, ReadyRing, RecycleRing
<1>29. CASE SkipStore
  <2>1. /\ rpc = "rx_slot" /\ rpc' \in {"rx_drop", "rx_read"}
        /\ rreg'.newtail = rreg.newtail
        /\ ready_head' = ready_head /\ ready_tail' = ready_tail
        /\ rec_head' = rreg.rec + 1 /\ rec_tail' = rec_tail
        /\ wpc' = wpc /\ wreg' = wreg
        /\ clean' = clean
    BY <1>29, <1>2 DEF SkipStore, ReadLocals, readyVars, writerVars
  <2> QED
    BY <2>1, <1>1, <1>3, <1>4 DEF RingInv, ReadyRing, RecycleRing
<1>30. CASE SkipFull
  <2>1. /\ rpc = "rx_drop" /\ rpc' = "rx_read" /\ rreg' = rreg
        /\ ready_head' = ready_head /\ ready_tail' = ready_tail
        /\ rec_head' = rec_head /\ rec_tail' = rec_tail
        /\ wpc' = wpc /\ wreg' = wreg
        /\ clean' = clean
    BY <1>30 DEF SkipFull, headerVars, writerVars, historyVars
  <2> QED
    BY <2>1, <1>1, <1>3, <1>4 DEF RingInv, ReadyRing, RecycleRing
<1>31. CASE RecvRead
  <2>1. /\ rpc = "rx_read"
        /\ rpc' = "idle" \/ (rpc' = "rx_take" /\ rreg'.newtail = rreg.newtail)
        /\ ready_head' = ready_head /\ ready_tail' = ready_tail
        /\ rec_head' = rec_head /\ rec_tail' = rec_tail
        /\ wpc' = wpc /\ wreg' = wreg
        /\ clean' = clean
    BY <1>31, <1>2 DEF RecvRead, ReadLocals, headerVars, writerVars, historyVars
  <2> QED
    BY <2>1, <1>1, <1>3, <1>4 DEF RingInv, ReadyRing, RecycleRing
<1>32. CASE RecvTake
  <2>1. /\ rpc = "rx_take" /\ rpc' = "idle"
        /\ ready_tail' = rreg.newtail /\ ready_head' = ready_head
        /\ rec_head' = rec_head /\ rec_tail' = rec_tail
        /\ wpc' = wpc /\ wreg' = wreg
        /\ clean' = clean
    BY <1>32 DEF RecvTake, recVars, writerVars
  <2> QED
    BY <2>1, <1>1, <1>3, <1>4 DEF RingInv, ReadyRing, RecycleRing
<1>33. CASE RecycleSpin
  <2>1. /\ rpc' = "rc_slot" /\ rreg'.rec = rec_head
        /\ HasRoom(rec_head, rec_tail, RecCap)
        /\ ready_head' = ready_head /\ ready_tail' = ready_tail
        /\ rec_head' = rec_head /\ rec_tail' = rec_tail
        /\ wpc' = wpc /\ wreg' = wreg
        /\ clean' = clean
    BY <1>33, <1>2 DEF RecycleSpin, ReadLocals, headerVars, writerVars, historyVars
  <2> QED
    BY <2>1, <1>1, <1>3, <1>4, RoomMeans DEF RingInv, ReadyRing, RecycleRing
<1>34. CASE RecycleStore
  <2>1. /\ rpc = "rc_slot" /\ rpc' = "idle"
        /\ ready_head' = ready_head /\ ready_tail' = ready_tail
        /\ rec_head' = rreg.rec + 1 /\ rec_tail' = rec_tail
        /\ wpc' = wpc /\ wreg' = wreg
        /\ clean' = clean
    BY <1>34 DEF RecycleStore, readyVars, writerVars, historyVars
  <2> QED
    BY <2>1, <1>1, <1>3, <1>4 DEF RingInv, ReadyRing, RecycleRing
<1>35. CASE AttachLoad
  <2>1. /\ rpc' = "attach" /\ rreg'.head = ready_head
        /\ ready_head' = ready_head /\ ready_tail' = ready_tail
        /\ rec_head' = rec_head /\ rec_tail' = rec_tail
        /\ wpc' = wpc /\ wreg' = wreg
        /\ clean' = clean
    BY <1>35, <1>2 DEF AttachLoad, ReadLocals, headerVars, writerVars, historyVars
  <2> QED
    BY <2>1, <1>1, <1>3, <1>4 DEF RingInv, ReadyRing, RecycleRing
<1>36. ASSUME NEW latest \in LatestOnly, RecvHead(latest)
      PROVE  RingInv'
  <2>1. /\ rpc' = "rx_tail" /\ rreg'.head = ready_head
        /\ ready_head' = ready_head /\ ready_tail' = ready_tail
        /\ rec_head' = rec_head /\ rec_tail' = rec_tail
        /\ wpc' = wpc /\ wreg' = wreg
        /\ clean' = clean
    BY <1>36, <1>2 DEF RecvHead, ReadLocals, headerVars, writerVars, historyVars
  <2> QED
    BY <2>1, <1>1, <1>3, <1>4 DEF RingInv, ReadyRing, RecycleRing
<1>37. ASSUME NEW w \in Wraps, DropWrap(w)
      PROVE  RingInv'
  <2>1. /\ rpc' = "rc_spin"
        /\ ready_head' = ready_head /\ ready_tail' = ready_tail
        /\ rec_head' = rec_head /\ rec_tail' = rec_tail
        /\ wpc' = wpc /\ wreg' = wreg
        /\ clean' = clean
    BY <1>37 DEF DropWrap, headerVars, writerVars, historyVars
  <2> QED
    BY <2>1, <1>1, <1>3, <1>4 DEF RingInv, ReadyRing, RecycleRing
<1>38. CASE Crash
  <2>1. /\ rpc' = "detached"
        /\ ready_head' = ready_head /\ ready_tail' = ready_tail
        /\ rec_head' = rec_head /\ rec_tail' = rec_tail
        /\ wpc' = wpc /\ wreg' = wreg
        /\ clean' = clean
    BY <1>38 DEF Crash, headerVars, writerVars, historyVars
  <2> QED
    BY <2>1, <1>1, <1>3, <1>4 DEF RingInv, ReadyRing, RecycleRing
<1>39. CASE UNCHANGED vars
  <2>1. headerVars' = headerVars /\ writerVars' = writerVars /\ readerVars' = readerVars /\ clean' = clean
    BY <1>39 DEF vars, historyVars
  <2> QED
    BY <2>1, <1>4 DEF RingInv, ReadyRing, RecycleRing, headerVars, writerVars, readerVars
<1>40. CASE WriterStep
  BY <1>40, <1>6, <1>7, <1>8, <1>9, <1>10, <1>11, <1>12, <1>13, <1>14,
     <1>15, <1>16, <1>17, <1>18, <1>19 DEF WriterStep
<1>41. CASE ReaderStep
  BY <1>41, <1>23, <1>24, <1>25, <1>26, <1>27, <1>28, <1>29, <1>30, <1>31,
     <1>32, <1>33, <1>34 DEF ReaderStep
<1>42. CASE WriterCall
  BY <1>42, <1>5, <1>20, <1>21, <1>22 DEF WriterCall
<1>43. CASE ReaderCall
  BY <1>43, <1>35, <1>36, <1>37 DEF ReaderCall
<1> QED
  BY <1>38, <1>39, <1>40, <1>41, <1>42, <1>43 DEF TransportNext

\* CleanRingsBounded: for every capacity, until the writer first drops or resets, the
\* wrapping distance of either ring is its length and no receive underflows, whatever
\* attaches, receives, finalizers, drains and consumer deaths do meanwhile.
THEOREM CleanRingsCorrect == TransportSpec => []CleanRingsBounded
<1>1. Init => TypeInv /\ RingInv
  BY InitType, InitRing
<1>2. TypeInv /\ RingInv /\ [TransportNext]_vars => (TypeInv /\ RingInv)'
  BY StepType, StepRing
<1>3. TypeInv /\ RingInv => CleanRingsBounded
  BY RingInvImplies
<1> QED
  BY <1>1, <1>2, <1>3, PTL DEF TransportSpec

--------------------------------------------------------------------------------
(***************************************************************************)
(* For every capacity, arena and set of leases and buffers: until the      *)
(* writer first drops a queued frame or resets, every allocation has at    *)
(* most one owner and every owner names a live one.                        *)
(*                                                                         *)
(* A step grants a new id to an owner, takes an owner's id away, frees the *)
(* id of an owner that is no more, or moves an id from one owner to        *)
(* another.  That a move takes the right id, and that a slot written is    *)
(* nobody's, rests on where the reader's positions are (Positions) and on  *)
(* what it remembers of the slot or buffer it is moving (Remembers).       *)
(***************************************************************************)

\* Owners and OwnedId as one set: who answers for which allocation id.
Ownership ==
    {<<"lease", l, lease[l].id>> : l \in {m \in Leases : lease[m] # None}}
        \cup {<<"ready", p, ready[ReadySlot(p)].id>> : p \in taken .. ready_head - 1}
        \cup {<<"held", w, held[w].id>> : w \in {v \in Wraps : held[v] # None}}
        \cup {<<"rec", q, recycle[RecSlot(q)]>> : q \in RecTaken .. rec_head - 1}

SingleOwner ==
    /\ \A t \in Ownership : t[3] \in DOMAIN used
    /\ \A t, u \in Ownership : t[3] = u[3] => t = u

\* What the reader has taken lies between tail and head, and between calls it is the
\* tail: a latest-only receive takes the entries it skips one by one, and goes on to
\* the chosen one.
Positions ==
    /\ ready_tail <= taken /\ taken <= ready_head
    /\ rpc \in {"idle", "rx_tail", "rc_spin", "rc_slot"} => taken = ready_tail
    /\ rpc = "attach" => taken <= rreg.head
    /\ rpc \in {"rx_drop", "rx_slot"} => taken = rreg.cur /\ rreg.cur < rreg.chosen
    /\ rpc \in Receiving => taken <= rreg.chosen /\ rreg.chosen < rreg.newtail

\* The descriptor in the reader's hands is the one in the slot or buffer it moves.
Remembers ==
    /\ rpc = "rx_slot" => rreg.desc.id = ready[ReadySlot(rreg.cur)].id
    /\ rpc = "rx_take" => rreg.desc.id = ready[ReadySlot(rreg.chosen)].id
    /\ rpc \in {"rc_spin", "rc_slot"} =>
         rreg.wrap \in Wraps /\ held[rreg.wrap] # None /\ held[rreg.wrap].id = rreg.desc.id

\* Leases, and the descriptors a receive can look at, lie inside the arena: it never
\* gives up on one for its bounds after it has recycled the ones before.
InArena ==
    /\ \A l \in Leases : lease[l] # None => lease[l].off + lease[l].len <= Total
    /\ \A p \in taken .. ready_head - 1 : validate_bounds(ready[ReadySlot(p)])

OwnerInv == NoOverlap /\ (clean => Positions /\ Remembers /\ InArena /\ SingleOwner)

\* Positions less than a ring apart have different slots.
LEMMA SlotsDiffer ==
    ASSUME NEW a \in Nat, NEW b \in Nat, NEW c \in Nat \ {0}, a < b, b < a + c
    PROVE  a % c # b % c
<1> DEFINE p == a \div c
           q == b \div c
<1>1. p \in Int /\ q \in Int /\ a = c * p + (a % c) /\ b = c * q + (b % c)
  OBVIOUS
<1> SUFFICES ASSUME a % c = b % c PROVE FALSE
  OBVIOUS
<1> HIDE DEF p, q
<1>2. b - a = c * (q - p)
  BY <1>1
<1>3. CASE q - p <= 0
  <2>1. c * (q - p) <= 0
    BY <1>1, <1>3
  <2> QED
    BY <1>2, <2>1
<1>4. CASE q - p >= 1
  <2>1. c * (q - p) >= c
    BY <1>1, <1>4
  <2> QED
    BY <1>2, <2>1
<1> QED
  BY <1>1, <1>3, <1>4

\* OwnerInv gives the invariant the runs check.
LEMMA OwnerInvImplies == OwnerInv => CleanSingleOwner
<1> SUFFICES ASSUME OwnerInv, clean PROVE CleanSingleOwner
  BY DEF CleanSingleOwner
<1>1. SingleOwner
  BY DEF OwnerInv
<1>2. ASSUME NEW o \in Owners
      PROVE  o = <<o[1], o[2]>> /\ <<o[1], o[2], OwnedId(o)>> \in Ownership
  <2>1. CASE \E l \in Leases : lease[l] # None /\ o = <<"lease", l>>
    BY <2>1 DEF Ownership, OwnedId
  <2>2. CASE \E p \in taken .. ready_head - 1 : o = <<"ready", p>>
    BY <2>2 DEF Ownership, OwnedId
  <2>3. CASE \E w \in Wraps : held[w] # None /\ o = <<"held", w>>
    BY <2>3 DEF Ownership, OwnedId
  <2>4. CASE \E q \in RecTaken .. rec_head - 1 : o = <<"rec", q>>
    BY <2>4 DEF Ownership, OwnedId
  <2> QED
    BY <2>1, <2>2, <2>3, <2>4 DEF Owners
<1>3. ASSUME NEW o \in Owners PROVE OwnedId(o) \in DOMAIN used
  BY <1>1, <1>2 DEF SingleOwner
<1>4. ASSUME NEW o \in Owners, NEW q \in Owners, OwnedId(o) = OwnedId(q) PROVE o = q
  <2>1. <<o[1], o[2], OwnedId(o)>> = <<q[1], q[2], OwnedId(q)>>
    <3> DEFINE s == <<o[1], o[2], OwnedId(o)>>
               t == <<q[1], q[2], OwnedId(q)>>
    <3>1. s \in Ownership /\ t \in Ownership /\ s[3] = t[3]
      BY <1>2, <1>4
    <3> HIDE DEF s, t
    <3>2. s = t
      BY <1>1, <3>1 DEF SingleOwner
    <3> QED
      BY <3>2 DEF s, t
  <2>2. o[1] = q[1] /\ o[2] = q[2]
    BY <2>1
  <2> QED
    BY <1>2, <2>2
<1> QED
  BY <1>3, <1>4 DEF CleanSingleOwner

LEMMA InitOwner == Init => OwnerInv
<1> SUFFICES ASSUME Init PROVE OwnerInv
  OBVIOUS
<1>1. NoOverlap
  BY AllocatorAssumption DEF Init, WriterInit, New, NoOverlap, End
<1>2. Ownership = {}
  BY DEF Init, WriterInit, ReaderInit, Ownership, RecTaken
<1>3. Positions /\ Remembers /\ InArena
  BY DEF Init, WriterInit, ReaderInit, Positions, Remembers, InArena, Receiving
<1> QED
  BY <1>1, <1>2, <1>3 DEF OwnerInv, SingleOwner

\* The writer uses the allocator by its operations only.
LEMMA AllocatorCalls ==
    ASSUME [TransportNext]_vars
    PROVE  \/ Alloc(wreg.size) \/ (\E id : FreeById(id)) \/ Renew \/ UNCHANGED allocVars
BY DEF TransportNext, WriterStep, WriterCall, ReaderStep, ReaderCall, vars, AllocGrant,
       DropOldest, DropStore, Reset, ResetReadyTail, ResetRecHead, ResetRecTail, Exhausted,
       Copy, PushSpin, PushStore, DrainTake, DrainStore, DrainEnd, AllocLease, PublishLease,
       FreeLease, DrainBegin, AttachLoad, AttachStore, RecvHead, RecvEmpty, RecvFifo,
       RecvLatest, RecvPanic, SkipTry, SkipStore, SkipFull, RecvRead, RecvTake, DropWrap,
       RecycleSpin, RecycleStore, Crash, FreeIfLive

\* So it keeps blocks apart.
LEMMA StepNoOverlap == TypeInv /\ NoOverlap /\ [TransportNext]_vars => NoOverlap'
<1> SUFFICES ASSUME TypeInv, NoOverlap, [TransportNext]_vars PROVE NoOverlap'
  OBVIOUS
<1>1. TypeOK /\ wreg.size \in Nat
  BY DEF TypeInv, WriterOK, WriteLocals
<1>2. \/ Alloc(wreg.size) \/ (\E id : FreeById(id)) \/ Renew \/ UNCHANGED allocVars
  BY AllocatorCalls
<1> QED
  BY <1>1, <1>2, AllocNoOverlap, FreeNoOverlap, RenewNoOverlap DEF NoOverlap, allocVars

\* What else OwnerInv says while clean.
Owned == Positions /\ Remembers /\ InArena /\ SingleOwner

\* A step that leaves every owner's place alone.
LEMMA OwnersStay ==
    ASSUME SingleOwner, InArena, RecTaken' = RecTaken,
           UNCHANGED <<used, ready_head, ready, rec_head, recycle, lease, held, taken>>
    PROVE  InArena' /\ SingleOwner'
<1>1. Ownership' = Ownership
  BY DEF Ownership, ReadySlot, RecSlot
<1> QED
  BY <1>1 DEF SingleOwner, InArena, validate_bounds, ReadySlot

\* A step after which u owns the id that t owned, and the rest is as before or less.
LEMMA OwnerMoves ==
    ASSUME SingleOwner, used' = used, NEW t \in Ownership, NEW u, u[3] = t[3],
           Ownership' \subseteq (Ownership \ {t}) \cup {u}
    PROVE  SingleOwner'
BY DEF SingleOwner

\* A step that frees an id and its owner.
LEMMA OwnerFreed ==
    ASSUME SingleOwner, NEW t \in Ownership, Ownership' \subseteq Ownership \ {t},
           \A i \in DOMAIN used : i # t[3] => i \in DOMAIN used'
    PROVE  SingleOwner'
BY DEF SingleOwner

\* A step after which some owners are no more: their ids stay live, unowned.
LEMMA OwnersGone ==
    ASSUME SingleOwner, used' = used, Ownership' \subseteq Ownership
    PROVE  SingleOwner'
BY DEF SingleOwner

\* free_by_id drops at most the id it is given.
LEMMA FreeKeeps ==
    ASSUME NEW id, FreeIfLive(id)
    PROVE  \A i \in DOMAIN used : i # id => i \in DOMAIN used'
BY DEF FreeIfLive, FreeById, allocVars

\* The slot the writer fills holds no descriptor that is still owned.
LEMMA ReadySlotFree ==
    ASSUME TypeInv, RingInv, clean, Positions, wpc = "slot", NEW p \in taken .. ready_head - 1
    PROVE  ReadySlot(p) # ReadySlot(wreg.pos)
<1>1. /\ ready_head \in Nat /\ ready_tail \in Nat /\ taken \in Nat /\ ReadyCap \in Nat \ {0}
      /\ wreg.pos = ready_head /\ ready_head < ready_tail + ReadyCap /\ ready_tail <= taken
  BY TransportAssumption
     DEF TypeInv, HeaderOK, HistoryOK, RingInv, ReadyRing, Positions
<1>2. p \in Nat /\ p < wreg.pos /\ wreg.pos < p + ReadyCap
  BY <1>1
<1> QED
  BY <1>1, <1>2, SlotsDiffer DEF ReadySlot

\* The slot the reader fills holds no id that is still to be freed.
LEMMA RecSlotFree ==
    ASSUME TypeInv, RingInv, clean, rpc \in Pushing, NEW q \in rec_tail .. rec_head - 1
    PROVE  RecSlot(q) # RecSlot(rreg.rec)
<1>1. /\ rec_head \in Nat /\ rec_tail \in Nat /\ RecCap \in Nat \ {0}
      /\ rreg.rec = rec_head /\ rec_head < rec_tail + RecCap
  BY TransportAssumption DEF TypeInv, HeaderOK, RingInv, RecycleRing
<1>2. q \in Nat /\ q < rreg.rec /\ rreg.rec < q + RecCap
  BY <1>1
<1> QED
  BY <1>1, <1>2, SlotsDiffer DEF RecSlot

\* A read of a slot that holds an owned descriptor is not torn.
LEMMA ReadNotTorn ==
    ASSUME TypeInv, RingInv, clean, Positions, NEW p \in taken .. ready_head - 1
    PROVE  ReadySlotReads(ReadySlot(p)) = {ready[ReadySlot(p)]}
BY ReadySlotFree DEF ReadySlotReads

\* Nor is a read of the id next to be freed.
LEMMA RecReadNotTorn ==
    ASSUME TypeInv, RingInv, clean, NEW q \in rec_tail .. rec_head - 1
    PROVE  RecSlotReads(RecSlot(q)) = {recycle[RecSlot(q)]}
BY RecSlotFree DEF RecSlotReads, Pushing

\* A lease granted lies inside the arena.
LEMMA GrantInArena ==
    ASSUME TypeOK, NoOverlap, NEW size \in Nat, Alloc(size)
    PROVE  /\ used'[next_id].start + size <= Total
           /\ next_id \in DOMAIN used' /\ DOMAIN used \subseteq DOMAIN used'
<1>1. PICK b \in free :
        /\ Fits(b, size)
        /\ used' = [i \in (DOMAIN used) \cup {next_id} |->
                      IF i = next_id THEN [start |-> align_up(b.start), size |-> size]
                                     ELSE used[i]]
  BY DEF Alloc, IsFirstFit
<1>2. used'[next_id].start = align_up(b.start) /\ DOMAIN used' = (DOMAIN used) \cup {next_id}
  BY <1>1
<1>3. b.start \in Nat /\ b.size \in Nat /\ End(b) <= Total
  BY DEF TypeOK, Block, NoOverlap
<1>4. align_up(b.start) \in Nat /\ End(b) \in Nat
  BY <1>3, AlignUpBounds DEF End
<1> QED
  BY <1>1, <1>2, <1>3, <1>4, AllocatorAssumption DEF Fits

\* Once dirty, always dirty; while clean, the writer is never half way through a drop
\* or a reset and the reader has not panicked.
LEMMA StepClean == TypeInv /\ RingInv /\ [TransportNext]_vars /\ clean' => clean
BY DEF TransportNext, WriterStep, WriterCall, ReaderStep, ReaderCall, vars, AllocGrant,
       DropOldest, DropStore, Reset, ResetReadyTail, ResetRecHead, ResetRecTail, Exhausted,
       Copy, PushSpin, PushStore, DrainTake, DrainStore, DrainEnd, AllocLease, PublishLease,
       FreeLease, DrainBegin, AttachLoad, AttachStore, RecvHead, RecvEmpty, RecvFifo,
       RecvLatest, RecvPanic, SkipTry, SkipStore, SkipFull, RecvRead, RecvTake, DropWrap,
       RecycleSpin, RecycleStore, Crash, historyVars

\* The writer's steps that own nothing new, move nothing and free nothing.
LEMMA WriterLocal ==
    ASSUME Owned, wpc # "drain_store", wpc' # "drain_store",
           UNCHANGED <<used, headerVars, ready, recycle, lease, readerVars, taken>>
    PROVE  Owned'
<1>1. /\ RecTaken' = RecTaken
      /\ UNCHANGED <<used, ready_head, ready, rec_head, recycle, lease, held, taken>>
  BY DEF RecTaken, headerVars, readyVars, recVars, readerVars
<1>2. InArena' /\ SingleOwner'
  BY <1>1, OwnersStay DEF Owned
<1>3. Positions' /\ Remembers'
  BY DEF Owned, Positions, Remembers, Receiving, headerVars, readyVars, readerVars, ReadySlot
<1> QED
  BY <1>2, <1>3 DEF Owned

\* What the reader is moving off the ready ring has not been taken before.
LEMMA InHands ==
    ASSUME TypeInv, RingInv, clean, Positions
    PROVE  /\ rpc \in {"rx_drop", "rx_slot"} => rreg.cur \in taken .. ready_head - 1
           /\ rpc \in Receiving => rreg.chosen \in taken .. ready_head - 1
<1>1. /\ ready_head \in Nat /\ taken \in Nat
      /\ rreg.cur \in Nat /\ rreg.chosen \in Nat /\ rreg.newtail \in Nat
  BY ReadLocalsFields DEF TypeInv, HeaderOK, HistoryOK, ReaderOK
<1> QED
  BY <1>1 DEF Positions, RingInv, ReadyRing, Receiving

\* The writer's steps.
LEMMA StepWriter ==
    ASSUME TypeInv, RingInv, NoOverlap, clean, clean', Owned, WriterStep \/ WriterCall
    PROVE  Owned'
<1>1. /\ ready_head \in Nat /\ ready_tail \in Nat /\ rec_head \in Nat /\ rec_tail \in Nat
      /\ taken \in Nat
  BY DEF TypeInv, HeaderOK, HistoryOK
<1>2. /\ lease \in [Leases -> Lease \cup {None}]
      /\ ready \in [0 .. ReadyCap - 1 -> Desc]
      /\ wreg \in WriteLocals /\ (wpc \in Busy => wreg.lease \in Leases)
      /\ (wpc = "slot" => lease[wreg.lease] # None)
  BY DEF TypeInv, WriterOK, RegionOK
<1>3. ReadyRing /\ RecycleRing /\ wpc \notin Dropping
  BY DEF RingInv
<1>4. Positions /\ Remembers /\ InArena /\ SingleOwner
  BY DEF Owned
<1>5. ASSUME NEW l \in Leases, NEW size \in Sizes, NEW publish \in BOOLEAN,
             AllocLease(l, size, publish)
      PROVE  Owned'
  <2>1. /\ wpc # "drain_store" /\ wpc' # "drain_store"
        /\ UNCHANGED <<used, headerVars, ready, recycle, lease, readerVars, taken>>
    BY <1>5 DEF AllocLease, allocVars, historyVars
  <2> QED
    BY <2>1, WriterLocal
<1>6. ASSUME NEW l \in Leases, PublishLease(l) PROVE Owned'
  <2>1. /\ wpc # "drain_store" /\ wpc' # "drain_store"
        /\ UNCHANGED <<used, headerVars, ready, recycle, lease, readerVars, taken>>
    BY <1>6 DEF PublishLease, allocVars, historyVars
  <2> QED
    BY <2>1, WriterLocal
<1>7. CASE DrainBegin
  <2>1. /\ wpc # "drain_store" /\ wpc' # "drain_store"
        /\ UNCHANGED <<used, headerVars, ready, recycle, lease, readerVars, taken>>
    BY <1>7 DEF DrainBegin, allocVars, historyVars
  <2> QED
    BY <2>1, WriterLocal
<1>8. CASE Exhausted
  <2>1. /\ wpc # "drain_store" /\ wpc' # "drain_store"
        /\ UNCHANGED <<used, headerVars, ready, recycle, lease, readerVars, taken>>
    BY <1>8 DEF Exhausted, allocVars, historyVars
  <2> QED
    BY <2>1, WriterLocal
<1>9. CASE Copy
  <2>1. /\ wpc # "drain_store" /\ wpc' # "drain_store"
        /\ UNCHANGED <<used, headerVars, ready, recycle, lease, readerVars, taken>>
    BY <1>9 DEF Copy, allocVars, historyVars
  <2> QED
    BY <2>1, WriterLocal
<1>10. CASE PushSpin
  <2>1. /\ wpc # "drain_store" /\ wpc' # "drain_store"
        /\ UNCHANGED <<used, headerVars, ready, recycle, lease, readerVars, taken>>
    BY <1>10 DEF PushSpin, allocVars, historyVars
  <2> QED
    BY <2>1, WriterLocal
<1>11. CASE DrainEnd
  <2>1. /\ wpc # "drain_store" /\ wpc' # "drain_store"
        /\ UNCHANGED <<used, headerVars, ready, recycle, lease, readerVars, taken>>
    BY <1>11 DEF DrainEnd, allocVars, historyVars
  <2> QED
    BY <2>1, WriterLocal
<1>12. CASE DrainStore
  <2>1. RecTaken' = RecTaken /\ ready_head' = ready_head /\ ready_tail' = ready_tail
        /\ rec_head' = rec_head
    BY <1>12, <1>3 DEF DrainStore, RecTaken, RecycleRing, readyVars
  <2>2. UNCHANGED <<used, ready, recycle, lease, readerVars, taken>>
    BY <1>12 DEF DrainStore, allocVars, historyVars
  <2>3. InArena' /\ SingleOwner'
    BY <1>4, <2>1, <2>2, OwnersStay DEF readerVars
  <2>4. Positions' /\ Remembers'
    BY <1>4, <2>1, <2>2 DEF Positions, Remembers, Receiving, readerVars, ReadySlot
  <2> QED
    BY <2>3, <2>4 DEF Owned
<1>13. CASE AllocGrant
  <2> DEFINE l == wreg.lease
             u == <<"lease", l, next_id>>
  <2>1. /\ l \in Leases /\ wreg.size \in Nat /\ Alloc(wreg.size)
        /\ lease' = [lease EXCEPT ![l] =
                       [id |-> next_id, off |-> used'[next_id].start, len |-> wreg.size]]
        /\ next_id \notin DOMAIN used
        /\ UNCHANGED <<headerVars, ready, recycle, readerVars, taken>>
        /\ RecTaken' = RecTaken
    BY <1>13, <1>2 DEF AllocGrant, Busy, WriteLocals, RecTaken, headerVars, recVars
  <2>2. /\ used'[next_id].start + wreg.size <= Total
        /\ next_id \in DOMAIN used' /\ DOMAIN used \subseteq DOMAIN used'
    BY <2>1, GrantInArena DEF TypeInv
  <2>3. /\ lease'[l] = [id |-> next_id, off |-> used'[next_id].start, len |-> wreg.size]
        /\ \A m \in Leases : m # l => lease'[m] = lease[m]
    BY <2>1, <1>2
  <2>4. Ownership' \subseteq Ownership \cup {u}
    BY <2>1, <2>3 DEF Ownership, headerVars, readyVars, recVars, readerVars, ReadySlot, RecSlot
  <2>5. u[3] = next_id
    OBVIOUS
  <2>6. SingleOwner'
    <3> HIDE DEF u
    <3> QED
      BY <1>4, <2>1, <2>2, <2>4, <2>5 DEF SingleOwner
  <2>7. InArena'
    BY <1>4, <2>1, <2>2, <2>3 DEF InArena, validate_bounds, headerVars, readyVars, ReadySlot
  <2>8. Positions' /\ Remembers'
    BY <1>4, <2>1 DEF Positions, Remembers, Receiving, headerVars, readyVars, readerVars,
                      ReadySlot
  <2> QED
    BY <2>6, <2>7, <2>8 DEF Owned
<1>14. CASE PushStore
  <2> DEFINE l == wreg.lease
             t == <<"lease", l, lease[l].id>>
             u == <<"ready", ready_head, lease[l].id>>
  <2>1. /\ wpc = "slot" /\ l \in Leases /\ lease[l] # None /\ wreg.pos = ready_head
        /\ ready' = [ready EXCEPT ![ReadySlot(ready_head)] = Published]
        /\ ready_head' = ready_head + 1
        /\ lease' = [lease EXCEPT ![l] = None]
        /\ ready_tail' = ready_tail /\ rec_head' = rec_head /\ RecTaken' = RecTaken
        /\ UNCHANGED <<used, recycle, readerVars, taken>>
    BY <1>14, <1>2, <1>3
       DEF PushStore, Busy, ReadyRing, RecTaken, allocVars, recVars, historyVars
  <2>2. ReadySlot(ready_head) \in 0 .. ReadyCap - 1
    BY <1>1, TransportAssumption DEF ReadySlot
  <2>3. ready'[ReadySlot(ready_head)] = Published /\ Published.id = lease[l].id
        /\ Published.off = lease[l].off /\ Published.len = lease[l].len
    BY <1>2, <2>1, <2>2 DEF Published
  <2>4. \A p \in taken .. ready_head - 1 :
          ready'[ReadySlot(p)] = ready[ReadySlot(p)]
    BY <1>2, <1>4, <2>1, ReadySlotFree
  <2>5. lease'[l] = None /\ \A m \in Leases : m # l => lease'[m] = lease[m]
    BY <2>1, <1>2
  <2>6. \A p \in taken .. ready_head' - 1 : p = ready_head \/ p \in taken .. ready_head - 1
    BY <1>1, <2>1
  <2>7. t \in Ownership /\ u[3] = t[3]
    BY <2>1 DEF Ownership
  <2>8. Ownership' \subseteq (Ownership \ {t}) \cup {u}
    <3>1. ASSUME NEW m \in Leases, lease'[m] # None
          PROVE  <<"lease", m, lease'[m].id>> \in Ownership \ {t}
      BY <2>5, <3>1 DEF Ownership
    <3>2. ASSUME NEW p \in taken .. ready_head' - 1
          PROVE  <<"ready", p, ready'[ReadySlot(p)].id>> \in (Ownership \ {t}) \cup {u}
      BY <2>3, <2>4, <2>6 DEF Ownership
    <3>3. ASSUME NEW w \in Wraps, held[w] # None
          PROVE  <<"held", w, held[w].id>> \in Ownership \ {t}
      BY <3>3 DEF Ownership
    <3>4. ASSUME NEW q \in RecTaken .. rec_head - 1
          PROVE  <<"rec", q, recycle[RecSlot(q)]>> \in Ownership \ {t}
      BY DEF Ownership
    <3> HIDE DEF t, u
    <3> QED
      BY <2>1, <3>1, <3>2, <3>3, <3>4 DEF Ownership, readerVars, ReadySlot, RecSlot
  <2>9. SingleOwner'
    <3> HIDE DEF t, u
    <3> QED
      BY <1>4, <2>1, <2>7, <2>8, OwnerMoves
  <2>10. InArena'
    BY <1>4, <2>1, <2>3, <2>4, <2>5, <2>6 DEF InArena, validate_bounds, ReadySlot
  <2>11. Positions'
    BY <1>1, <1>4, <2>1 DEF Positions, Receiving, readerVars
  <2>12. Remembers'
    <3>1. rpc = "rx_slot" =>
            rreg.cur \in taken .. ready_head - 1
              /\ ready'[ReadySlot(rreg.cur)] = ready[ReadySlot(rreg.cur)]
      BY <1>4, <2>4, InHands
    <3>2. rpc = "rx_take" =>
            rreg.chosen \in taken .. ready_head - 1
              /\ ready'[ReadySlot(rreg.chosen)] = ready[ReadySlot(rreg.chosen)]
      BY <1>4, <2>4, InHands DEF Receiving
    <3>3. rpc' = rpc /\ rreg' = rreg /\ held' = held
      BY <2>1 DEF readerVars
    <3> QED
      BY <1>4, <3>1, <3>2, <3>3 DEF Remembers, ReadySlot
  <2> QED
    BY <2>9, <2>10, <2>11, <2>12 DEF Owned
<1>15. ASSUME NEW l \in Leases, FreeLease(l) PROVE Owned'
  <2> DEFINE t == <<"lease", l, lease[l].id>>
  <2>1. /\ lease[l] # None /\ FreeIfLive(lease[l].id)
        /\ lease' = [lease EXCEPT ![l] = None]
        /\ UNCHANGED <<headerVars, ready, recycle, readerVars, taken>>
        /\ RecTaken' = RecTaken
    BY <1>15 DEF FreeLease, RecTaken, headerVars, recVars, historyVars
  <2>2. lease'[l] = None /\ \A m \in Leases : m # l => lease'[m] = lease[m]
    BY <2>1, <1>2
  <2>3. t \in Ownership /\ t[3] = lease[l].id
    BY <2>1 DEF Ownership
  <2>4. Ownership' \subseteq Ownership \ {t}
    BY <2>1, <2>2 DEF Ownership, headerVars, readyVars, recVars, readerVars, ReadySlot, RecSlot
  <2>5. \A i \in DOMAIN used : i # t[3] => i \in DOMAIN used'
    BY <2>1, <2>3, FreeKeeps
  <2>6. SingleOwner'
    <3> HIDE DEF t
    <3> QED
      BY <1>4, <2>3, <2>4, <2>5, OwnerFreed
  <2>7. InArena'
    BY <1>4, <2>1, <2>2 DEF InArena, validate_bounds, headerVars, readyVars, ReadySlot
  <2>8. Positions' /\ Remembers'
    BY <1>4, <2>1 DEF Positions, Remembers, Receiving, headerVars, readyVars, readerVars,
                      ReadySlot
  <2> QED
    BY <2>6, <2>7, <2>8 DEF Owned
<1>16. CASE DrainTake
  <2> DEFINE t == <<"rec", rec_tail, recycle[RecSlot(rec_tail)]>>
  <2>1. /\ RecTaken = rec_tail /\ RecTaken' = rec_tail + 1
        /\ \E id \in RecSlotReads(RecSlot(rec_tail)) : FreeIfLive(id)
        /\ UNCHANGED <<headerVars, ready, recycle, lease, readerVars, taken>>
    BY <1>16 DEF DrainTake, RecTaken, headerVars, recVars, historyVars
  <2>2. rec_tail \in rec_tail .. rec_head - 1
    BY <1>16, <1>1, <1>3 DEF DrainTake, RecycleRing
  <2>3. FreeIfLive(recycle[RecSlot(rec_tail)])
    BY <2>1, <2>2, RecReadNotTorn
  <2>4. t \in Ownership /\ t[3] = recycle[RecSlot(rec_tail)]
    BY <2>1, <2>2 DEF Ownership
  <2>5. \A q \in RecTaken' .. rec_head - 1 : q \in RecTaken .. rec_head - 1 /\ q # rec_tail
    BY <1>1, <2>1
  <2>6. Ownership' \subseteq Ownership \ {t}
    BY <2>1, <2>5 DEF Ownership, headerVars, readyVars, recVars, readerVars, ReadySlot, RecSlot
  <2>7. \A i \in DOMAIN used : i # t[3] => i \in DOMAIN used'
    BY <2>3, <2>4, FreeKeeps
  <2>8. SingleOwner'
    <3> HIDE DEF t
    <3> QED
      BY <1>4, <2>4, <2>6, <2>7, OwnerFreed
  <2>9. InArena' /\ Positions' /\ Remembers'
    BY <1>4, <2>1 DEF InArena, validate_bounds, Positions, Remembers, Receiving, headerVars,
                      readyVars, readerVars, ReadySlot
  <2> QED
    BY <2>8, <2>9 DEF Owned
<1>17. ~DropOldest /\ ~Reset
  BY DEF DropOldest, Reset
<1>18. ~DropStore /\ ~ResetReadyTail /\ ~ResetRecHead /\ ~ResetRecTail
  BY <1>3 DEF Dropping, DropStore, ResetReadyTail, ResetRecHead, ResetRecTail
<1>19. CASE WriterStep
  BY <1>8, <1>9, <1>10, <1>11, <1>12, <1>13, <1>14, <1>16, <1>17, <1>18, <1>19 DEF WriterStep
<1>20. CASE WriterCall
  BY <1>5, <1>6, <1>7, <1>15, <1>20 DEF WriterCall
<1> QED
  BY <1>19, <1>20

\* The reader's steps that only change what it remembers.
LEMMA ReaderLocal ==
    ASSUME Owned,
           UNCHANGED <<used, headerVars, ready, recycle, lease, wpc, held, taken>>,
           Positions', Remembers'
    PROVE  Owned'
<1>1. /\ RecTaken' = RecTaken
      /\ UNCHANGED <<used, ready_head, ready, rec_head, recycle, lease, held, taken>>
  BY DEF RecTaken, headerVars, readyVars, recVars
<1>2. InArena' /\ SingleOwner'
  BY <1>1, OwnersStay DEF Owned
<1> QED
  BY <1>2 DEF Owned

\* The reader's steps, and the consumer's death.
LEMMA StepReader ==
    ASSUME TypeInv, RingInv, clean, clean', Owned, ReaderStep \/ ReaderCall \/ Crash
    PROVE  Owned'
<1>1. /\ ready_head \in Nat /\ ready_tail \in Nat /\ rec_head \in Nat /\ rec_tail \in Nat
      /\ taken \in Nat /\ ReadyCap \in Nat \ {0} /\ RecCap \in Nat \ {0}
      /\ U64 \in Nat
  BY TransportAssumption DEF TypeInv, HeaderOK, HistoryOK
<1>2. /\ held \in [Wraps -> Desc \cup {None}]
      /\ recycle \in [0 .. RecCap - 1 -> Nat]
      /\ rreg \in ReadLocals /\ NoRead \in ReadLocals
  BY LocalsType DEF TypeInv, ReaderOK, RegionOK
<1>3. /\ rreg.head \in Nat /\ rreg.cur \in Nat /\ rreg.chosen \in Nat /\ rreg.newtail \in Nat
      /\ rreg.rec \in Nat
  BY <1>2, ReadLocalsFields
<1>4. ReadyRing /\ RecycleRing /\ rpc # "poisoned"
  BY DEF RingInv
<1>5. Positions /\ Remembers /\ InArena /\ SingleOwner
  BY DEF Owned
<1>6. RecTaken \in Nat /\ RecTaken >= rec_tail
  BY <1>1 DEF RecTaken
<1> USE DEF Receiving
<1>7. CASE AttachLoad
  <2>1. /\ rpc' = "attach" /\ rreg'.head = ready_head
        /\ UNCHANGED <<used, headerVars, ready, recycle, lease, wpc, held, taken>>
    BY <1>7, <1>2 DEF AttachLoad, NoRead, allocVars, writerVars, historyVars
  <2>2. Positions' /\ Remembers'
    BY <1>5, <2>1 DEF Positions, Remembers, headerVars, readyVars
  <2> QED
    BY <2>1, <2>2, ReaderLocal
<1>8. CASE AttachStore
  <2>1. /\ rpc = "attach" /\ rpc' = "idle" /\ ready_tail' = rreg.head /\ taken' = rreg.head
        /\ ready_head' = ready_head /\ RecTaken' = RecTaken /\ rec_head' = rec_head
        /\ UNCHANGED <<used, ready, recycle, lease, held>>
    BY <1>8 DEF AttachStore, RecTaken, allocVars, recVars, writerVars
  <2>2. taken <= taken' /\ taken' <= ready_head
    BY <1>4, <1>5, <2>1 DEF Positions, ReadyRing
  <2>3. \A p \in taken' .. ready_head - 1 : p \in taken .. ready_head - 1
    BY <1>1, <1>3, <2>1, <2>2
  <2>4. Ownership' \subseteq Ownership
    BY <2>1, <2>3 DEF Ownership, ReadySlot, RecSlot
  <2>5. SingleOwner'
    BY <1>5, <2>1, <2>4, OwnersGone
  <2>6. InArena'
    BY <1>5, <2>1, <2>3 DEF InArena, validate_bounds, ReadySlot
  <2>7. Positions' /\ Remembers'
    BY <1>3, <2>1, <2>2 DEF Positions, Remembers
  <2> QED
    BY <2>5, <2>6, <2>7 DEF Owned
<1>9. ASSUME NEW latest \in LatestOnly, RecvHead(latest) PROVE Owned'
  <2>1. /\ rpc = "idle" /\ rpc' = "rx_tail"
        /\ UNCHANGED <<used, headerVars, ready, recycle, lease, wpc, held, taken>>
    BY <1>9 DEF RecvHead, allocVars, writerVars, historyVars
  <2>2. Positions' /\ Remembers'
    BY <1>5, <2>1 DEF Positions, Remembers, headerVars, readyVars
  <2> QED
    BY <2>1, <2>2, ReaderLocal
<1>10. CASE RecvEmpty
  <2>1. /\ rpc = "rx_tail" /\ rpc' = "idle"
        /\ UNCHANGED <<used, headerVars, ready, recycle, lease, wpc, held, taken>>
    BY <1>10 DEF RecvEmpty, allocVars, writerVars, historyVars
  <2>2. Positions' /\ Remembers'
    BY <1>5, <2>1 DEF Positions, Remembers, headerVars, readyVars
  <2> QED
    BY <2>1, <2>2, ReaderLocal
<1>11. CASE RecvFifo
  <2>1. /\ rpc = "rx_tail" /\ rpc' = "rx_read"
        /\ rreg'.chosen = ready_tail /\ rreg'.newtail = ready_tail + 1
        /\ UNCHANGED <<used, headerVars, ready, recycle, lease, wpc, held, taken>>
    BY <1>11, <1>2 DEF RecvFifo, ReadLocals, allocVars, writerVars, historyVars
  <2>2. Positions' /\ Remembers'
    BY <1>1, <1>5, <2>1 DEF Positions, Remembers, headerVars, readyVars
  <2> QED
    BY <2>1, <2>2, ReaderLocal
<1>12. CASE RecvLatest
  <2> DEFINE chosen == Chosen(rreg.head, ready_tail)
             newtail == NewTail(rreg.head, ready_tail)
  <2>1. /\ rpc = "rx_tail" /\ rreg.head # ready_tail
        /\ rpc' = (IF Older(ready_tail, chosen) THEN "rx_drop" ELSE "rx_read")
        /\ rreg'.cur = ready_tail /\ rreg'.chosen = chosen /\ rreg'.newtail = newtail
        /\ UNCHANGED <<used, headerVars, ready, recycle, lease, wpc, held, taken>>
    BY <1>12, <1>2 DEF RecvLatest, ReadLocals, allocVars, writerVars, historyVars
  <2>2. ready_tail <= rreg.head /\ rreg.head # ready_tail
    BY <1>4, <2>1 DEF ReadyRing
  <2>3. chosen \in Nat /\ newtail \in Nat /\ ready_tail <= chosen /\ chosen < newtail
    BY <1>1, <1>3, <2>2 DEF Chosen, NewTail, saturating_sub, wrapping_sub
  <2> HIDE DEF chosen, newtail
  <2>4. Positions'
    <3>1. taken' = ready_tail /\ ready_tail' = ready_tail /\ ready_head' = ready_head
          /\ ready_tail <= ready_head
      BY <1>5, <2>1 DEF Positions, headerVars, readyVars
    <3>2. rpc' = "rx_drop" => ready_tail < chosen
      BY <2>1 DEF Older
    <3>3. rpc' = "rx_drop" \/ rpc' = "rx_read"
      BY <2>1
    <3> QED
      BY <1>1, <2>1, <2>3, <3>1, <3>2, <3>3 DEF Positions
  <2>5. Remembers'
    BY <2>1 DEF Remembers
  <2> QED
    BY <2>1, <2>4, <2>5, ReaderLocal
<1>13. ~RecvPanic
  <2>1. rpc = "rx_tail" /\ rreg.head # ready_tail =>
          ~Underflows(rreg.head, ready_tail)
    BY <1>1, <1>3, <1>4, NoUnderflow DEF ReadyRing
  <2> QED
    BY <2>1 DEF RecvPanic
<1>14. CASE SkipTry
  <2>1. \E d \in ReadySlotReads(ReadySlot(rreg.cur)) :
          rreg' = [rreg EXCEPT !.desc = d, !.rec = rec_head]
    BY <1>14 DEF SkipTry
  <2>2. /\ rpc = "rx_drop" /\ rpc' = "rx_slot"
        /\ UNCHANGED <<used, headerVars, ready, recycle, lease, wpc, held, taken>>
    BY <1>14 DEF SkipTry, allocVars, writerVars, historyVars
  <2>3. ReadySlotReads(ReadySlot(rreg.cur)) = {ready[ReadySlot(rreg.cur)]}
    BY <1>5, <2>2, InHands, ReadNotTorn
  <2>4. /\ rreg'.desc = ready[ReadySlot(rreg.cur)]
        /\ rreg'.cur = rreg.cur /\ rreg'.chosen = rreg.chosen /\ rreg'.newtail = rreg.newtail
    BY <1>2, <2>1, <2>3 DEF ReadLocals
  <2>5. Positions' /\ Remembers'
    BY <1>5, <2>2, <2>4 DEF Positions, Remembers, headerVars, readyVars, ReadySlot
  <2> QED
    BY <2>2, <2>5, ReaderLocal
<1>15. CASE SkipStore
  <2> DEFINE id == ready[ReadySlot(taken)].id
             t == <<"ready", taken, id>>
             u == <<"rec", rec_head, id>>
  <2>1. /\ rpc = "rx_slot" /\ taken = rreg.cur /\ rreg.cur < rreg.chosen
        /\ rreg.desc.id = id /\ rreg.rec = rec_head
        /\ taken <= rreg.chosen /\ rreg.chosen < rreg.newtail
    BY <1>4, <1>5, <1>15 DEF SkipStore, Positions, Remembers, RecycleRing, Pushing
  <2>2. /\ recycle' = [recycle EXCEPT ![RecSlot(rec_head)] = id]
        /\ rec_head' = rec_head + 1 /\ taken' = taken + 1
        /\ ready_head' = ready_head /\ ready_tail' = ready_tail /\ RecTaken' = RecTaken
        /\ UNCHANGED <<used, ready, lease, held>>
    BY <1>15, <2>1 DEF SkipStore, RecTaken, allocVars, readyVars, writerVars
  <2>3. /\ rpc' = (IF Older(taken + 1, rreg.chosen) THEN "rx_drop" ELSE "rx_read")
        /\ rreg'.cur = taken + 1 /\ rreg'.chosen = rreg.chosen /\ rreg'.newtail = rreg.newtail
    BY <1>2, <1>15, <2>1 DEF SkipStore, ReadLocals
  <2>4. taken \in taken .. ready_head - 1
    BY <1>5, <2>1, InHands
  <2>5. RecSlot(rec_head) \in 0 .. RecCap - 1
    BY <1>1 DEF RecSlot
  <2>6. recycle'[RecSlot(rec_head)] = id
    BY <1>2, <2>2, <2>5
  <2>7. \A q \in RecTaken .. rec_head - 1 : recycle'[RecSlot(q)] = recycle[RecSlot(q)]
    <3> SUFFICES ASSUME NEW q \in RecTaken .. rec_head - 1
                 PROVE  recycle'[RecSlot(q)] = recycle[RecSlot(q)]
      OBVIOUS
    <3>1. q \in rec_tail .. rec_head - 1
      BY <1>1, <1>6
    <3>2. RecSlot(q) # RecSlot(rec_head)
      BY <2>1, <3>1, RecSlotFree DEF Pushing
    <3> QED
      BY <1>2, <2>2, <3>2
  <2>8. \A q \in RecTaken .. rec_head' - 1 : q = rec_head \/ q \in RecTaken .. rec_head - 1
    BY <1>1, <1>6, <2>2
  <2>9. \A p \in taken' .. ready_head - 1 : p \in taken .. ready_head - 1 /\ p # taken
    BY <1>1, <2>2
  <2>10. t \in Ownership /\ u[3] = t[3]
    BY <2>4 DEF Ownership
  <2>11. Ownership' \subseteq (Ownership \ {t}) \cup {u}
    <3>1. ASSUME NEW m \in Leases, lease[m] # None
          PROVE  <<"lease", m, lease[m].id>> \in Ownership \ {t}
      BY <3>1 DEF Ownership
    <3>2. ASSUME NEW p \in taken' .. ready_head - 1
          PROVE  <<"ready", p, ready[ReadySlot(p)].id>> \in Ownership \ {t}
      BY <2>9 DEF Ownership
    <3>3. ASSUME NEW w \in Wraps, held[w] # None
          PROVE  <<"held", w, held[w].id>> \in Ownership \ {t}
      BY <3>3 DEF Ownership
    <3>4. ASSUME NEW q \in RecTaken .. rec_head' - 1
          PROVE  <<"rec", q, recycle'[RecSlot(q)]>> \in (Ownership \ {t}) \cup {u}
      BY <2>6, <2>7, <2>8 DEF Ownership
    <3> HIDE DEF t, u
    <3> QED
      BY <2>2, <3>1, <3>2, <3>3, <3>4 DEF Ownership, ReadySlot, RecSlot
  <2>12. SingleOwner'
    <3> HIDE DEF t, u
    <3> QED
      BY <1>5, <2>2, <2>10, <2>11, OwnerMoves
  <2>13. InArena'
    BY <1>5, <2>2, <2>9 DEF InArena, validate_bounds, ReadySlot
  <2>14. Positions' /\ Remembers'
    <3>1. taken' <= ready_head' /\ ready_tail' <= taken' /\ taken' <= rreg'.chosen
          /\ rreg'.chosen < rreg'.newtail
      BY <1>1, <1>3, <1>5, <2>1, <2>2, <2>3, <2>4 DEF Positions
    <3>2. rpc' = "rx_drop" => rreg'.cur < rreg'.chosen
      BY <2>3 DEF Older
    <3>3. rpc' \in {"rx_drop", "rx_read"} /\ taken' = rreg'.cur
      BY <2>2, <2>3
    <3> QED
      BY <3>1, <3>2, <3>3 DEF Positions, Remembers
  <2> QED
    BY <2>12, <2>13, <2>14 DEF Owned
<1>16. CASE SkipFull
  <2>1. /\ rpc = "rx_drop" /\ rpc' = "rx_read" /\ rreg' = rreg
        /\ UNCHANGED <<used, headerVars, ready, recycle, lease, wpc, held, taken>>
    BY <1>16 DEF SkipFull, allocVars, writerVars, historyVars
  <2>2. Positions' /\ Remembers'
    BY <1>5, <2>1 DEF Positions, Remembers, headerVars, readyVars
  <2> QED
    BY <2>1, <2>2, ReaderLocal
<1>17. CASE RecvRead
  <2> DEFINE d == ready[ReadySlot(rreg.chosen)]
  <2>1. rpc = "rx_read"
        /\ UNCHANGED <<used, headerVars, ready, recycle, lease, wpc, held, taken>>
    BY <1>17 DEF RecvRead, allocVars, writerVars, historyVars
  <2>2. rreg.chosen \in taken .. ready_head - 1
    BY <1>5, <2>1, InHands
  <2>3. ReadySlotReads(ReadySlot(rreg.chosen)) = {d} /\ validate_bounds(d)
    BY <1>5, <2>2, ReadNotTorn DEF InArena
  <2>4. rpc' = "rx_take" /\ rreg' = [rreg EXCEPT !.desc = d]
    BY <1>17, <2>3 DEF RecvRead
  <2>5. rreg'.desc = d /\ rreg'.chosen = rreg.chosen /\ rreg'.newtail = rreg.newtail
    BY <1>2, <2>4 DEF ReadLocals
  <2>6. Positions' /\ Remembers'
    BY <1>5, <2>1, <2>4, <2>5 DEF Positions, Remembers, headerVars, readyVars, ReadySlot
  <2> QED
    BY <2>1, <2>6, ReaderLocal
<1>18. CASE RecvTake
  <2>1. /\ rpc = "rx_take" /\ rpc' = "idle" /\ rreg.desc.id = ready[ReadySlot(rreg.chosen)].id
        /\ ready_tail' = rreg.newtail /\ taken' = rreg.newtail
        /\ ready_head' = ready_head /\ rec_head' = rec_head /\ RecTaken' = RecTaken
        /\ UNCHANGED <<used, ready, recycle, lease>>
    BY <1>5, <1>18 DEF RecvTake, Remembers, RecTaken, allocVars, recVars, writerVars
  <2>2. rreg.chosen \in taken .. ready_head - 1 /\ rreg.chosen < taken' /\ taken' <= ready_head
    BY <1>4, <1>5, <2>1, InHands DEF Positions, ReadyRing
  <2>3. PICK w \in Wraps : held[w] = None /\ held' = [held EXCEPT ![w] = rreg.desc]
    BY <1>18 DEF RecvTake
  <2>4. held'[w] = rreg.desc /\ \A v \in Wraps : v # w => held'[v] = held[v]
    BY <1>2, <2>3
  <2>5. \A p \in taken' .. ready_head - 1 : p \in taken .. ready_head - 1 /\ p # rreg.chosen
    BY <1>1, <1>3, <2>1, <2>2
  <2> DEFINE t == <<"ready", rreg.chosen, ready[ReadySlot(rreg.chosen)].id>>
             u == <<"held", w, rreg.desc.id>>
  <2>6. t \in Ownership /\ u[3] = t[3]
    BY <2>1, <2>2 DEF Ownership
  <2>7. Ownership' \subseteq (Ownership \ {t}) \cup {u}
    <3>1. ASSUME NEW m \in Leases, lease[m] # None
          PROVE  <<"lease", m, lease[m].id>> \in Ownership \ {t}
      BY <3>1 DEF Ownership
    <3>2. ASSUME NEW p \in taken' .. ready_head - 1
          PROVE  <<"ready", p, ready[ReadySlot(p)].id>> \in Ownership \ {t}
      BY <2>5 DEF Ownership
    <3>3. ASSUME NEW v \in Wraps, held'[v] # None
          PROVE  <<"held", v, held'[v].id>> \in (Ownership \ {t}) \cup {u}
      BY <2>4, <3>3 DEF Ownership
    <3>4. ASSUME NEW q \in RecTaken .. rec_head - 1
          PROVE  <<"rec", q, recycle[RecSlot(q)]>> \in Ownership \ {t}
      BY DEF Ownership
    <3> HIDE DEF t, u
    <3> QED
      BY <2>1, <3>1, <3>2, <3>3, <3>4 DEF Ownership, ReadySlot, RecSlot
  <2>8. SingleOwner'
    <3> HIDE DEF t, u
    <3> QED
      BY <1>5, <2>1, <2>6, <2>7, OwnerMoves
  <2>9. InArena'
    BY <1>5, <2>1, <2>5 DEF InArena, validate_bounds, ReadySlot
  <2>10. Positions' /\ Remembers'
    BY <1>3, <2>1, <2>2 DEF Positions, Remembers
  <2> QED
    BY <2>8, <2>9, <2>10 DEF Owned
<1>19. ASSUME NEW w \in Wraps, DropWrap(w) PROVE Owned'
  <2>1. /\ rpc = "idle" /\ rpc' = "rc_spin" /\ held[w] # None
        /\ rreg' = [NoRead EXCEPT !.wrap = w, !.desc = held[w]]
        /\ UNCHANGED <<used, headerVars, ready, recycle, lease, wpc, held, taken>>
    BY <1>19 DEF DropWrap, allocVars, writerVars, historyVars
  <2>2. rreg'.wrap = w /\ rreg'.desc = held[w]
    BY <1>2, <2>1 DEF ReadLocals
  <2>3. Positions' /\ Remembers'
    BY <1>5, <2>1, <2>2 DEF Positions, Remembers, headerVars, readyVars
  <2> QED
    BY <2>1, <2>3, ReaderLocal
<1>20. CASE RecycleSpin
  <2>1. /\ rpc = "rc_spin" /\ rpc' = "rc_slot" /\ rreg' = [rreg EXCEPT !.rec = rec_head]
        /\ UNCHANGED <<used, headerVars, ready, recycle, lease, wpc, held, taken>>
    BY <1>20 DEF RecycleSpin, allocVars, writerVars, historyVars
  <2>2. rreg'.wrap = rreg.wrap /\ rreg'.desc = rreg.desc
    BY <1>2, <2>1 DEF ReadLocals
  <2>3. Positions' /\ Remembers'
    BY <1>5, <2>1, <2>2 DEF Positions, Remembers, headerVars, readyVars
  <2> QED
    BY <2>1, <2>3, ReaderLocal
<1>21. CASE RecycleStore
  <2> DEFINE w == rreg.wrap
             id == held[w].id
             t == <<"held", w, id>>
             u == <<"rec", rec_head, id>>
  <2>1. /\ rpc = "rc_slot" /\ rpc' = "idle" /\ rreg.rec = rec_head
        /\ w \in Wraps /\ held[w] # None /\ id = rreg.desc.id /\ taken = ready_tail
    BY <1>4, <1>5, <1>21 DEF RecycleStore, Positions, Remembers, RecycleRing, Pushing
  <2>2. /\ recycle' = [recycle EXCEPT ![RecSlot(rec_head)] = id]
        /\ rec_head' = rec_head + 1 /\ held' = [held EXCEPT ![w] = None]
        /\ ready_head' = ready_head /\ ready_tail' = ready_tail /\ RecTaken' = RecTaken
        /\ UNCHANGED <<used, ready, lease, taken>>
    BY <1>21, <2>1 DEF RecycleStore, RecTaken, allocVars, readyVars, writerVars, historyVars
  <2>3. RecSlot(rec_head) \in 0 .. RecCap - 1
    BY <1>1 DEF RecSlot
  <2>4. recycle'[RecSlot(rec_head)] = id
    BY <1>2, <2>2, <2>3
  <2>5. \A q \in RecTaken .. rec_head - 1 : recycle'[RecSlot(q)] = recycle[RecSlot(q)]
    <3> SUFFICES ASSUME NEW q \in RecTaken .. rec_head - 1
                 PROVE  recycle'[RecSlot(q)] = recycle[RecSlot(q)]
      OBVIOUS
    <3>1. q \in rec_tail .. rec_head - 1
      BY <1>1, <1>6
    <3>2. RecSlot(q) # RecSlot(rec_head)
      BY <2>1, <3>1, RecSlotFree DEF Pushing
    <3> QED
      BY <1>2, <2>2, <3>2
  <2>6. \A q \in RecTaken .. rec_head' - 1 : q = rec_head \/ q \in RecTaken .. rec_head - 1
    BY <1>1, <1>6, <2>2
  <2>7. held'[w] = None /\ \A v \in Wraps : v # w => held'[v] = held[v]
    BY <1>2, <2>1, <2>2
  <2>8. t \in Ownership /\ u[3] = t[3]
    BY <2>1 DEF Ownership
  <2>9. Ownership' \subseteq (Ownership \ {t}) \cup {u}
    <3>1. ASSUME NEW m \in Leases, lease[m] # None
          PROVE  <<"lease", m, lease[m].id>> \in Ownership \ {t}
      BY <3>1 DEF Ownership
    <3>2. ASSUME NEW p \in taken .. ready_head - 1
          PROVE  <<"ready", p, ready[ReadySlot(p)].id>> \in Ownership \ {t}
      BY DEF Ownership
    <3>3. ASSUME NEW v \in Wraps, held'[v] # None
          PROVE  <<"held", v, held'[v].id>> \in Ownership \ {t}
      BY <2>7, <3>3 DEF Ownership
    <3>4. ASSUME NEW q \in RecTaken .. rec_head' - 1
          PROVE  <<"rec", q, recycle'[RecSlot(q)]>> \in (Ownership \ {t}) \cup {u}
      BY <2>4, <2>5, <2>6 DEF Ownership
    <3> HIDE DEF t, u
    <3> QED
      BY <2>2, <3>1, <3>2, <3>3, <3>4 DEF Ownership, ReadySlot, RecSlot
  <2>10. SingleOwner'
    <3> HIDE DEF t, u
    <3> QED
      BY <1>5, <2>2, <2>8, <2>9, OwnerMoves
  <2>11. InArena' /\ Positions' /\ Remembers'
    BY <1>5, <2>1, <2>2 DEF InArena, validate_bounds, Positions, Remembers, ReadySlot
  <2> QED
    BY <2>10, <2>11 DEF Owned
<1>22. CASE Crash
  <2>1. /\ rpc' = "detached" /\ held' = [w \in Wraps |-> None]
        /\ ready_head' = ready_head /\ ready_tail' = ready_tail /\ rec_head' = rec_head
        /\ RecTaken' = RecTaken
        /\ UNCHANGED <<used, ready, recycle, lease, taken>>
    BY <1>22 DEF Crash, RecTaken, allocVars, headerVars, readyVars, recVars, writerVars,
                 historyVars
  <2>2. Ownership' \subseteq Ownership
    BY <2>1 DEF Ownership, ReadySlot, RecSlot
  <2>3. SingleOwner'
    BY <1>5, <2>1, <2>2, OwnersGone
  <2>4. InArena' /\ Positions' /\ Remembers'
    BY <1>5, <2>1 DEF InArena, validate_bounds, Positions, Remembers, ReadySlot
  <2> QED
    BY <2>3, <2>4 DEF Owned
<1>23. CASE ReaderStep
  BY <1>8, <1>10, <1>11, <1>12, <1>13, <1>14, <1>15, <1>16, <1>17, <1>18, <1>20, <1>21,
     <1>23 DEF ReaderStep
<1>24. CASE ReaderCall
  BY <1>7, <1>9, <1>19, <1>24 DEF ReaderCall
<1> QED
  BY <1>22, <1>23, <1>24

\* Every step of either process, and the consumer's death, keeps OwnerInv.
LEMMA StepOwner == TypeInv /\ RingInv /\ OwnerInv /\ [TransportNext]_vars => OwnerInv'
<1> SUFFICES ASSUME TypeInv, RingInv, OwnerInv, [TransportNext]_vars PROVE OwnerInv'
  OBVIOUS
<1>1. NoOverlap /\ NoOverlap'
  BY StepNoOverlap DEF OwnerInv
<1>2. ASSUME clean' PROVE Owned'
  <2>1. clean /\ Owned
    BY <1>2, StepClean DEF OwnerInv, Owned
  <2>2. CASE WriterStep \/ WriterCall
    BY <1>1, <1>2, <2>1, <2>2, StepWriter
  <2>3. CASE ReaderStep \/ ReaderCall \/ Crash
    BY <1>2, <2>1, <2>3, StepReader
  <2>4. CASE UNCHANGED vars
    <3>1. /\ RecTaken' = RecTaken
          /\ UNCHANGED <<used, headerVars, ready, recycle, lease, readerVars, taken>>
          /\ UNCHANGED <<ready_head, rec_head, held>>
      BY <2>4 DEF vars, allocVars, writerVars, historyVars, RecTaken, headerVars, readyVars,
                  recVars, readerVars
    <3>2. InArena' /\ SingleOwner'
      BY <2>1, <3>1, OwnersStay DEF Owned
    <3>3. Positions' /\ Remembers'
      BY <2>1, <3>1 DEF Owned, Positions, Remembers, Receiving, headerVars, readyVars,
                        readerVars, ReadySlot
    <3> QED
      BY <3>2, <3>3 DEF Owned
  <2> QED
    BY <2>2, <2>3, <2>4 DEF TransportNext
<1> QED
  BY <1>1, <1>2 DEF OwnerInv, Owned

\* CleanSingleOwner: until the writer first drops or resets, no buffer is recycled twice
\* and none is freed under a lease, a queued descriptor or a downstream buffer, whatever
\* attaches, skips, finalizers, drains and consumer deaths do meanwhile.
THEOREM SingleOwnerCorrect == TransportSpec => []CleanSingleOwner
<1>1. Init => TypeInv /\ RingInv /\ OwnerInv
  BY InitType, InitRing, InitOwner
<1>2. TypeInv /\ RingInv /\ OwnerInv /\ [TransportNext]_vars => (TypeInv /\ RingInv /\ OwnerInv)'
  BY StepType, StepRing, StepOwner
<1>3. TypeInv /\ RingInv /\ OwnerInv => CleanSingleOwner
  BY OwnerInvImplies
<1> QED
  BY <1>1, <1>2, <1>3, PTL DEF TransportSpec

--------------------------------------------------------------------------------
(***************************************************************************)
(* For every capacity and every finite set of leases and buffers: in an    *)
(* arena with room for whatever can own a block, and for a ring's worth    *)
(* lost at each attach, the writer never drops a frame and never resets.   *)
(*                                                                         *)
(* The argument counts.  Every byte of the arena is free or in a live      *)
(* block (Known); every live block has an owner, or was queued when a      *)
(* consumer attached (Lost); so when Alloc finds nothing free there are    *)
(* Total live blocks, which is more than the owners and the lost.          *)
(***************************************************************************)

LeaseIds == {lease[l].id : l \in {m \in Leases : lease[m] # None}}
ReadyIds == {ready[ReadySlot(p)].id : p \in taken .. ready_head - 1}
HeldIds  == {held[w].id : w \in {v \in Wraps : held[v] # None}}
RecIds   == {recycle[RecSlot(q)] : q \in RecTaken .. rec_head - 1}

Accounted == LeaseIds \cup ReadyIds \cup HeldIds \cup RecIds

\* The live blocks nobody will ever give back.
Lost == DOMAIN used \ Accounted

\* The attaches that have skipped what was queued.
Skips == IF rpc = "attach" THEN attaches - 1 ELSE attaches

\* What RoomSuffices supposes, with finite sets to count and ids that do not wrap.
Roomy ==
    /\ IsFiniteSet(Leases) /\ IsFiniteSet(Wraps) /\ MaxAllocs < MaxId
    /\ Sizes = {1} /\ Align = 1 /\ LatestOnly = {FALSE} /\ ~MayCrash
    /\ Total >= Cardinality(Leases) + Cardinality(Wraps) + RecCap
                    + ReadyCap * (1 + MaxAttach)

\* Blocks are of one byte, their ids have been handed out, and a call that asks for a
\* block asks for a memory that has none.
Fresh ==
    /\ \A i \in DOMAIN used : i < next_id /\ used[i].size = 1
    /\ wpc # "retry"
    /\ wpc = "alloc" => next_id <= MaxAllocs /\ wreg.size = 1 /\ lease[wreg.lease] = None

\* A FIFO receive takes the entry it reads, and no other.
Fifo ==
    /\ ~rreg.latest /\ rpc \notin {"rx_drop", "rx_slot"}
    /\ rpc \in {"rx_read", "rx_take"} => rreg.chosen = taken /\ rreg.newtail = taken + 1

LostFew ==
    /\ attaches <= MaxAttach /\ (rpc = "attach" => attaches > 0)
    /\ IsFiniteSet(Lost) /\ Cardinality(Lost) <= ReadyCap * Skips

Whole == 0 .. Total - 1 \subseteq Known

RoomStrong == clean /\ Fresh /\ Whole /\ Fifo /\ LostFew

RoomInv == Roomy => RoomStrong

\* A function takes no more values than it has arguments.
LEMMA ImageFew ==
    ASSUME NEW S, IsFiniteSet(S), NEW T, NEW f \in [S -> T],
           \A y \in T : \E x \in S : f[x] = y
    PROVE  IsFiniteSet(T) /\ Cardinality(T) <= Cardinality(S)
<1>1. f \in Surjection(S, T)
  BY DEF Surjection
<1> QED
  BY <1>1, FS_Surjection

\* A union has no more elements than its parts together.
LEMMA UnionFew ==
    ASSUME NEW S, NEW T, IsFiniteSet(S), IsFiniteSet(T)
    PROVE  /\ IsFiniteSet(S \cup T)
           /\ Cardinality(S \cup T) <= Cardinality(S) + Cardinality(T)
           /\ Cardinality(S) \in Nat /\ Cardinality(T) \in Nat
<1>1. /\ IsFiniteSet(S \cup T) /\ IsFiniteSet(S \cap T)
      /\ Cardinality(S \cup T) = Cardinality(S) + Cardinality(T) - Cardinality(S \cap T)
  BY FS_Union, FS_Intersection
<1>2. Cardinality(S) \in Nat /\ Cardinality(T) \in Nat /\ Cardinality(S \cap T) \in Nat
  BY <1>1, FS_CardinalityType
<1> QED
  BY <1>1, <1>2

\* An interval has as many elements as its bounds say.
LEMMA IntervalSize ==
    ASSUME NEW a \in Nat, NEW b \in Nat, a <= b
    PROVE  IsFiniteSet(a .. b - 1) /\ Cardinality(a .. b - 1) = b - a
<1>1. IsFiniteSet(a .. b - 1) /\ Cardinality(a .. b - 1) = (IF a > b - 1 THEN 0 ELSE b - 1 - a + 1)
  BY FS_Interval
<1> QED
  BY <1>1

\* How many blocks the owners can answer for, the memory that waits for one apart.
LEMMA AccountedFew ==
    ASSUME TypeInv, RingInv, OwnerInv, Roomy, RoomStrong, wpc = "alloc"
    PROVE  /\ IsFiniteSet(Accounted)
           /\ Cardinality(Accounted) <=
                (Cardinality(Leases) - 1) + Cardinality(Wraps) + RecCap + ReadyCap
           /\ Cardinality(Accounted) \in Nat
<1>1. /\ ready_head \in Nat /\ ready_tail \in Nat /\ rec_head \in Nat /\ rec_tail \in Nat
      /\ taken \in Nat /\ ReadyCap \in Nat /\ RecCap \in Nat
  BY TransportAssumption DEF TypeInv, HeaderOK, HistoryOK
<1>2. /\ ready_tail <= taken /\ taken <= ready_head /\ ready_head <= ready_tail + ReadyCap
      /\ rec_tail <= rec_head /\ rec_head <= rec_tail + RecCap
  BY DEF OwnerInv, RoomStrong, Positions, RingInv, ReadyRing, RecycleRing
<1>3. wreg.lease \in Leases /\ lease[wreg.lease] = None
  BY DEF TypeInv, WriterOK, Busy, RoomStrong, Fresh
<1>4. IsFiniteSet(Leases) /\ IsFiniteSet(Wraps)
  BY DEF Roomy
<1>5. IsFiniteSet(LeaseIds) /\ Cardinality(LeaseIds) <= Cardinality(Leases) - 1
  <2> DEFINE S == {m \in Leases : lease[m] # None}
             f == [m \in S |-> lease[m].id]
  <2>1. IsFiniteSet(Leases \ {wreg.lease})
        /\ Cardinality(Leases \ {wreg.lease}) = Cardinality(Leases) - 1
    BY <1>3, <1>4, FS_RemoveElement
  <2>2. S \subseteq Leases \ {wreg.lease}
    BY <1>3
  <2>3. IsFiniteSet(S) /\ Cardinality(S) <= Cardinality(Leases) - 1
    BY <2>1, <2>2, FS_Subset
  <2>4. f \in [S -> LeaseIds] /\ \A y \in LeaseIds : \E x \in S : f[x] = y
    BY DEF LeaseIds
  <2>5. IsFiniteSet(LeaseIds) /\ Cardinality(LeaseIds) <= Cardinality(S)
    BY <2>3, <2>4, ImageFew
  <2>6. Cardinality(LeaseIds) \in Nat /\ Cardinality(S) \in Nat /\ Cardinality(Leases) \in Nat
    BY <1>4, <2>3, <2>5, FS_CardinalityType
  <2> QED
    BY <2>3, <2>5, <2>6
<1>6. IsFiniteSet(HeldIds) /\ Cardinality(HeldIds) <= Cardinality(Wraps)
  <2> DEFINE S == {v \in Wraps : held[v] # None}
             f == [v \in S |-> held[v].id]
  <2>1. IsFiniteSet(S) /\ Cardinality(S) <= Cardinality(Wraps)
    BY <1>4, FS_Subset
  <2>2. f \in [S -> HeldIds] /\ \A y \in HeldIds : \E x \in S : f[x] = y
    BY DEF HeldIds
  <2>3. IsFiniteSet(HeldIds) /\ Cardinality(HeldIds) <= Cardinality(S)
    BY <2>1, <2>2, ImageFew
  <2>4. Cardinality(HeldIds) \in Nat /\ Cardinality(S) \in Nat /\ Cardinality(Wraps) \in Nat
    BY <1>4, <2>1, <2>3, FS_CardinalityType
  <2> QED
    BY <2>1, <2>3, <2>4
<1>7. IsFiniteSet(ReadyIds) /\ Cardinality(ReadyIds) <= ReadyCap
  <2> DEFINE S == taken .. ready_head - 1
             f == [p \in S |-> ready[ReadySlot(p)].id]
  <2>1. IsFiniteSet(S) /\ Cardinality(S) = ready_head - taken
    BY <1>1, <1>2, IntervalSize
  <2>2. f \in [S -> ReadyIds] /\ \A y \in ReadyIds : \E x \in S : f[x] = y
    BY DEF ReadyIds
  <2>3. IsFiniteSet(ReadyIds) /\ Cardinality(ReadyIds) <= Cardinality(S)
    BY <2>1, <2>2, ImageFew
  <2>4. Cardinality(ReadyIds) \in Nat
    BY <2>3, FS_CardinalityType
  <2> QED
    BY <1>1, <1>2, <2>1, <2>3, <2>4
<1>8. IsFiniteSet(RecIds) /\ Cardinality(RecIds) <= RecCap
  <2> DEFINE S == RecTaken .. rec_head - 1
             f == [q \in S |-> recycle[RecSlot(q)]]
  <2>1. RecTaken = rec_tail
    BY DEF RecTaken
  <2>2. IsFiniteSet(S) /\ Cardinality(S) = rec_head - rec_tail
    BY <1>1, <1>2, <2>1, IntervalSize
  <2>3. f \in [S -> RecIds] /\ \A y \in RecIds : \E x \in S : f[x] = y
    BY DEF RecIds
  <2>4. IsFiniteSet(RecIds) /\ Cardinality(RecIds) <= Cardinality(S)
    BY <2>2, <2>3, ImageFew
  <2>5. Cardinality(RecIds) \in Nat
    BY <2>4, FS_CardinalityType
  <2> QED
    BY <1>1, <1>2, <2>2, <2>4, <2>5
<1>9. /\ IsFiniteSet(LeaseIds \cup ReadyIds)
      /\ Cardinality(LeaseIds \cup ReadyIds) <= Cardinality(LeaseIds) + Cardinality(ReadyIds)
      /\ Cardinality(LeaseIds) \in Nat /\ Cardinality(ReadyIds) \in Nat
  BY <1>5, <1>7, UnionFew
<1>10. /\ IsFiniteSet(LeaseIds \cup ReadyIds \cup HeldIds)
       /\ Cardinality(LeaseIds \cup ReadyIds \cup HeldIds)
            <= Cardinality(LeaseIds \cup ReadyIds) + Cardinality(HeldIds)
       /\ Cardinality(LeaseIds \cup ReadyIds) \in Nat /\ Cardinality(HeldIds) \in Nat
  BY <1>6, <1>9, UnionFew
<1>11. /\ IsFiniteSet(Accounted)
       /\ Cardinality(Accounted)
            <= Cardinality(LeaseIds \cup ReadyIds \cup HeldIds) + Cardinality(RecIds)
       /\ Cardinality(LeaseIds \cup ReadyIds \cup HeldIds) \in Nat /\ Cardinality(RecIds) \in Nat
  BY <1>8, <1>10, UnionFew DEF Accounted
<1>12. Cardinality(Accounted) \in Nat /\ Cardinality(Leases) \in Nat /\ Cardinality(Wraps) \in Nat
  BY <1>4, <1>11, FS_CardinalityType
<1> QED
  BY <1>1, <1>5, <1>6, <1>7, <1>8, <1>9, <1>10, <1>11, <1>12

\* Alloc finds a block.
LEMMA RoomLeft ==
    ASSUME TypeInv, RingInv, OwnerInv, Roomy, RoomStrong, wpc = "alloc"
    PROVE  ~NoRoom
<1> SUFFICES ASSUME NoRoom PROVE FALSE
  OBVIOUS
<1>1. free \subseteq Block /\ \A i \in DOMAIN used : used[i] \in Block /\ used[i].size = 1
  BY DEF TypeInv, TypeOK, RoomStrong, Fresh
<1>2. wreg.size = 1 /\ Align = 1
  BY DEF RoomStrong, Fresh, Roomy
<1>3. ASSUME NEW b \in free PROVE Bytes(b) = {}
  <2>1. b.start \in Nat /\ b.size \in Nat
    BY <1>1 DEF Block
  <2>2. align_up(b.start) = b.start
    BY <1>2, <2>1 DEF align_up
  <2>3. ~(b.start + 1 <= b.start + b.size)
    BY <1>2, <2>2 DEF NoRoom, Fits, End
  <2> QED
    BY <2>1, <2>3 DEF Bytes, End
<1>4. Covered(free) = {}
  BY <1>3 DEF Covered
<1> DEFINE f == [i \in DOMAIN used |-> used[i].start]
           S == {used[i].start : i \in DOMAIN used}
<1>5. 0 .. Total - 1 \subseteq S
  <2> SUFFICES ASSUME NEW p \in 0 .. Total - 1
               PROVE  \E i \in DOMAIN used : p = used[i].start
    OBVIOUS
  <2>1. PICK i \in DOMAIN used : p \in Bytes(used[i])
    BY <1>4 DEF RoomStrong, Whole, Known, Covered, Live
  <2>2. used[i].start \in Nat /\ used[i].size = 1
    BY <1>1 DEF Block
  <2> QED
    BY <2>1, <2>2 DEF Bytes, End
<1>6. IsFiniteSet(Lost) /\ Cardinality(Lost) <= ReadyCap * Skips
  BY DEF RoomStrong, LostFew
<1>7. /\ IsFiniteSet(Accounted) /\ Cardinality(Accounted) \in Nat
      /\ Cardinality(Accounted) <=
           (Cardinality(Leases) - 1) + Cardinality(Wraps) + RecCap + ReadyCap
  BY AccountedFew
<1>8. /\ IsFiniteSet(Accounted \cup Lost) /\ Cardinality(Lost) \in Nat
      /\ Cardinality(Accounted \cup Lost) <= Cardinality(Accounted) + Cardinality(Lost)
  BY <1>6, <1>7, UnionFew
<1>9. IsFiniteSet(DOMAIN used) /\ Cardinality(DOMAIN used) <= Cardinality(Accounted \cup Lost)
  <2>1. DOMAIN used \subseteq Accounted \cup Lost
    BY DEF Lost
  <2> QED
    BY <1>8, <2>1, FS_Subset
<1>10. IsFiniteSet(S) /\ Cardinality(S) <= Cardinality(DOMAIN used)
  <2>1. f \in [DOMAIN used -> S] /\ \A y \in S : \E x \in DOMAIN used : f[x] = y
    OBVIOUS
  <2> QED
    BY <1>9, <2>1, ImageFew
<1>11. Total \in Nat /\ Cardinality(0 .. Total - 1) = Total
  <2>1. Total \in Nat
    BY AllocatorAssumption
  <2> QED
    BY <2>1, IntervalSize
<1>12. Cardinality(0 .. Total - 1) <= Cardinality(S)
  BY <1>5, <1>10, FS_Subset
<1>13. /\ Cardinality(S) \in Nat /\ Cardinality(DOMAIN used) \in Nat
       /\ Cardinality(Accounted \cup Lost) \in Nat
       /\ Cardinality(Leases) \in Nat /\ Cardinality(Wraps) \in Nat
  BY <1>8, <1>9, <1>10, FS_CardinalityType DEF Roomy
<1>14. ReadyCap * Skips <= ReadyCap * MaxAttach /\ ReadyCap * MaxAttach \in Nat
       /\ ReadyCap * Skips \in Int
  <2>1. ReadyCap \in Nat /\ MaxAttach \in Nat /\ Skips \in Int /\ Skips <= MaxAttach
    BY TransportAssumption DEF TypeInv, ReaderOK, RoomStrong, LostFew, Skips
  <2>2. ReadyCap * (MaxAttach - Skips) \in Nat
    BY <2>1
  <2>3. ReadyCap * (MaxAttach - Skips) = ReadyCap * MaxAttach - ReadyCap * Skips
    BY <2>1
  <2>4. ReadyCap * MaxAttach \in Nat /\ ReadyCap * Skips \in Int
    BY <2>1
  <2> QED
    BY <2>2, <2>3, <2>4
<1>15. /\ Total >= Cardinality(Leases) + Cardinality(Wraps) + RecCap
                      + ReadyCap * (1 + MaxAttach)
       /\ ReadyCap * (1 + MaxAttach) = ReadyCap + ReadyCap * MaxAttach
       /\ ReadyCap \in Nat /\ RecCap \in Nat
  BY TransportAssumption DEF Roomy
<1> DEFINE lost   == ReadyCap * Skips
           atmost == ReadyCap * MaxAttach
           blocks == Cardinality(DOMAIN used)
           either == Cardinality(Accounted \cup Lost)
<1>16. Total <= blocks
  <2> DEFINE starts == Cardinality(S)
  <2>1. Total <= starts /\ starts <= blocks /\ starts \in Nat /\ blocks \in Nat /\ Total \in Nat
    BY <1>10, <1>11, <1>12, <1>13
  <2> HIDE DEF starts, blocks
  <2> QED
    BY <2>1
<1>17. blocks <= either /\ either <= Cardinality(Accounted) + Cardinality(Lost)
       /\ blocks \in Nat /\ either \in Nat
  BY <1>8, <1>9, <1>13
<1>18. Total >= Cardinality(Leases) + Cardinality(Wraps) + RecCap + (ReadyCap + atmost)
  BY <1>15
<1>19. Cardinality(Lost) <= lost /\ lost <= atmost /\ atmost \in Nat /\ lost \in Int
  BY <1>6, <1>14
<1>20. Cardinality(Lost) \in Nat /\ Total \in Nat
  BY <1>8, <1>11
<1> HIDE DEF S, f, lost, atmost, blocks, either
<1> QED
  BY <1>7, <1>13, <1>15, <1>16, <1>17, <1>18, <1>19, <1>20

LEMMA InitRoom == Init => RoomInv
<1> SUFFICES ASSUME Init, Roomy PROVE RoomStrong
  BY DEF RoomInv
<1>1. used = [i \in {} |-> [start |-> 0, size |-> 0]] /\ free = {[start |-> 0, size |-> Total]}
  BY DEF Init, WriterInit, New
<1>2. Whole
  BY <1>1, AllocatorAssumption DEF Whole, Known, Covered, Bytes, End
<1>3. Lost = {}
  BY <1>1 DEF Lost
<1>4. LostFew
  <2>1. attaches = 0 /\ rpc = "detached" /\ ReadyCap \in Nat /\ MaxAttach \in Nat
    BY TransportAssumption DEF Init, ReaderInit
  <2>2. Skips = 0 /\ ReadyCap * 0 = 0
    BY <2>1 DEF Skips
  <2> QED
    BY <1>3, <2>1, <2>2, FS_EmptySet DEF LostFew
<1>5. clean /\ Fresh /\ Fifo
  BY <1>1 DEF Init, WriterInit, ReaderInit, Fresh, Fifo, NoRead
<1> QED
  BY <1>2, <1>4, <1>5 DEF RoomStrong

\* What Roomy and RoomStrong rule out: a frame dropped, a reset, a latest-only receive,
\* a panic and the consumer's death.
LEMMA NeverHappens ==
    ASSUME TypeInv, RingInv, OwnerInv, Roomy, RoomStrong
    PROVE  /\ ~DropOldest /\ ~DropStore /\ ~Exhausted /\ ~Crash
           /\ ~Reset /\ ~ResetReadyTail /\ ~ResetRecHead /\ ~ResetRecTail
           /\ ~RecvLatest /\ ~RecvPanic /\ ~SkipTry /\ ~SkipStore /\ ~SkipFull
<1>1. ~DropOldest /\ ~Reset
  BY RoomLeft DEF DropOldest, Reset
<1>2. wpc \notin Dropping /\ wpc # "retry"
  BY DEF RingInv, RoomStrong, Fresh
<1>3. ~DropStore /\ ~ResetReadyTail /\ ~ResetRecHead /\ ~ResetRecTail /\ ~Exhausted
  BY <1>2 DEF DropStore, ResetReadyTail, ResetRecHead, ResetRecTail, Exhausted, Dropping
<1>4. ~RecvLatest /\ ~RecvPanic /\ ~SkipTry /\ ~SkipStore /\ ~SkipFull
  <2>1. ~rreg.latest /\ rpc # "rx_drop" /\ rpc # "rx_slot"
    BY DEF RoomStrong, Fifo
  <2>2. ~RecvLatest /\ ~RecvPanic
    BY <2>1 DEF RecvLatest, RecvPanic
  <2>3. ~SkipTry /\ ~SkipStore /\ ~SkipFull
    BY <2>1 DEF SkipTry, SkipStore, SkipFull
  <2> QED
    BY <2>2, <2>3
<1>5. ~Crash
  BY DEF Crash, Roomy
<1> QED
  BY <1>1, <1>3, <1>4, <1>5

\* The next id is not in use.
LEMMA NextIsNew ==
    ASSUME TypeInv, RoomStrong
    PROVE  /\ next_id \notin DOMAIN used
           /\ Roomy /\ wpc = "alloc" => NextId(next_id) = next_id + 1
<1>1. next_id \in Nat /\ MaxId \in Nat /\ MaxAllocs \in Nat
  BY AllocatorAssumption, TransportAssumption DEF TypeInv, TypeOK
<1>2. \A i \in DOMAIN used : i < next_id
  BY DEF RoomStrong, Fresh
<1>3. next_id \notin DOMAIN used
  BY <1>1, <1>2
<1>4. Roomy /\ wpc = "alloc" => next_id <= MaxAllocs /\ MaxAllocs < MaxId
  BY DEF RoomStrong, Fresh, Roomy
<1>5. Roomy /\ wpc = "alloc" => NextId(next_id) = next_id + 1
  BY <1>1, <1>4 DEF NextId
<1> QED
  BY <1>3, <1>5

LEMMA StepStaysClean ==
    ASSUME TypeInv, RingInv, OwnerInv, Roomy, RoomStrong, [TransportNext]_vars
    PROVE  clean'
<1>1. clean /\ next_id \notin DOMAIN used
  BY NextIsNew DEF RoomStrong
<1>2. ~DropOldest /\ ~Reset
  BY NeverHappens
<1>3. CASE WriterStep
  BY <1>1, <1>2, <1>3
     DEF WriterStep, AllocGrant, DropStore, ResetReadyTail, ResetRecHead, ResetRecTail,
         Exhausted, Copy, PushSpin, PushStore, DrainTake, DrainStore, DrainEnd, historyVars
<1>4. CASE WriterCall
  BY <1>1, <1>4 DEF WriterCall, AllocLease, PublishLease, FreeLease, DrainBegin, historyVars
<1>5. CASE ReaderStep
  BY <1>1, <1>5
     DEF ReaderStep, AttachStore, RecvEmpty, RecvFifo, RecvLatest, RecvPanic, SkipTry,
         SkipStore, SkipFull, RecvRead, RecvTake, RecycleSpin, RecycleStore, historyVars
<1>6. CASE ReaderCall \/ Crash \/ UNCHANGED vars
  BY <1>1, <1>6 DEF ReaderCall, AttachLoad, RecvHead, DropWrap, Crash, vars, historyVars
<1> QED
  BY <1>3, <1>4, <1>5, <1>6 DEF TransportNext

LEMMA StepWhole ==
    ASSUME TypeInv, OwnerInv, RoomStrong, [TransportNext]_vars
    PROVE  Whole'
<1>1. TypeOK /\ NoOverlap /\ wreg.size \in Nat /\ next_id \notin DOMAIN used
  BY NextIsNew DEF TypeInv, WriterOK, WriteLocals, OwnerInv
<1>2. \/ Alloc(wreg.size) \/ (\E id : FreeById(id)) \/ Renew \/ UNCHANGED allocVars
  BY AllocatorCalls
<1>3. UNCHANGED allocVars => Known' = Known
  BY DEF allocVars, Known, Covered, Live, Bytes, End
<1>4. Known \subseteq Known'
  BY <1>1, <1>2, <1>3, AllocKeepsBytes, FreeKeepsBytes, RenewKeepsBytes
<1> QED
  BY <1>4 DEF RoomStrong, Whole

\* Freeing touches no other block.
LEMMA FreeOthers ==
    ASSUME NEW id, FreeIfLive(id)
    PROVE  /\ DOMAIN used' = (DOMAIN used) \ {id} \/ (used' = used /\ id \notin DOMAIN used)
           /\ \A i \in DOMAIN used' : i \in DOMAIN used /\ used'[i] = used[i]
           /\ next_id' = next_id
BY DEF FreeIfLive, FreeById, allocVars

LEMMA StepFresh ==
    ASSUME TypeInv, RingInv, OwnerInv, Roomy, RoomStrong, [TransportNext]_vars
    PROVE  Fresh'
<1>1. /\ \A i \in DOMAIN used : i \in Nat /\ i < next_id /\ used[i].size = 1
      /\ next_id \in Nat /\ wpc # "retry"
  BY DEF TypeInv, TypeOK, RoomStrong, Fresh
<1>2. ASSUME NEW l \in Leases, NEW size \in Sizes, NEW publish \in BOOLEAN,
             AllocLease(l, size, publish)
      PROVE  Fresh'
  <2>1. /\ wpc' = "alloc" /\ wreg'.lease = l /\ wreg'.size = size /\ size = 1
        /\ UNCHANGED <<used, next_id, lease>> /\ lease[l] = None /\ next_id <= MaxAllocs
    BY <1>2 DEF AllocLease, NoWrite, allocVars, Roomy
  <2> QED
    BY <1>1, <2>1 DEF Fresh
<1>3. CASE AllocGrant
  <2>1. wpc = "alloc" /\ wreg.size = 1 /\ NextId(next_id) = next_id + 1
    BY <1>1, <1>3, NextIsNew DEF AllocGrant, RoomStrong, Fresh
  <2>2. wpc' \in {"copy", "idle"} /\ Alloc(1)
    BY <1>3, <2>1 DEF AllocGrant
  <2>3. PICK a : used' = [i \in (DOMAIN used) \cup {next_id} |->
                             IF i = next_id THEN [start |-> a, size |-> 1] ELSE used[i]]
    BY <2>2 DEF Alloc
  <2>4. next_id' = next_id + 1
    BY <2>1, <2>2 DEF Alloc
  <2>5. \A i \in DOMAIN used' : i < next_id' /\ used'[i].size = 1
    BY <1>1, <2>3, <2>4
  <2> QED
    BY <2>2, <2>5 DEF Fresh
<1>4. ASSUME NEW id, FreeIfLive(id), wpc' \notin {"alloc", "retry"} PROVE Fresh'
  <2>1. /\ \A i \in DOMAIN used' : i \in DOMAIN used /\ used'[i] = used[i]
        /\ next_id' = next_id
    BY <1>4, FreeOthers
  <2>2. \A i \in DOMAIN used' : i < next_id' /\ used'[i].size = 1
    BY <1>1, <2>1
  <2> QED
    BY <1>4, <2>2 DEF Fresh
<1>5. ASSUME UNCHANGED allocVars, wpc' \notin {"alloc", "retry"} PROVE Fresh'
  BY <1>1, <1>5 DEF Fresh, allocVars
<1>6. ASSUME UNCHANGED <<allocVars, lease, wpc, wreg>> PROVE Fresh'
  BY <1>6 DEF RoomStrong, Fresh, allocVars
<1>7. CASE WriterStep
  <2>1. CASE DrainTake
    BY <1>4, <2>1 DEF DrainTake
  <2>2. CASE Copy \/ PushSpin \/ PushStore \/ DrainStore \/ DrainEnd
    BY <1>5, <2>2 DEF Copy, PushSpin, PushStore, DrainStore, DrainEnd
  <2> QED
    BY <1>3, <1>7, <2>1, <2>2, NeverHappens DEF WriterStep
<1>8. CASE WriterCall
  <2>1. ASSUME NEW l \in Leases, FreeLease(l) PROVE Fresh'
    BY <1>4, <2>1 DEF FreeLease
  <2>2. ASSUME NEW l \in Leases, PublishLease(l) PROVE Fresh'
    BY <1>5, <2>2 DEF PublishLease
  <2>3. CASE DrainBegin
    BY <1>5, <2>3 DEF DrainBegin
  <2> QED
    BY <1>2, <1>8, <2>1, <2>2, <2>3 DEF WriterCall
<1>9. CASE ReaderStep \/ ReaderCall \/ Crash \/ UNCHANGED vars
  <2>1. UNCHANGED <<allocVars, lease, wpc, wreg>>
    <3>1. CASE ReaderStep
      BY <3>1 DEF ReaderStep, AttachStore, RecvEmpty, RecvFifo, RecvLatest, RecvPanic,
                  SkipTry, SkipStore, SkipFull, RecvRead, RecvTake, RecycleSpin,
                  RecycleStore, writerVars
    <3>2. CASE ReaderCall \/ Crash \/ UNCHANGED vars
      BY <3>2 DEF ReaderCall, Crash, vars, AttachLoad, RecvHead, DropWrap, writerVars
    <3> QED
      BY <1>9, <3>1, <3>2
  <2> QED
    BY <1>6, <2>1
<1> QED
  BY <1>7, <1>8, <1>9 DEF TransportNext

LEMMA StepFifo ==
    ASSUME TypeInv, RingInv, OwnerInv, Roomy, RoomStrong, [TransportNext]_vars
    PROVE  Fifo'
<1>1. rreg \in ReadLocals /\ clean /\ Fifo /\ Positions
  BY DEF TypeInv, ReaderOK, RoomStrong, OwnerInv
<1>2. \A latest \in LatestOnly : latest = FALSE
  BY DEF Roomy
<1>3. CASE WriterStep \/ WriterCall \/ UNCHANGED vars
  <2>1. UNCHANGED <<rpc, rreg, taken>>
    <3>1. CASE WriterStep
      BY <3>1 DEF WriterStep, AllocGrant, DropOldest, DropStore, Reset, ResetReadyTail,
                  ResetRecHead, ResetRecTail, Exhausted, Copy, PushSpin, PushStore,
                  DrainTake, DrainStore, DrainEnd, readerVars, historyVars
    <3>2. CASE WriterCall \/ UNCHANGED vars
      BY <3>2 DEF WriterCall, AllocLease, PublishLease, FreeLease, DrainBegin, vars,
                  readerVars, historyVars
    <3> QED
      BY <1>3, <3>1, <3>2
  <2> QED
    BY <1>1, <2>1 DEF Fifo
<1>4. CASE AttachLoad
  BY <1>4 DEF AttachLoad, NoRead, Fifo
<1>5. CASE AttachStore \/ RecvEmpty \/ RecvTake \/ RecycleStore
  BY <1>5 DEF AttachStore, RecvEmpty, RecvTake, RecycleStore, NoRead, Fifo
<1>6. ASSUME NEW latest \in LatestOnly, RecvHead(latest) PROVE Fifo'
  BY <1>2, <1>6 DEF RecvHead, NoRead, Fifo
<1>7. CASE RecvFifo
  <2>1. /\ rpc' = "rx_read" /\ taken' = taken /\ taken = ready_tail
        /\ rreg' = [rreg EXCEPT !.cur = ready_tail, !.chosen = ready_tail,
                                !.newtail = ready_tail + 1]
    BY <1>1, <1>7 DEF RecvFifo, Positions, historyVars
  <2>2. rreg'.latest = rreg.latest /\ rreg'.chosen = ready_tail /\ rreg'.newtail = ready_tail + 1
    BY <1>1, <2>1 DEF ReadLocals
  <2> QED
    BY <1>1, <2>1, <2>2 DEF Fifo
<1>8. CASE RecvRead
  <2>1. /\ rpc = "rx_read" /\ taken' = taken
        /\ \/ rpc' = "rx_take" /\ \E d : rreg' = [rreg EXCEPT !.desc = d]
           \/ rpc' = "idle" /\ rreg' = NoRead
    BY <1>8 DEF RecvRead, historyVars
  <2>2. CASE rpc' = "idle" /\ rreg' = NoRead
    BY <2>2 DEF Fifo, NoRead
  <2>3. ASSUME NEW d, rpc' = "rx_take", rreg' = [rreg EXCEPT !.desc = d] PROVE Fifo'
    <3>1. rreg'.latest = rreg.latest /\ rreg'.chosen = rreg.chosen /\ rreg'.newtail = rreg.newtail
      BY <1>1, <2>3 DEF ReadLocals
    <3> QED
      BY <1>1, <2>1, <2>3, <3>1 DEF Fifo
  <2> QED
    BY <2>1, <2>2, <2>3
<1>9. ASSUME NEW w \in Wraps, DropWrap(w) PROVE Fifo'
  BY <1>9 DEF DropWrap, NoRead, Fifo
<1>10. CASE RecycleSpin
  <2>1. rreg'.latest = rreg.latest
    BY <1>1, <1>10 DEF RecycleSpin, ReadLocals
  <2> QED
    BY <1>1, <1>10, <2>1 DEF RecycleSpin, Fifo
<1>11. CASE ReaderStep
  BY <1>5, <1>7, <1>8, <1>10, <1>11, NeverHappens DEF ReaderStep
<1>12. CASE ReaderCall
  BY <1>4, <1>6, <1>9, <1>12 DEF ReaderCall
<1> QED
  BY <1>3, <1>11, <1>12, NeverHappens DEF TransportNext

\* A step that leaves every owner and every block alone.
Stay ==
    /\ UNCHANGED <<used, ready_head, ready, rec_head, recycle, lease, held, taken>>
    /\ RecTaken' = RecTaken /\ Skips' = Skips

\* The steps that give, take or move a block; RecTaken and Skips change in no other.
LEMMA OwnersChange ==
    ASSUME TypeInv, RingInv, OwnerInv, Roomy, RoomStrong, [TransportNext]_vars
    PROVE  \/ Stay
           \/ AllocGrant \/ PushStore \/ (\E l \in Leases : FreeLease(l))
           \/ DrainTake \/ DrainStore
           \/ AttachStore \/ RecvTake \/ RecycleStore
<1>1. CASE Copy \/ PushSpin \/ DrainEnd \/ DrainBegin
  BY <1>1 DEF Copy, PushSpin, DrainEnd, DrainBegin, Stay, RecTaken, Skips, allocVars,
              headerVars, readyVars, recVars, readerVars, historyVars
<1>2. ASSUME NEW l \in Leases, NEW size \in Sizes, NEW publish \in BOOLEAN,
             AllocLease(l, size, publish) \/ PublishLease(l)
      PROVE  Stay
  BY <1>2 DEF AllocLease, PublishLease, Stay, RecTaken, Skips, allocVars, headerVars,
              readyVars, recVars, readerVars, historyVars
<1>3. CASE AttachLoad
  <2>1. attaches \in Nat
    BY DEF TypeInv, ReaderOK
  <2>2. UNCHANGED <<used, ready_head, ready, rec_head, recycle, lease, held, taken, wpc, rec_tail>>
    BY <1>3 DEF AttachLoad, allocVars, headerVars, readyVars, recVars, writerVars, historyVars
  <2>3. rpc = "detached" /\ rpc' = "attach" /\ attaches' = attaches + 1
    BY <1>3 DEF AttachLoad
  <2> QED
    BY <2>1, <2>2, <2>3 DEF Stay, RecTaken, Skips
<1>4. CASE RecvEmpty \/ RecvFifo \/ RecvRead \/ RecycleSpin
  <2>1. /\ UNCHANGED <<used, ready_head, ready, rec_head, recycle, lease, held, taken>>
        /\ UNCHANGED <<wpc, rec_tail, attaches>>
    BY <1>4 DEF RecvEmpty, RecvFifo, RecvRead, RecycleSpin, allocVars, headerVars, readyVars,
                recVars, writerVars, historyVars
  <2>2. rpc # "attach" /\ rpc' # "attach"
    BY <1>4 DEF RecvEmpty, RecvFifo, RecvRead, RecycleSpin
  <2> QED
    BY <2>1, <2>2 DEF Stay, RecTaken, Skips
<1>5. ASSUME NEW latest, NEW w, RecvHead(latest) \/ DropWrap(w) PROVE Stay
  BY <1>5 DEF RecvHead, DropWrap, Stay, RecTaken, Skips, allocVars, headerVars, readyVars,
              recVars, writerVars, historyVars
<1>6. CASE UNCHANGED vars
  BY <1>6 DEF vars, Stay, RecTaken, Skips, allocVars, headerVars, readyVars, recVars,
              writerVars, readerVars, historyVars
<1>7. CASE WriterStep
  BY <1>1, <1>7, NeverHappens DEF WriterStep
<1>8. CASE WriterCall
  <2>1. ASSUME NEW l \in Leases, PublishLease(l) PROVE Stay
    BY <2>1 DEF PublishLease, Stay, RecTaken, Skips, allocVars, headerVars,
                readyVars, recVars, readerVars, historyVars
  <2> QED
    BY <1>1, <1>2, <1>8, <2>1 DEF WriterCall
<1>9. CASE ReaderStep
  BY <1>4, <1>9, NeverHappens DEF ReaderStep
<1>10. CASE ReaderCall
  BY <1>3, <1>5, <1>10 DEF ReaderCall
<1> QED
  BY <1>6, <1>7, <1>8, <1>9, <1>10, NeverHappens DEF TransportNext

\* A step after which every live block had been live or has an owner, and every owner
\* of before still answers for its block, if it is live.
LEMMA LostShrinks ==
    ASSUME LostFew, attaches \in Nat, Skips' = Skips, UNCHANGED attaches, rpc' # "attach" \/ rpc' = rpc,
           \A i \in DOMAIN used' : i \in DOMAIN used \/ i \in Accounted',
           \A i \in Accounted : i \in Accounted' \/ i \notin DOMAIN used'
    PROVE  LostFew'
<1>1. Lost' \subseteq Lost
  BY DEF Lost
<1>2. IsFiniteSet(Lost') /\ Cardinality(Lost') <= Cardinality(Lost)
      /\ Cardinality(Lost') \in Nat /\ Cardinality(Lost) \in Nat
  <2>1. IsFiniteSet(Lost') /\ Cardinality(Lost') <= Cardinality(Lost)
    BY <1>1, FS_Subset DEF LostFew
  <2> QED
    BY <2>1, FS_CardinalityType DEF LostFew
<1>3. Cardinality(Lost') <= ReadyCap * Skips'
  <2>1. ReadyCap * Skips \in Int /\ Cardinality(Lost) <= ReadyCap * Skips
    BY TransportAssumption DEF LostFew, Skips
  <2>2. ReadyCap * Skips' = ReadyCap * Skips
    OBVIOUS
  <2> DEFINE lost == ReadyCap * Skips
  <2>3. Cardinality(Lost') <= lost
    BY <1>2, <2>1
  <2> QED
    BY <2>2, <2>3
<1>4. attaches' <= MaxAttach /\ (rpc' = "attach" => attaches' > 0)
  BY DEF LostFew
<1> QED
  BY <1>2, <1>3, <1>4 DEF LostFew

LEMMA StepLostFew ==
    ASSUME TypeInv, RingInv, OwnerInv, Roomy, RoomStrong, [TransportNext]_vars
    PROVE  LostFew'
<1>1. /\ ready_head \in Nat /\ ready_tail \in Nat /\ rec_head \in Nat /\ rec_tail \in Nat
      /\ taken \in Nat /\ ReadyCap \in Nat \ {0} /\ RecCap \in Nat \ {0}
      /\ lease \in [Leases -> Lease \cup {None}] /\ held \in [Wraps -> Desc \cup {None}]
      /\ ready \in [0 .. ReadyCap - 1 -> Desc] /\ recycle \in [0 .. RecCap - 1 -> Nat]
      /\ rreg \in ReadLocals /\ attaches \in Nat
  BY TransportAssumption DEF TypeInv, HeaderOK, HistoryOK, WriterOK, ReaderOK, RegionOK
<1>2. clean /\ clean' /\ LostFew /\ Fifo /\ Fresh
  BY StepStaysClean DEF RoomStrong
<1>3. Positions /\ Remembers /\ ReadyRing /\ RecycleRing
  BY <1>2 DEF OwnerInv, RingInv
<1>4. CASE Stay
  <2>1. Accounted' = Accounted /\ used' = used /\ Skips' = Skips
    BY <1>4 DEF Stay, Accounted, LeaseIds, ReadyIds, HeldIds, RecIds, ReadySlot, RecSlot
  <2>2. Lost' = Lost
    BY <2>1 DEF Lost
  <2>3. attaches' <= MaxAttach /\ (rpc' = "attach" => attaches' > 0)
    <3>1. \/ attaches' = attaches /\ (rpc' = "attach" => rpc = "attach")
          \/ attaches < MaxAttach /\ attaches' = attaches + 1
      BY DEF TransportNext, WriterStep, WriterCall, ReaderStep, ReaderCall, vars, AllocGrant,
             DropOldest, DropStore, Reset, ResetReadyTail, ResetRecHead, ResetRecTail, Exhausted,
             Copy, PushSpin, PushStore, DrainTake, DrainStore, DrainEnd, AllocLease, PublishLease,
             FreeLease, DrainBegin, AttachLoad, AttachStore, RecvHead, RecvEmpty, RecvFifo,
             RecvLatest, RecvPanic, SkipTry, SkipStore, SkipFull, RecvRead, RecvTake, DropWrap,
             RecycleSpin, RecycleStore, Crash, readerVars
    <3> QED
      BY <1>1, <1>2, <3>1, TransportAssumption DEF LostFew
  <2> QED
    BY <1>2, <2>1, <2>2, <2>3 DEF LostFew
<1>5. CASE AllocGrant
  <2>1. /\ wpc = "alloc" /\ wpc' # "drain_store" /\ UNCHANGED <<rpc, attaches>>
        /\ UNCHANGED <<ready_head, rec_head, rec_tail, ready, recycle, held, taken>>
    BY <1>2, <1>5 DEF AllocGrant, Fresh, headerVars, readyVars, recVars, readerVars
  <2>2. DOMAIN used' = (DOMAIN used) \cup {next_id}
    BY <1>5 DEF AllocGrant, Alloc
  <2>3. wreg.lease \in Leases /\ lease[wreg.lease] = None
    BY <1>2, <2>1 DEF TypeInv, WriterOK, Busy, Fresh
  <2> DEFINE new == [id |-> next_id, off |-> used'[next_id].start, len |-> wreg.size]
  <2>4. lease' = [lease EXCEPT ![wreg.lease] = new]
    BY <1>5 DEF AllocGrant
  <2>5. lease'[wreg.lease].id = next_id /\ lease'[wreg.lease] # None
    <3>1. next_id \in Nat /\ used'[next_id].start \in Nat /\ wreg.size \in Nat
      BY <2>2, StepType DEF TypeInv, TypeOK, Block, WriterOK, WriteLocals
    <3>2. new # None
      BY <3>1, NoneAssumption DEF Lease
    <3> QED
      BY <1>1, <2>3, <2>4, <3>2
  <2>6. \A m \in Leases : lease[m] # None => lease'[m] = lease[m]
    BY <1>1, <2>3, <2>4
  <2>7. LeaseIds \subseteq LeaseIds' /\ next_id \in LeaseIds'
    <3>1. \A m \in Leases : lease[m] # None => lease'[m] # None /\ lease'[m].id = lease[m].id
      BY <2>6
    <3> QED
      BY <2>3, <2>5, <3>1 DEF LeaseIds
  <2>8. ReadyIds' = ReadyIds /\ HeldIds' = HeldIds /\ RecIds' = RecIds /\ Skips' = Skips
    BY <2>1 DEF ReadyIds, HeldIds, RecIds, ReadySlot, RecSlot, RecTaken, Skips
  <2>9. Accounted \subseteq Accounted' /\ next_id \in Accounted'
    BY <2>7, <2>8 DEF Accounted
  <2> QED
    BY <1>1, <1>2, <2>1, <2>2, <2>8, <2>9, LostShrinks
<1>6. CASE PushStore
  <2> DEFINE l == wreg.lease
  <2>1. /\ wpc = "slot" /\ wpc' = "idle" /\ UNCHANGED <<rpc, attaches, used>>
        /\ UNCHANGED <<rec_head, rec_tail, recycle, held, taken>>
        /\ ready' = [ready EXCEPT ![ReadySlot(wreg.pos)] = Published]
        /\ ready_head' = wreg.pos + 1 /\ lease' = [lease EXCEPT ![l] = None]
        /\ wreg.pos = ready_head
    BY <1>3, <1>6 DEF PushStore, allocVars, recVars, readerVars, historyVars, ReadyRing
  <2>2. Published.id = lease[l].id
    BY DEF Published
  <2>3. ReadySlot(wreg.pos) \in 0 .. ReadyCap - 1
    BY <1>1, <2>1 DEF ReadySlot
  <2>4. ready'[ReadySlot(ready_head)].id = lease[l].id
    BY <1>1, <2>1, <2>2, <2>3
  <2>5. \A p \in taken .. ready_head - 1 : ready'[ReadySlot(p)] = ready[ReadySlot(p)]
    <3> SUFFICES ASSUME NEW p \in taken .. ready_head - 1
                 PROVE  ready'[ReadySlot(p)] = ready[ReadySlot(p)]
      OBVIOUS
    <3>1. ReadySlot(p) # ReadySlot(wreg.pos)
      BY <1>2, <1>3, <2>1, ReadySlotFree
    <3>2. ReadySlot(p) \in 0 .. ReadyCap - 1
      BY <1>1 DEF ReadySlot
    <3> QED
      BY <1>1, <2>1, <3>1, <3>2
  <2>6. ReadyIds \subseteq ReadyIds' /\ lease[l].id \in ReadyIds'
    <3>1. taken <= ready_head /\ ready_head' = ready_head + 1
      BY <1>3, <2>1 DEF Positions
    <3>2. taken .. ready_head - 1 \subseteq taken' .. ready_head' - 1
          /\ ready_head \in taken' .. ready_head' - 1
      BY <1>1, <2>1, <3>1
    <3>3. ReadyIds' = {ready'[ReadySlot(p)].id : p \in taken' .. ready_head' - 1}
      BY DEF ReadyIds, ReadySlot
    <3> QED
      BY <2>4, <2>5, <3>2, <3>3 DEF ReadyIds
  <2>7. \A m \in Leases : lease[m] # None => m = l \/ lease'[m] = lease[m]
    BY <1>1, <2>1
  <2>8. LeaseIds \subseteq LeaseIds' \cup {lease[l].id}
    <3>1. \A m \in Leases : lease[m] # None =>
             lease[m].id = lease[l].id \/ (lease'[m] # None /\ lease'[m].id = lease[m].id)
      BY <2>7
    <3> QED
      BY <3>1 DEF LeaseIds
  <2>9. HeldIds' = HeldIds /\ RecIds' = RecIds /\ Skips' = Skips
    BY <2>1 DEF HeldIds, RecIds, RecSlot, RecTaken, Skips
  <2>10. Accounted \subseteq Accounted'
    BY <2>6, <2>8, <2>9 DEF Accounted
  <2> QED
    BY <1>1, <1>2, <2>1, <2>9, <2>10, LostShrinks
<1>7. ASSUME NEW l \in Leases, FreeLease(l) PROVE LostFew'
  <2>1. /\ wpc = "idle" /\ UNCHANGED <<rpc, attaches, wpc>>
        /\ UNCHANGED <<ready_head, rec_head, rec_tail, ready, recycle, held, taken>>
        /\ lease' = [lease EXCEPT ![l] = None] /\ FreeIfLive(lease[l].id)
    BY <1>7 DEF FreeLease, headerVars, readyVars, recVars, readerVars, historyVars
  <2>2. /\ lease[l].id \notin DOMAIN used' /\ DOMAIN used' \subseteq DOMAIN used
    BY <2>1, FreeOthers
  <2>3. \A m \in Leases : lease[m] # None => m = l \/ lease'[m] = lease[m]
    BY <1>1, <2>1
  <2>4. LeaseIds \subseteq LeaseIds' \cup {lease[l].id}
    <3>1. \A m \in Leases : lease[m] # None =>
             lease[m].id = lease[l].id \/ (lease'[m] # None /\ lease'[m].id = lease[m].id)
      BY <2>3
    <3> QED
      BY <3>1 DEF LeaseIds
  <2>5. ReadyIds' = ReadyIds /\ HeldIds' = HeldIds /\ RecIds' = RecIds /\ Skips' = Skips
    BY <2>1 DEF ReadyIds, HeldIds, RecIds, ReadySlot, RecSlot, RecTaken, Skips
  <2>6. \A i \in Accounted : i \in Accounted' \/ i \notin DOMAIN used'
    BY <2>2, <2>4, <2>5 DEF Accounted
  <2> QED
    BY <1>1, <1>2, <2>1, <2>2, <2>5, <2>6, LostShrinks
<1>8. CASE DrainTake
  <2>1. /\ wpc = "drain" /\ wpc' = "drain_store" /\ UNCHANGED <<rpc, attaches, lease>>
        /\ UNCHANGED <<ready_head, rec_head, rec_tail, ready, recycle, held, taken>>
        /\ rec_head # rec_tail
        /\ \E id \in RecSlotReads(RecSlot(rec_tail)) : FreeIfLive(id)
    BY <1>8 DEF DrainTake, headerVars, readyVars, recVars, readerVars, historyVars
  <2>2. rec_tail \in rec_tail .. rec_head - 1
    BY <1>1, <1>3, <2>1 DEF RecycleRing
  <2>3. RecSlotReads(RecSlot(rec_tail)) = {recycle[RecSlot(rec_tail)]}
    BY <1>2, <2>2, RecReadNotTorn
  <2>4. FreeIfLive(recycle[RecSlot(rec_tail)])
    BY <2>1, <2>3
  <2>5. recycle[RecSlot(rec_tail)] \notin DOMAIN used' /\ DOMAIN used' \subseteq DOMAIN used
    BY <2>4, FreeOthers
  <2>6. RecTaken = rec_tail /\ RecTaken' = rec_tail + 1
    BY <2>1 DEF RecTaken
  <2>7. RecIds \subseteq RecIds' \cup {recycle[RecSlot(rec_tail)]}
    <3>1. \A q \in RecTaken .. rec_head - 1 : q = rec_tail \/ q \in RecTaken' .. rec_head' - 1
      BY <1>1, <2>1, <2>6
    <3>2. RecIds' = {recycle[RecSlot(q)] : q \in RecTaken' .. rec_head' - 1}
      BY <2>1 DEF RecIds, RecSlot
    <3> QED
      BY <3>1, <3>2 DEF RecIds
  <2>8. ReadyIds' = ReadyIds /\ HeldIds' = HeldIds /\ LeaseIds' = LeaseIds /\ Skips' = Skips
    BY <2>1 DEF ReadyIds, HeldIds, LeaseIds, ReadySlot, Skips
  <2>9. \A i \in Accounted : i \in Accounted' \/ i \notin DOMAIN used'
    BY <2>5, <2>7, <2>8 DEF Accounted
  <2> QED
    BY <1>1, <1>2, <2>1, <2>5, <2>8, <2>9, LostShrinks
<1>9. CASE DrainStore
  <2>1. /\ wpc = "drain_store" /\ wpc' = "drain" /\ UNCHANGED <<rpc, attaches, lease, used>>
        /\ UNCHANGED <<ready_head, rec_head, ready, recycle, held, taken>>
        /\ rec_tail' = wreg.pos + 1 /\ wreg.pos = rec_tail
    BY <1>3, <1>9 DEF DrainStore, allocVars, readyVars, readerVars, historyVars, RecycleRing
  <2>2. RecTaken' = RecTaken
    BY <2>1 DEF RecTaken
  <2>3. Accounted' = Accounted /\ Skips' = Skips
    BY <2>1, <2>2 DEF Accounted, LeaseIds, ReadyIds, HeldIds, RecIds, ReadySlot, RecSlot, Skips
  <2> QED
    BY <1>1, <1>2, <2>1, <2>3, LostShrinks
<1>10. CASE AttachStore
  <2>1. /\ rpc = "attach" /\ rpc' = "idle" /\ taken' = rreg.head
        /\ UNCHANGED <<attaches, lease, used, wpc>>
        /\ UNCHANGED <<ready_head, rec_head, rec_tail, ready, recycle, held>>
    BY <1>2, <1>10 DEF AttachStore, allocVars, recVars, writerVars
  <2>2. /\ taken <= rreg.head /\ rreg.head <= ready_head /\ rreg.head \in Nat
        /\ ready_tail <= taken /\ ready_head <= ready_tail + ReadyCap
    BY <1>1, <1>3, <2>1, ReadLocalsFields DEF Positions, ReadyRing
  <2> DEFINE S == taken .. rreg.head - 1
             skipped == {ready[ReadySlot(p)].id : p \in S}
             f == [p \in S |-> ready[ReadySlot(p)].id]
  <2>3. IsFiniteSet(skipped) /\ Cardinality(skipped) <= ReadyCap /\ Cardinality(skipped) \in Nat
    <3>1. IsFiniteSet(S) /\ Cardinality(S) = rreg.head - taken
      BY <1>1, <2>2, IntervalSize
    <3>2. f \in [S -> skipped] /\ \A y \in skipped : \E x \in S : f[x] = y
      OBVIOUS
    <3>3. IsFiniteSet(skipped) /\ Cardinality(skipped) <= Cardinality(S)
      BY <3>1, <3>2, ImageFew
    <3>4. Cardinality(skipped) \in Nat
      BY <3>3, FS_CardinalityType
    <3> QED
      BY <1>1, <2>2, <3>1, <3>3, <3>4
  <2>4. ReadyIds \subseteq ReadyIds' \cup skipped
    <3>1. \A p \in taken .. ready_head - 1 : p \in S \/ p \in taken' .. ready_head' - 1
      BY <1>1, <2>1, <2>2
    <3>2. ReadyIds' = {ready[ReadySlot(p)].id : p \in taken' .. ready_head' - 1}
      BY <2>1 DEF ReadyIds, ReadySlot
    <3> QED
      BY <3>1, <3>2 DEF ReadyIds
  <2>5. LeaseIds' = LeaseIds /\ HeldIds' = HeldIds /\ RecIds' = RecIds
    BY <2>1 DEF LeaseIds, HeldIds, RecIds, RecSlot, RecTaken
  <2> HIDE DEF skipped
  <2>6. Lost' \subseteq Lost \cup skipped
    BY <2>1, <2>4, <2>5 DEF Lost, Accounted
  <2>7. /\ IsFiniteSet(Lost \cup skipped) /\ Cardinality(Lost) \in Nat
        /\ Cardinality(Lost \cup skipped) <= Cardinality(Lost) + Cardinality(skipped)
    BY <1>2, <2>3, UnionFew DEF LostFew
  <2>8. IsFiniteSet(Lost') /\ Cardinality(Lost') <= Cardinality(Lost \cup skipped)
    BY <2>6, <2>7, FS_Subset
  <2>9. Cardinality(Lost') \in Nat /\ Cardinality(Lost \cup skipped) \in Nat
    BY <2>7, <2>8, FS_CardinalityType
  <2>10. Cardinality(Lost') <= ReadyCap * Skips + ReadyCap
    <3>1. Cardinality(Lost) <= ReadyCap * Skips /\ ReadyCap * Skips \in Int
      BY <1>1, <1>2 DEF LostFew, Skips
    <3> DEFINE lost   == ReadyCap * Skips
               after  == Cardinality(Lost')
               before == Cardinality(Lost)
               both   == Cardinality(Lost \cup skipped)
               gone   == Cardinality(skipped)
    <3>2. /\ after <= both /\ both <= before + gone /\ before <= lost /\ gone <= ReadyCap
          /\ after \in Nat /\ both \in Nat /\ before \in Nat /\ gone \in Nat /\ lost \in Int
      BY <2>3, <2>7, <2>8, <2>9, <3>1
    <3> HIDE DEF lost, after, before, both, gone
    <3>3. after <= lost + ReadyCap
      BY <1>1, <3>2
    <3> QED
      BY <3>3 DEF lost, after
  <2>11. Skips' = Skips + 1 /\ Skips \in Int
    BY <1>1, <2>1 DEF Skips
  <2>12. ReadyCap * Skips' = ReadyCap * Skips + ReadyCap
    BY <1>1, <2>11
  <2>13. attaches' <= MaxAttach /\ rpc' # "attach"
    BY <1>2, <2>1 DEF LostFew
  <2> QED
    BY <2>8, <2>10, <2>12, <2>13 DEF LostFew
<1>11. CASE RecvTake
  <2>1. /\ rpc = "rx_take" /\ rpc' = "idle" /\ taken' = taken + 1 /\ rreg.chosen = taken
        /\ rreg.desc.id = ready[ReadySlot(taken)].id
        /\ UNCHANGED <<attaches, lease, used, wpc>>
        /\ UNCHANGED <<ready_head, rec_head, rec_tail, ready, recycle>>
    BY <1>2, <1>3, <1>11 DEF RecvTake, Fifo, Remembers, allocVars, recVars, writerVars
  <2>2. PICK w \in Wraps : held[w] = None /\ held' = [held EXCEPT ![w] = rreg.desc]
    BY <1>11 DEF RecvTake
  <2>3. held'[w] = rreg.desc /\ \A v \in Wraps : held[v] # None => held'[v] = held[v]
    BY <1>1, <2>2
  <2>4. rreg.desc # None
    BY <1>1, ReadLocalsFields, NoneAssumption
  <2>5. HeldIds \subseteq HeldIds' /\ rreg.desc.id \in HeldIds'
    <3>1. \A v \in Wraps : held[v] # None => held'[v] # None /\ held'[v].id = held[v].id
      BY <2>3
    <3> QED
      BY <2>3, <2>4, <3>1 DEF HeldIds
  <2>6. ReadyIds \subseteq ReadyIds' \cup {rreg.desc.id}
    <3>1. \A p \in taken .. ready_head - 1 : p = taken \/ p \in taken' .. ready_head' - 1
      BY <1>1, <2>1
    <3>2. ReadyIds' = {ready[ReadySlot(p)].id : p \in taken' .. ready_head' - 1}
      BY <2>1 DEF ReadyIds, ReadySlot
    <3> QED
      BY <2>1, <3>1, <3>2 DEF ReadyIds
  <2>7. LeaseIds' = LeaseIds /\ RecIds' = RecIds /\ Skips' = Skips
    BY <2>1 DEF LeaseIds, RecIds, RecSlot, RecTaken, Skips
  <2>8. Accounted \subseteq Accounted'
    BY <2>5, <2>6, <2>7 DEF Accounted
  <2> QED
    BY <1>1, <1>2, <2>1, <2>7, <2>8, LostShrinks
<1>12. CASE RecycleStore
  <2> DEFINE w == rreg.wrap
  <2>1. /\ rpc = "rc_slot" /\ rpc' = "idle" /\ rreg.rec = rec_head
        /\ w \in Wraps /\ held[w].id = rreg.desc.id
        /\ recycle' = [recycle EXCEPT ![RecSlot(rec_head)] = rreg.desc.id]
        /\ rec_head' = rec_head + 1 /\ held' = [held EXCEPT ![w] = None]
        /\ UNCHANGED <<attaches, lease, used, wpc, taken>>
        /\ UNCHANGED <<ready_head, rec_tail, ready>>
    BY <1>3, <1>12 DEF RecycleStore, Remembers, RecycleRing, Pushing, allocVars, readyVars,
                       writerVars, historyVars
  <2>2. RecSlot(rec_head) \in 0 .. RecCap - 1
    BY <1>1 DEF RecSlot
  <2>3. recycle'[RecSlot(rec_head)] = rreg.desc.id
    BY <1>1, <2>1, <2>2
  <2>4. RecTaken' = RecTaken /\ RecTaken \in Nat /\ rec_tail <= RecTaken /\ RecTaken <= rec_head
    BY <1>1, <1>3, <2>1 DEF RecTaken, RecycleRing
  <2>5. \A q \in RecTaken .. rec_head - 1 : recycle'[RecSlot(q)] = recycle[RecSlot(q)]
    <3> SUFFICES ASSUME NEW q \in RecTaken .. rec_head - 1
                 PROVE  recycle'[RecSlot(q)] = recycle[RecSlot(q)]
      OBVIOUS
    <3>1. q \in rec_tail .. rec_head - 1
      BY <1>1, <2>4
    <3>2. RecSlot(q) # RecSlot(rec_head)
      BY <1>2, <2>1, <3>1, RecSlotFree DEF Pushing
    <3> QED
      BY <1>1, <2>1, <3>2
  <2>6. RecIds \subseteq RecIds' /\ rreg.desc.id \in RecIds'
    <3>1. RecTaken .. rec_head - 1 \subseteq RecTaken' .. rec_head' - 1
          /\ rec_head \in RecTaken' .. rec_head' - 1
      BY <1>1, <2>1, <2>4
    <3>2. RecIds' = {recycle'[RecSlot(q)] : q \in RecTaken' .. rec_head' - 1}
      BY DEF RecIds, RecSlot
    <3> QED
      BY <2>3, <2>5, <3>1, <3>2 DEF RecIds
  <2>7. \A v \in Wraps : held[v] # None => v = w \/ held'[v] = held[v]
    BY <1>1, <2>1
  <2>8. HeldIds \subseteq HeldIds' \cup {rreg.desc.id}
    <3>1. \A v \in Wraps : held[v] # None =>
             held[v].id = rreg.desc.id \/ (held'[v] # None /\ held'[v].id = held[v].id)
      BY <2>1, <2>7
    <3> QED
      BY <3>1 DEF HeldIds
  <2>9. LeaseIds' = LeaseIds /\ ReadyIds' = ReadyIds /\ Skips' = Skips
    BY <2>1 DEF LeaseIds, ReadyIds, ReadySlot, Skips
  <2>10. Accounted \subseteq Accounted'
    BY <2>6, <2>8, <2>9 DEF Accounted
  <2> QED
    BY <1>1, <1>2, <2>1, <2>9, <2>10, LostShrinks
<1> QED
  BY <1>4, <1>5, <1>6, <1>7, <1>8, <1>9, <1>10, <1>11, <1>12, OwnersChange

\* Every step of either process keeps RoomInv.
LEMMA StepRoom == TypeInv /\ RingInv /\ OwnerInv /\ RoomInv /\ [TransportNext]_vars => RoomInv'
<1> SUFFICES ASSUME TypeInv, RingInv, OwnerInv, Roomy, RoomStrong, [TransportNext]_vars
             PROVE  RoomStrong'
  BY DEF RoomInv, Roomy
<1> QED
  BY StepStaysClean, StepFresh, StepWhole, StepFifo, StepLostFew DEF RoomStrong

\* RoomSuffices: with one-byte frames, FIFO receives and a consumer that lives, an arena
\* with room for every lease, both rings, every buffer held and a ring's worth for each
\* attach is never found full: alloc_lease neither drops a frame nor resets.  The sets
\* counted are finite, and ids do not wrap.
THEOREM RoomSufficesCorrect ==
    ASSUME IsFiniteSet(Leases), IsFiniteSet(Wraps), MaxAllocs < MaxId
    PROVE  TransportSpec => []RoomSuffices
<1>1. Init => TypeInv /\ RingInv /\ OwnerInv /\ RoomInv
  BY InitType, InitRing, InitOwner, InitRoom
<1>2. TypeInv /\ RingInv /\ OwnerInv /\ RoomInv /\ [TransportNext]_vars
        => (TypeInv /\ RingInv /\ OwnerInv /\ RoomInv)'
  BY StepType, StepRing, StepOwner, StepRoom
<1>3. RoomInv => RoomSuffices
  BY DEF RoomInv, Roomy, RoomStrong, RoomSuffices
<1> QED
  BY <1>1, <1>2, <1>3, PTL DEF TransportSpec
--------------------------------------------------------------------------------
(***************************************************************************)
(* For every capacity, arena and set of leases and buffers: until the      *)
(* writer first drops a queued frame or resets, what is queued or held     *)
(* downstream is the frame it was published as, unaltered.  The invariant  *)
(* is that every descriptor an owner has names exactly its own block       *)
(* (Content), so that by NoOverlap the writer's copy reaches nobody else's *)
(* bytes, and that the frame at position p of the ready ring is number     *)
(* p + 1 (Numbered).                                                       *)
(***************************************************************************)

\* What an owner's descriptor names is its own block, to the byte; what is queued or
\* held downstream is unaltered, and so is what the writer has copied and not queued.
Content ==
    /\ \A l \in Leases : lease[l] # None =>
         used[lease[l].id] = [start |-> lease[l].off, size |-> lease[l].len]
    /\ \A p \in taken .. ready_head - 1 :
         LET d == ready[ReadySlot(p)]
         IN  used[d.id] = [start |-> d.off, size |-> d.len] /\ Intact(d)
    /\ \A w \in Wraps : held[w] # None =>
         /\ used[held[w].id] = [start |-> held[w].off, size |-> held[w].len]
         /\ Intact(held[w])
    /\ wpc \in {"push", "slot"} => \A b \in Payload(lease[wreg.lease]) : arena[b] = frames

\* Frames are queued in the order written, none left out: the writer holds at most the
\* newest.
Numbered ==
    /\ frames = IF wpc \in {"push", "slot"} THEN ready_head + 1 ELSE ready_head
    /\ \A p \in taken .. ready_head - 1 : ready[ReadySlot(p)].pts = p + 1

\* A receive takes all up to the chosen entry, and passes entries over only when it is
\* latest-only.
Reading ==
    /\ rpc = "rx_take" => rreg.desc = ready[ReadySlot(rreg.chosen)]
    /\ rpc \in Receiving => rreg.newtail = rreg.chosen + 1
    /\ rpc \in {"rx_drop", "rx_slot"} => rreg.latest
    /\ rpc \in Receiving /\ taken < rreg.chosen => rreg.latest

ContentInv == clean => Content /\ Numbered /\ Reading

LEMMA InitContent == Init => ContentInv
BY DEF Init, WriterInit, ReaderInit, ContentInv, Content, Numbered, Reading, Receiving

\* What Content says of the state after a step, conjunct by conjunct.
LEMMA ContentAfter ==
    ASSUME \A l \in Leases : lease'[l] # None =>
             used'[lease'[l].id] = [start |-> lease'[l].off, size |-> lease'[l].len],
           \A p \in taken' .. ready_head' - 1 :
             LET d == ready'[ReadySlot(p)]
             IN  used'[d.id] = [start |-> d.off, size |-> d.len]
                   /\ \A b \in Payload(d) : arena'[b] = d.pts,
           \A w \in Wraps : held'[w] # None =>
             /\ used'[held'[w].id] = [start |-> held'[w].off, size |-> held'[w].len]
             /\ \A b \in Payload(held'[w]) : arena'[b] = held'[w].pts,
           wpc' \in {"push", "slot"} =>
             \A b \in Payload(lease'[wreg'.lease]) : arena'[b] = frames'
    PROVE  Content'
BY DEF Content, Intact, Payload, ReadySlot

\* A step that leaves the allocator, the ready slots, the leases and the arena alone and
\* gives nobody a new descriptor.
LEMMA ContentStay ==
    ASSUME Content, UNCHANGED <<used, ready, lease, arena, frames>>,
           \A p \in taken' .. ready_head' - 1 : p \in taken .. ready_head - 1,
           \A w \in Wraps : held'[w] # None => held'[w] = held[w],
           wpc' \in {"push", "slot"} => wpc \in {"push", "slot"} /\ wreg'.lease = wreg.lease
    PROVE  Content'
<1>1. \A l \in Leases : lease'[l] # None =>
        used'[lease'[l].id] = [start |-> lease'[l].off, size |-> lease'[l].len]
  BY DEF Content
<1>2. \A p \in taken' .. ready_head' - 1 :
        LET d == ready'[ReadySlot(p)]
        IN  used'[d.id] = [start |-> d.off, size |-> d.len]
              /\ \A b \in Payload(d) : arena'[b] = d.pts
  BY DEF Content, Intact
<1>3. \A w \in Wraps : held'[w] # None =>
        /\ used'[held'[w].id] = [start |-> held'[w].off, size |-> held'[w].len]
        /\ \A b \in Payload(held'[w]) : arena'[b] = held'[w].pts
  BY DEF Content, Intact
<1>4. wpc' \in {"push", "slot"} =>
        \A b \in Payload(lease'[wreg'.lease]) : arena'[b] = frames'
  BY DEF Content
<1> QED
  BY <1>1, <1>2, <1>3, <1>4, ContentAfter

\* free_by_id leaves the blocks of the other ids as they are.
LEMMA FreeKeepsBlocks ==
    ASSUME NEW id, FreeIfLive(id)
    PROVE  \A i \in DOMAIN used : i # id => used'[i] = used[i]
BY DEF FreeIfLive, FreeById, allocVars

\* The ids of queued descriptors, of buffers and of leases are live and all different.
LEMMA OwnedIds ==
    ASSUME SingleOwner
    PROVE  /\ \A l \in Leases : lease[l] # None => lease[l].id \in DOMAIN used
           /\ \A p \in taken .. ready_head - 1 : ready[ReadySlot(p)].id \in DOMAIN used
           /\ \A w \in Wraps : held[w] # None => held[w].id \in DOMAIN used
           /\ \A l, m \in Leases :
                lease[l] # None /\ lease[m] # None /\ l # m => lease[l].id # lease[m].id
           /\ \A l \in Leases, p \in taken .. ready_head - 1 :
                lease[l] # None => lease[l].id # ready[ReadySlot(p)].id
           /\ \A l \in Leases, w \in Wraps :
                lease[l] # None /\ held[w] # None => lease[l].id # held[w].id
<1>1. ASSUME NEW l \in Leases, lease[l] # None
      PROVE  <<"lease", l, lease[l].id>> \in Ownership
  BY <1>1 DEF Ownership
<1>2. ASSUME NEW p \in taken .. ready_head - 1
      PROVE  <<"ready", p, ready[ReadySlot(p)].id>> \in Ownership
  BY DEF Ownership
<1>3. ASSUME NEW w \in Wraps, held[w] # None
      PROVE  <<"held", w, held[w].id>> \in Ownership
  BY <1>3 DEF Ownership
<1> QED
  BY <1>1, <1>2, <1>3 DEF SingleOwner

\* Nor does an id about to be freed by the drain belong to any of them.
LEMMA DrainedId ==
    ASSUME SingleOwner, NEW q \in RecTaken .. rec_head - 1
    PROVE  /\ \A l \in Leases : lease[l] # None => lease[l].id # recycle[RecSlot(q)]
           /\ \A p \in taken .. ready_head - 1 :
                ready[ReadySlot(p)].id # recycle[RecSlot(q)]
           /\ \A w \in Wraps : held[w] # None => held[w].id # recycle[RecSlot(q)]
<1>1. <<"rec", q, recycle[RecSlot(q)]>> \in Ownership
  BY DEF Ownership
<1>2. ASSUME NEW l \in Leases, lease[l] # None
      PROVE  <<"lease", l, lease[l].id>> \in Ownership
  BY <1>2 DEF Ownership
<1>3. ASSUME NEW p \in taken .. ready_head - 1
      PROVE  <<"ready", p, ready[ReadySlot(p)].id>> \in Ownership
  BY DEF Ownership
<1>4. ASSUME NEW w \in Wraps, held[w] # None
      PROVE  <<"held", w, held[w].id>> \in Ownership
  BY <1>4 DEF Ownership
<1> QED
  BY <1>1, <1>2, <1>3, <1>4 DEF SingleOwner

\* The block granted is the one the lease names, and the others stay.
LEMMA GrantBlock ==
    ASSUME NEW size, Alloc(size), next_id \notin DOMAIN used
    PROVE  /\ used'[next_id] = [start |-> used'[next_id].start, size |-> size]
           /\ \A i \in DOMAIN used : used'[i] = used[i]
<1>1. PICK b \in free :
        used' = [i \in (DOMAIN used) \cup {next_id} |->
                   IF i = next_id THEN [start |-> align_up(b.start), size |-> size]
                                  ELSE used[i]]
  BY DEF Alloc
<1> QED
  BY <1>1

\* What two live ids name has no byte in common.
LEMMA Apart ==
    ASSUME NoOverlap, NEW d, NEW e, d.id \in DOMAIN used, e.id \in DOMAIN used, d.id # e.id,
           used[d.id] = [start |-> d.off, size |-> d.len],
           used[e.id] = [start |-> e.off, size |-> e.len],
           d.off \in Nat, d.len \in Nat, e.off \in Nat, e.len \in Nat
    PROVE  \A b \in Payload(d) : b \notin Payload(e)
<1>1. Disjoint(used[d.id], used[e.id])
  BY DEF NoOverlap
<1>2. /\ used[d.id].start = d.off /\ used[d.id].size = d.len
      /\ used[e.id].start = e.off /\ used[e.id].size = e.len
  OBVIOUS
<1>3. /\ End(used[d.id]) - 1 = d.off + d.len - 1
      /\ End(used[e.id]) - 1 = e.off + e.len - 1
  BY <1>2 DEF End
<1>4. Bytes(used[d.id]) = Payload(d)
  BY <1>2, <1>3 DEF Bytes, Payload
<1>5. Bytes(used[e.id]) = Payload(e)
  BY <1>2, <1>3 DEF Bytes, Payload
<1> QED
  BY <1>1, <1>4, <1>5 DEF Disjoint

\* The writer's steps keep Content.
LEMMA WriterContent ==
    ASSUME TypeInv, RingInv, NoOverlap, clean, clean', Owned, Content,
           WriterStep \/ WriterCall
    PROVE  Content'
<1>1. /\ ready_head \in Nat /\ ready_tail \in Nat /\ rec_head \in Nat /\ rec_tail \in Nat
      /\ taken \in Nat /\ ReadyCap \in Nat \ {0}
  BY TransportAssumption DEF TypeInv, HeaderOK, HistoryOK
<1>2. /\ lease \in [Leases -> Lease \cup {None}]
      /\ ready \in [0 .. ReadyCap - 1 -> Desc]
      /\ arena \in [0 .. Total - 1 -> Nat]
      /\ wreg \in WriteLocals /\ (wpc \in Busy => wreg.lease \in Leases)
      /\ (wpc \in {"copy", "push", "slot"} => lease[wreg.lease] # None)
  BY DEF TypeInv, WriterOK, RegionOK
<1>3. ReadyRing /\ RecycleRing /\ wpc \notin Dropping
  BY DEF RingInv
<1>4. Positions /\ InArena /\ SingleOwner
  BY DEF Owned
<1>5. ASSUME UNCHANGED <<used, ready_head, ready, lease, arena, frames, held, taken>>,
             wpc' \in {"push", "slot"} =>
               wpc \in {"push", "slot"} /\ wreg'.lease = wreg.lease
      PROVE  Content'
  BY <1>5, ContentStay
<1>6. ASSUME NEW l \in Leases, NEW size \in Sizes, NEW publish \in BOOLEAN,
             AllocLease(l, size, publish)
      PROVE  Content'
  BY <1>5, <1>6 DEF AllocLease, allocVars, headerVars, readyVars, readerVars, historyVars
<1>7. ASSUME NEW l \in Leases, PublishLease(l) PROVE Content'
  BY <1>5, <1>7 DEF PublishLease, allocVars, headerVars, readyVars, readerVars, historyVars
<1>8. CASE DrainBegin
  BY <1>5, <1>8 DEF DrainBegin, allocVars, headerVars, readyVars, readerVars, historyVars
<1>9. CASE Exhausted
  BY <1>5, <1>9 DEF Exhausted, allocVars, headerVars, readyVars, readerVars, historyVars
<1>10. CASE PushSpin
  <2>1. wreg'.lease = wreg.lease
    BY <1>2, <1>10 DEF PushSpin, WriteLocals
  <2> QED
    BY <1>5, <1>10, <2>1
       DEF PushSpin, allocVars, headerVars, readyVars, readerVars, historyVars
<1>11. CASE DrainEnd
  BY <1>5, <1>11 DEF DrainEnd, allocVars, headerVars, readyVars, readerVars, historyVars
<1>12. CASE DrainStore
  BY <1>5, <1>12 DEF DrainStore, allocVars, readyVars, readerVars, historyVars
<1>13. CASE AllocGrant
  <2> DEFINE l == wreg.lease
  <2>1. /\ l \in Leases /\ wreg.size \in Nat /\ Alloc(wreg.size)
        /\ lease' = [lease EXCEPT ![l] =
                       [id |-> next_id, off |-> used'[next_id].start, len |-> wreg.size]]
        /\ next_id \notin DOMAIN used /\ wpc' \notin {"push", "slot"}
        /\ UNCHANGED <<ready_head, ready, arena, frames, held, taken>>
    BY <1>13, <1>2
       DEF AllocGrant, Busy, WriteLocals, headerVars, readyVars, readerVars
  <2>2. /\ lease'[l] = [id |-> next_id, off |-> used'[next_id].start, len |-> wreg.size]
        /\ \A m \in Leases : m # l => lease'[m] = lease[m]
    BY <2>1, <1>2
  <2>3. /\ used'[next_id] = [start |-> used'[next_id].start, size |-> wreg.size]
        /\ \A i \in DOMAIN used : used'[i] = used[i]
    BY <2>1, GrantBlock
  <2>4. ASSUME NEW m \in Leases, lease'[m] # None
        PROVE  used'[lease'[m].id] = [start |-> lease'[m].off, size |-> lease'[m].len]
    <3>1. CASE m = l
      BY <2>2, <2>3, <3>1
    <3>2. CASE m # l
      BY <1>4, <2>2, <2>3, <2>4, <3>2, OwnedIds DEF Content
    <3> QED
      BY <3>1, <3>2
  <2>5. \A p \in taken .. ready_head - 1 :
          used'[ready[ReadySlot(p)].id] = used[ready[ReadySlot(p)].id]
    BY <1>4, <2>3, OwnedIds
  <2>6. \A w \in Wraps : held[w] # None => used'[held[w].id] = used[held[w].id]
    BY <1>4, <2>3, OwnedIds
  <2>7. ASSUME NEW p \in taken' .. ready_head' - 1
        PROVE  LET d == ready'[ReadySlot(p)]
               IN  used'[d.id] = [start |-> d.off, size |-> d.len]
                     /\ \A b \in Payload(d) : arena'[b] = d.pts
    BY <2>1, <2>5 DEF Content, Intact
  <2>8. ASSUME NEW w \in Wraps, held'[w] # None
        PROVE  used'[held'[w].id] = [start |-> held'[w].off, size |-> held'[w].len]
               /\ \A b \in Payload(held'[w]) : arena'[b] = held'[w].pts
    BY <2>1, <2>6, <2>8 DEF Content, Intact
  <2> QED
    BY <2>1, <2>4, <2>7, <2>8, ContentAfter
<1>14. ASSUME NEW id, FreeIfLive(id), wpc' \notin {"push", "slot"},
              UNCHANGED <<ready_head, ready, arena, frames, held, taken>>,
              \A m \in Leases : lease'[m] # None => lease'[m] = lease[m] /\ lease[m].id # id,
              \A p \in taken .. ready_head - 1 : ready[ReadySlot(p)].id # id,
              \A w \in Wraps : held[w] # None => held[w].id # id
       PROVE  Content'
  <2>1. \A i \in DOMAIN used : i # id => used'[i] = used[i]
    BY <1>14, FreeKeepsBlocks
  <2>2. \A m \in Leases : lease'[m] # None =>
          used'[lease'[m].id] = [start |-> lease'[m].off, size |-> lease'[m].len]
    BY <1>4, <1>14, <2>1, OwnedIds DEF Content
  <2>3. \A p \in taken .. ready_head - 1 :
          used'[ready[ReadySlot(p)].id] = used[ready[ReadySlot(p)].id]
    BY <1>4, <1>14, <2>1, OwnedIds
  <2>4. \A w \in Wraps : held[w] # None => used'[held[w].id] = used[held[w].id]
    BY <1>4, <1>14, <2>1, OwnedIds
  <2> QED
    BY <1>14, <2>2, <2>3, <2>4 DEF Content, Intact, Payload, ReadySlot
<1>15. ASSUME NEW l \in Leases, FreeLease(l) PROVE Content'
  <2>1. /\ lease[l] # None /\ FreeIfLive(lease[l].id) /\ wpc' \notin {"push", "slot"}
        /\ lease' = [lease EXCEPT ![l] = None]
        /\ UNCHANGED <<ready_head, ready, arena, frames, held, taken>>
    BY <1>15 DEF FreeLease, headerVars, readyVars, readerVars, historyVars
  <2>2. lease'[l] = None /\ \A m \in Leases : m # l => lease'[m] = lease[m]
    BY <2>1, <1>2
  <2>3. \A m \in Leases : lease'[m] # None => lease'[m] = lease[m] /\ lease[m].id # lease[l].id
    BY <1>4, <2>1, <2>2, OwnedIds
  <2>4. \A p \in taken .. ready_head - 1 : ready[ReadySlot(p)].id # lease[l].id
    BY <1>4, <2>1, OwnedIds
  <2>5. \A w \in Wraps : held[w] # None => held[w].id # lease[l].id
    BY <1>4, <2>1, OwnedIds
  <2> QED
    BY <1>14, <2>1, <2>3, <2>4, <2>5
<1>16. CASE DrainTake
  <2>1. /\ RecTaken = rec_tail /\ wpc' \notin {"push", "slot"}
        /\ \E id \in RecSlotReads(RecSlot(rec_tail)) : FreeIfLive(id)
        /\ UNCHANGED <<ready_head, ready, arena, frames, held, taken, lease>>
    BY <1>16 DEF DrainTake, RecTaken, headerVars, readyVars, readerVars, historyVars
  <2>2. rec_tail \in rec_tail .. rec_head - 1
    BY <1>16, <1>1, <1>3 DEF DrainTake, RecycleRing
  <2>3. FreeIfLive(recycle[RecSlot(rec_tail)])
    BY <2>1, <2>2, RecReadNotTorn
  <2>4. /\ \A l \in Leases : lease[l] # None => lease[l].id # recycle[RecSlot(rec_tail)]
        /\ \A p \in taken .. ready_head - 1 :
             ready[ReadySlot(p)].id # recycle[RecSlot(rec_tail)]
        /\ \A w \in Wraps : held[w] # None => held[w].id # recycle[RecSlot(rec_tail)]
    BY <1>4, <2>1, <2>2, DrainedId
  <2> QED
    BY <1>14, <2>1, <2>3, <2>4
<1>17. CASE Copy
  <2> DEFINE l == wreg.lease
  <2>1. /\ l \in Leases /\ lease[l] # None /\ frames' = frames + 1 /\ wreg' = wreg
        /\ arena' = [b \in DOMAIN arena |->
                       IF b \in Payload(lease[l]) THEN frames + 1 ELSE arena[b]]
        /\ UNCHANGED <<used, ready_head, ready, lease, held, taken>>
    BY <1>17, <1>2 DEF Copy, Busy, allocVars, headerVars, readyVars, readerVars, historyVars
  <2>2. /\ lease[l].off \in Nat /\ lease[l].len \in Nat /\ lease[l].off + lease[l].len <= Total
        /\ Total \in Nat
    BY <1>2, <1>4, <2>1, AllocatorAssumption DEF Lease, InArena
  <2>3. \A b \in Payload(lease[l]) : b \in DOMAIN arena
    BY <1>2, <2>2 DEF Payload
  <2>4. \A b \in Payload(lease[l]) : arena'[b] = frames'
    BY <2>1, <2>3
  <2>5. \A b \in DOMAIN arena : b \notin Payload(lease[l]) => arena'[b] = arena[b]
    BY <2>1
  <2>6. lease[l].id \in DOMAIN used
        /\ used[lease[l].id] = [start |-> lease[l].off, size |-> lease[l].len]
    BY <1>4, <2>1, OwnedIds DEF Content
  <2>7. ASSUME NEW d, Payload(d) \subseteq DOMAIN arena, d.off \in Nat, d.len \in Nat,
               d.id \in DOMAIN used, d.id # lease[l].id,
               used[d.id] = [start |-> d.off, size |-> d.len], Intact(d)
        PROVE  \A b \in Payload(d) : arena'[b] = d.pts
    <3>1. \A b \in Payload(d) : b \notin Payload(lease[l])
      BY <2>2, <2>6, <2>7, Apart
    <3> QED
      BY <2>5, <2>7, <3>1 DEF Intact
  <2>8. \A i \in DOMAIN used : used[i].start \in Nat /\ used[i].size \in Nat
                                 /\ used[i].start + used[i].size <= Total
    BY DEF TypeInv, TypeOK, Block, NoOverlap, End
  <2>9. ASSUME NEW d, d.id \in DOMAIN used, used[d.id] = [start |-> d.off, size |-> d.len]
        PROVE  Payload(d) \subseteq DOMAIN arena /\ d.off \in Nat /\ d.len \in Nat
    <3>1. d.off \in Nat /\ d.len \in Nat /\ d.off + d.len <= Total
      <4>1. used[d.id].start = d.off /\ used[d.id].size = d.len
        BY <2>9
      <4> QED
        BY <2>8, <2>9, <4>1
    <3> QED
      BY <1>2, <2>2, <3>1 DEF Payload
  <2>10. ASSUME NEW p \in taken .. ready_head - 1
         PROVE  \A b \in Payload(ready[ReadySlot(p)]) : arena'[b] = ready[ReadySlot(p)].pts
    <3> DEFINE d == ready[ReadySlot(p)]
    <3>1. d.id \in DOMAIN used /\ d.id # lease[l].id
      BY <1>4, <2>1, OwnedIds
    <3>2. used[d.id] = [start |-> d.off, size |-> d.len] /\ Intact(d)
      BY DEF Content
    <3> HIDE DEF d
    <3>3. \A b \in Payload(d) : arena'[b] = d.pts
      BY <2>7, <2>9, <3>1, <3>2
    <3> QED
      BY <3>3 DEF d
  <2>11. ASSUME NEW w \in Wraps, held[w] # None
         PROVE  \A b \in Payload(held[w]) : arena'[b] = held[w].pts
    <3>1. held[w].id \in DOMAIN used /\ held[w].id # lease[l].id
      BY <1>4, <2>1, <2>11, OwnedIds
    <3>2. used[held[w].id] = [start |-> held[w].off, size |-> held[w].len] /\ Intact(held[w])
      BY <2>11 DEF Content
    <3> QED
      BY <2>7, <2>9, <3>1, <3>2
  <2>12. ASSUME NEW p \in taken' .. ready_head' - 1
        PROVE  LET d == ready'[ReadySlot(p)]
               IN  used'[d.id] = [start |-> d.off, size |-> d.len]
                     /\ \A b \in Payload(d) : arena'[b] = d.pts
    BY <2>1, <2>10 DEF Content, Intact
  <2>13. ASSUME NEW w \in Wraps, held'[w] # None
        PROVE  used'[held'[w].id] = [start |-> held'[w].off, size |-> held'[w].len]
               /\ \A b \in Payload(held'[w]) : arena'[b] = held'[w].pts
    BY <2>1, <2>11, <2>13 DEF Content, Intact
  <2>14. \A m \in Leases : lease'[m] # None =>
           used'[lease'[m].id] = [start |-> lease'[m].off, size |-> lease'[m].len]
    BY <2>1 DEF Content
  <2>15. \A b \in Payload(lease'[wreg'.lease]) : arena'[b] = frames'
    BY <2>1, <2>4
  <2> QED
    BY <2>12, <2>13, <2>14, <2>15, ContentAfter
<1>18. CASE PushStore
  <2> DEFINE l == wreg.lease
  <2>1. /\ wpc = "slot" /\ l \in Leases /\ lease[l] # None /\ wreg.pos = ready_head
        /\ ready' = [ready EXCEPT ![ReadySlot(ready_head)] = Published]
        /\ ready_head' = ready_head + 1
        /\ lease' = [lease EXCEPT ![l] = None] /\ wpc' = "idle"
        /\ UNCHANGED <<used, arena, frames, held, taken>>
    BY <1>18, <1>2, <1>3
       DEF PushStore, Busy, ReadyRing, allocVars, readerVars, historyVars
  <2>2. ReadySlot(ready_head) \in 0 .. ReadyCap - 1
    BY <1>1 DEF ReadySlot
  <2>3. /\ ready'[ReadySlot(ready_head)] = Published /\ Published.id = lease[l].id
        /\ Published.off = lease[l].off /\ Published.len = lease[l].len
        /\ Published.pts = frames
    BY <1>2, <2>1, <2>2 DEF Published
  <2>4. \A p \in taken .. ready_head - 1 : ready'[ReadySlot(p)] = ready[ReadySlot(p)]
    BY <1>2, <1>4, <2>1, ReadySlotFree
  <2>5. lease'[l] = None /\ \A m \in Leases : m # l => lease'[m] = lease[m]
    BY <2>1, <1>2
  <2>6. \A p \in taken .. ready_head' - 1 : p = ready_head \/ p \in taken .. ready_head - 1
    BY <1>1, <2>1
  <2>7. used[Published.id] = [start |-> Published.off, size |-> Published.len]
        /\ \A b \in Payload(Published) : arena[b] = Published.pts
    BY <2>1, <2>3 DEF Content, Payload
  <2>8. ASSUME NEW p \in taken .. ready_head' - 1
        PROVE  LET d == ready'[ReadySlot(p)]
               IN  used[d.id] = [start |-> d.off, size |-> d.len]
                     /\ \A b \in Payload(d) : arena[b] = d.pts
    <3>1. CASE p = ready_head
      BY <2>3, <2>7, <3>1
    <3>2. CASE p \in taken .. ready_head - 1
      BY <2>4, <3>2 DEF Content, Intact
    <3> QED
      BY <2>6, <3>1, <3>2
  <2>9. \A m \in Leases : lease'[m] # None =>
          used[lease'[m].id] = [start |-> lease'[m].off, size |-> lease'[m].len]
    BY <2>5 DEF Content
  <2>10. ASSUME NEW w \in Wraps, held'[w] # None
         PROVE  used'[held'[w].id] = [start |-> held'[w].off, size |-> held'[w].len]
                /\ \A b \in Payload(held'[w]) : arena'[b] = held'[w].pts
    BY <2>1, <2>10 DEF Content, Intact
  <2>11. \A m \in Leases : lease'[m] # None =>
           used'[lease'[m].id] = [start |-> lease'[m].off, size |-> lease'[m].len]
    BY <2>1, <2>9
  <2>12. \A p \in taken' .. ready_head' - 1 :
           LET d == ready'[ReadySlot(p)]
           IN  used'[d.id] = [start |-> d.off, size |-> d.len]
                 /\ \A b \in Payload(d) : arena'[b] = d.pts
    BY <2>1, <2>8
  <2>13. wpc' \notin {"push", "slot"}
    BY <2>1
  <2> QED
    BY <2>10, <2>11, <2>12, <2>13, ContentAfter
<1>19. ~DropOldest /\ ~Reset
  BY DEF DropOldest, Reset
<1>20. ~DropStore /\ ~ResetReadyTail /\ ~ResetRecHead /\ ~ResetRecTail
  BY <1>3 DEF Dropping, DropStore, ResetReadyTail, ResetRecHead, ResetRecTail
<1>21. CASE WriterStep
  BY <1>9, <1>10, <1>11, <1>12, <1>13, <1>16, <1>17, <1>18, <1>19, <1>20, <1>21
     DEF WriterStep
<1>22. CASE WriterCall
  BY <1>6, <1>7, <1>8, <1>15, <1>22 DEF WriterCall
<1> QED
  BY <1>21, <1>22

\* The writer's steps keep Numbered: only PushStore fills a slot, the next and free.
LEMMA WriterNumbered ==
    ASSUME TypeInv, RingInv, clean, clean', Owned, Numbered, WriterStep \/ WriterCall
    PROVE  Numbered'
<1>1. ready_head \in Nat /\ taken \in Nat /\ ReadyCap \in Nat \ {0} /\ frames \in Nat
  BY TransportAssumption DEF TypeInv, HeaderOK, HistoryOK, WriterOK
<1>2. ready \in [0 .. ReadyCap - 1 -> Desc] /\ ReadyRing /\ Positions /\ wpc \notin Dropping
  BY DEF TypeInv, RegionOK, RingInv, Owned
<1>3. CASE Copy
  BY <1>1, <1>3 DEF Copy, Numbered, allocVars, headerVars, readyVars, readerVars,
                    historyVars, ReadySlot
<1>4. CASE PushStore
  <2>1. /\ wpc = "slot" /\ wpc' = "idle" /\ wreg.pos = ready_head
        /\ ready' = [ready EXCEPT ![ReadySlot(ready_head)] = Published]
        /\ ready_head' = ready_head + 1 /\ UNCHANGED <<frames, taken>>
    BY <1>2, <1>4 DEF PushStore, ReadyRing, historyVars
  <2>2. ready'[ReadySlot(ready_head)].pts = ready_head + 1
    BY <1>1, <1>2, <2>1 DEF ReadySlot, Published, Numbered
  <2>3. \A p \in taken .. ready_head - 1 : ready'[ReadySlot(p)] = ready[ReadySlot(p)]
    BY <1>2, <2>1, ReadySlotFree
  <2>4. \A p \in taken .. ready_head' - 1 : p = ready_head \/ p \in taken .. ready_head - 1
    BY <1>1, <2>1
  <2>5. \A p \in taken .. ready_head' - 1 : ready'[ReadySlot(p)].pts = p + 1
    BY <2>2, <2>3, <2>4 DEF Numbered
  <2> QED
    BY <2>1, <2>5 DEF Numbered, ReadySlot
<1>5. ASSUME UNCHANGED <<ready_head, ready, frames, taken>>,
             wpc' \in {"push", "slot"} <=> wpc \in {"push", "slot"}
      PROVE  Numbered'
  BY <1>5 DEF Numbered, ReadySlot
<1>6. CASE ~Copy /\ ~PushStore
  <2>1. /\ UNCHANGED <<ready_head, ready, frames, taken>>
        /\ wpc' \in {"push", "slot"} <=> wpc \in {"push", "slot"}
    BY <1>2, <1>6
       DEF WriterStep, WriterCall, AllocGrant, DropOldest, DropStore, Reset, ResetReadyTail,
           ResetRecHead, ResetRecTail, Exhausted, PushSpin, DrainTake, DrainStore, DrainEnd,
           AllocLease, PublishLease, FreeLease, DrainBegin, Dropping, headerVars, readyVars,
           readerVars, historyVars
  <2> QED
    BY <1>5, <2>1
<1> QED
  BY <1>3, <1>4, <1>6

\* Nor do they disturb a receive: the slot filled is not the one it has chosen.
LEMMA WriterReading ==
    ASSUME TypeInv, RingInv, clean, clean', Owned, Reading, WriterStep \/ WriterCall
    PROVE  Reading'
<1>1. ready \in [0 .. ReadyCap - 1 -> Desc] /\ ReadyRing /\ Positions
  BY DEF TypeInv, RegionOK, RingInv, Owned
<1>2. UNCHANGED <<rpc, rreg, taken>>
  BY DEF WriterStep, WriterCall, AllocGrant, DropOldest, DropStore, Reset, ResetReadyTail,
         ResetRecHead, ResetRecTail, Exhausted, Copy, PushSpin, PushStore, DrainTake,
         DrainStore, DrainEnd, AllocLease, PublishLease, FreeLease, DrainBegin, readerVars,
         historyVars
<1>3. CASE PushStore
  <2>1. wpc = "slot" /\ ready' = [ready EXCEPT ![ReadySlot(wreg.pos)] = Published]
    BY <1>3 DEF PushStore
  <2>2. rpc = "rx_take" => rreg.chosen \in taken .. ready_head - 1
    BY <1>1, InHands DEF Receiving
  <2>3. rpc = "rx_take" => ready'[ReadySlot(rreg.chosen)] = ready[ReadySlot(rreg.chosen)]
    BY <1>1, <2>1, <2>2, ReadySlotFree
  <2> QED
    BY <1>2, <2>3 DEF Reading, Receiving, ReadySlot
<1>4. CASE ~PushStore
  <2>1. ready' = ready
    BY <1>4
       DEF WriterStep, WriterCall, AllocGrant, DropOldest, DropStore, Reset, ResetReadyTail,
           ResetRecHead, ResetRecTail, Exhausted, Copy, PushSpin, DrainTake,
           DrainStore, DrainEnd, AllocLease, PublishLease, FreeLease, DrainBegin
  <2> QED
    BY <1>2, <2>1 DEF Reading, Receiving, ReadySlot
<1> QED
  BY <1>3, <1>4

\* What a reader's step leaves alone, and where it takes entries off the ready ring.
LEMMA ReaderTakes ==
    ASSUME ReaderStep \/ ReaderCall \/ Crash, clean
    PROVE  /\ UNCHANGED <<used, ready_head, ready, arena, lease, wpc, wreg, frames>>
           /\ \/ AttachStore \/ SkipStore \/ RecvTake \/ RecycleStore \/ Crash
              \/ UNCHANGED <<held, taken>>
BY DEF ReaderStep, ReaderCall, AttachLoad, AttachStore, RecvHead, RecvEmpty, RecvFifo,
       RecvLatest, RecvPanic, SkipTry, SkipStore, SkipFull, RecvRead, RecvTake, DropWrap,
       RecycleSpin, RecycleStore, Crash, allocVars, headerVars, readyVars, writerVars,
       historyVars

\* The reader only ever takes more.
LEMMA TakesMore ==
    ASSUME TypeInv, RingInv, clean, clean', Owned, ReaderStep \/ ReaderCall \/ Crash
    PROVE  \A p \in taken' .. ready_head' - 1 : p \in taken .. ready_head - 1
<1>1. /\ ready_head \in Nat /\ taken \in Nat
      /\ rreg.head \in Nat /\ rreg.cur \in Nat /\ rreg.newtail \in Nat /\ rreg.chosen \in Nat
  BY ReadLocalsFields DEF TypeInv, HeaderOK, HistoryOK, ReaderOK
<1>2. Positions
  BY DEF Owned
<1>3. ready_head' = ready_head
  BY ReaderTakes
<1>4. CASE AttachStore
  BY <1>1, <1>2, <1>3, <1>4 DEF AttachStore, Positions
<1>5. CASE SkipStore
  BY <1>1, <1>2, <1>3, <1>5 DEF SkipStore, Positions
<1>6. CASE RecvTake
  BY <1>1, <1>2, <1>3, <1>6 DEF RecvTake, Positions, Receiving
<1>7. CASE RecycleStore
  BY <1>3, <1>7 DEF RecycleStore, historyVars
<1>8. CASE Crash
  BY <1>3, <1>8 DEF Crash, historyVars
<1> QED
  BY <1>3, <1>4, <1>5, <1>6, <1>7, <1>8, ReaderTakes

\* The reader's steps, and the consumer's death, keep Content and Numbered: a buffer is
\* made from the descriptor that was queued.
LEMMA ReaderContent ==
    ASSUME TypeInv, RingInv, clean, clean', Owned, Content, Numbered, Reading,
           ReaderStep \/ ReaderCall \/ Crash
    PROVE  Content' /\ Numbered'
<1>1. /\ UNCHANGED <<used, ready_head, ready, arena, lease, wpc, wreg, frames>>
      /\ \A p \in taken' .. ready_head' - 1 : p \in taken .. ready_head - 1
  BY ReaderTakes, TakesMore
<1>2. Numbered'
  BY <1>1 DEF Numbered, ReadySlot
<1>3. held \in [Wraps -> Desc \cup {None}]
  BY DEF TypeInv, ReaderOK
<1>4. ASSUME \A w \in Wraps : held'[w] # None => held'[w] = held[w]
      PROVE  Content'
  <2>1. wpc' \in {"push", "slot"} => wpc \in {"push", "slot"} /\ wreg'.lease = wreg.lease
    BY <1>1
  <2> QED
    BY <1>1, <1>4, <2>1, ContentStay
<1>5. ASSUME RecvTake PROVE Content'
  <2>1. PICK w \in Wraps : held' = [held EXCEPT ![w] = rreg.desc]
    BY <1>5 DEF RecvTake
  <2>2. rpc = "rx_take"
    BY <1>5 DEF RecvTake
  <2>3. rreg.chosen \in taken .. ready_head - 1
    BY <2>2, InHands DEF Owned, Receiving
  <2>4. rreg.desc = ready[ReadySlot(rreg.chosen)]
    BY <2>2 DEF Reading
  <2>5. /\ used[rreg.desc.id] = [start |-> rreg.desc.off, size |-> rreg.desc.len]
        /\ Intact(rreg.desc)
    BY <2>3, <2>4 DEF Content
  <2>6. ASSUME NEW v \in Wraps, held'[v] # None
        PROVE  /\ used[held'[v].id] = [start |-> held'[v].off, size |-> held'[v].len]
               /\ \A b \in Payload(held'[v]) : arena[b] = held'[v].pts
    <3>1. CASE v = w
      BY <1>3, <2>1, <2>5, <3>1 DEF Intact
    <3>2. CASE v # w
      <4>1. held'[v] = held[v]
        BY <1>3, <2>1, <3>2
      <4> QED
        BY <2>6, <4>1 DEF Content, Intact
    <3> QED
      BY <3>1, <3>2
  <2>7. ASSUME NEW p \in taken' .. ready_head - 1
        PROVE  LET d == ready[ReadySlot(p)]
               IN  used[d.id] = [start |-> d.off, size |-> d.len]
                     /\ \A b \in Payload(d) : arena[b] = d.pts
    BY <1>1 DEF Content, Intact
  <2>8. /\ \A l \in Leases : lease[l] # None =>
             used[lease[l].id] = [start |-> lease[l].off, size |-> lease[l].len]
        /\ wpc \in {"push", "slot"} => \A b \in Payload(lease[wreg.lease]) : arena[b] = frames
    BY DEF Content
  <2> QED
    BY <1>1, <2>6, <2>7, <2>8 DEF Content, Intact, Payload, ReadySlot
<1>6. ASSUME RecycleStore PROVE Content'
  BY <1>3, <1>4, <1>6 DEF RecycleStore
<1>7. ASSUME Crash PROVE Content'
  BY <1>4, <1>7 DEF Crash
<1>8. ASSUME AttachStore \/ SkipStore \/ UNCHANGED <<held, taken>> PROVE Content'
  BY <1>4, <1>8 DEF AttachStore, SkipStore
<1> QED
  BY <1>2, <1>5, <1>6, <1>7, <1>8, ReaderTakes

\* The choice of a latest-only receive is the entry before the tail it will store.
LEMMA ChosenBeforeTail ==
    ASSUME NEW head \in Nat, NEW tail \in Nat, tail <= head, head # tail
    PROVE  NewTail(head, tail) = Chosen(head, tail) + 1
BY DEF NewTail, Chosen, saturating_sub, wrapping_sub

\* The reader's steps, and the consumer's death, keep Reading.
LEMMA ReaderReading ==
    ASSUME TypeInv, RingInv, clean, clean', Owned, Reading, ReaderStep \/ ReaderCall \/ Crash
    PROVE  Reading'
<1>1. /\ ready_head \in Nat /\ ready_tail \in Nat /\ taken \in Nat /\ ready' = ready
      /\ rreg.head \in Nat /\ rreg.cur \in Nat /\ rreg.newtail \in Nat /\ rreg.chosen \in Nat
      /\ rreg \in ReadLocals
  BY ReaderTakes, ReadLocalsFields DEF TypeInv, HeaderOK, HistoryOK, ReaderOK
<1>2. Positions /\ ReadyRing
  BY DEF Owned, RingInv
<1> USE DEF Receiving
<1>3. ASSUME rpc' \notin Receiving PROVE Reading'
  BY <1>3 DEF Reading
<1>4. ASSUME RecvFifo PROVE Reading'
  <2>1. /\ rpc = "rx_tail" /\ rpc' = "rx_read" /\ taken' = taken
        /\ rreg'.chosen = ready_tail /\ rreg'.newtail = ready_tail + 1
    BY <1>1, <1>4 DEF RecvFifo, ReadLocals, historyVars
  <2> QED
    BY <1>1, <1>2, <2>1 DEF Reading, Positions
<1>5. ASSUME RecvLatest PROVE Reading'
  <2>1. /\ rpc = "rx_tail" /\ rpc' \in {"rx_drop", "rx_read"} /\ taken' = taken
        /\ rreg.head # ready_tail /\ rreg.latest
        /\ rreg'.chosen = Chosen(rreg.head, ready_tail)
        /\ rreg'.newtail = NewTail(rreg.head, ready_tail) /\ rreg'.latest = rreg.latest
    BY <1>1, <1>5 DEF RecvLatest, ReadLocals, historyVars
  <2>2. NewTail(rreg.head, ready_tail) = Chosen(rreg.head, ready_tail) + 1
    BY <1>1, <1>2, <2>1, ChosenBeforeTail DEF ReadyRing
  <2> QED
    BY <2>1, <2>2 DEF Reading
<1>6. ASSUME SkipTry PROVE Reading'
  <2>1. /\ rpc = "rx_drop" /\ rpc' = "rx_slot" /\ taken' = taken
        /\ rreg'.chosen = rreg.chosen /\ rreg'.newtail = rreg.newtail
        /\ rreg'.latest = rreg.latest
    BY <1>1, <1>6 DEF SkipTry, ReadLocals, historyVars
  <2> QED
    BY <2>1 DEF Reading
<1>7. ASSUME SkipStore PROVE Reading'
  <2>1. /\ rpc = "rx_slot" /\ rpc' \in {"rx_drop", "rx_read"}
        /\ rreg'.chosen = rreg.chosen /\ rreg'.newtail = rreg.newtail
        /\ rreg'.latest = rreg.latest
    BY <1>1, <1>7 DEF SkipStore, ReadLocals
  <2> QED
    BY <2>1 DEF Reading
<1>8. ASSUME SkipFull PROVE Reading'
  <2>1. rpc = "rx_drop" /\ rpc' = "rx_read" /\ UNCHANGED <<rreg, taken>>
    BY <1>8 DEF SkipFull, historyVars
  <2> QED
    BY <2>1 DEF Reading
<1>9. ASSUME RecvRead PROVE Reading'
  <2>1. rpc = "rx_read" /\ rpc' \in {"rx_take", "idle"} /\ taken' = taken
    BY <1>9 DEF RecvRead, historyVars
  <2>2. rreg.chosen \in taken .. ready_head - 1
    BY <2>1, InHands DEF Owned
  <2>3. ReadySlotReads(ReadySlot(rreg.chosen)) = {ready[ReadySlot(rreg.chosen)]}
    BY <1>2, <2>2, ReadNotTorn
  <2>4. CASE rpc' = "rx_take"
    <3>1. rreg' = [rreg EXCEPT !.desc = ready[ReadySlot(rreg.chosen)]]
      BY <1>9, <2>3, <2>4 DEF RecvRead
    <3>2. /\ rreg'.desc = ready[ReadySlot(rreg.chosen)] /\ rreg'.chosen = rreg.chosen
          /\ rreg'.newtail = rreg.newtail /\ rreg'.latest = rreg.latest
      BY <1>1, <3>1 DEF ReadLocals
    <3> QED
      BY <1>1, <2>1, <2>4, <3>2 DEF Reading, ReadySlot
  <2>5. CASE rpc' = "idle"
    BY <1>3, <2>5
  <2> QED
    BY <2>1, <2>4, <2>5
<1>10. \/ RecvFifo \/ RecvLatest \/ SkipTry \/ SkipStore \/ SkipFull \/ RecvRead
       \/ rpc' \notin Receiving
  BY DEF ReaderStep, ReaderCall, AttachLoad, AttachStore, RecvHead, RecvEmpty, RecvPanic,
         RecvTake, DropWrap, RecycleSpin, RecycleStore, Crash
<1> QED
  BY <1>3, <1>4, <1>5, <1>6, <1>7, <1>8, <1>9, <1>10

\* Every step of either process, and the consumer's death, keeps ContentInv.
LEMMA StepContent ==
    TypeInv /\ RingInv /\ OwnerInv /\ ContentInv /\ [TransportNext]_vars => ContentInv'
<1> SUFFICES ASSUME TypeInv, RingInv, OwnerInv, ContentInv, [TransportNext]_vars, clean'
             PROVE  (Content /\ Numbered /\ Reading)'
  BY DEF ContentInv
<1>1. clean /\ NoOverlap /\ Owned /\ Content /\ Numbered /\ Reading
  BY StepClean DEF OwnerInv, Owned, ContentInv
<1>2. CASE WriterStep \/ WriterCall
  BY <1>1, <1>2, WriterContent, WriterNumbered, WriterReading
<1>3. CASE ReaderStep \/ ReaderCall \/ Crash
  BY <1>1, <1>3, ReaderContent, ReaderReading
<1>4. CASE UNCHANGED vars
  <2>1. UNCHANGED <<used, ready_head, ready, arena, lease, wpc, wreg, frames, held, taken,
                    rpc, rreg>>
    BY <1>4 DEF vars, allocVars, headerVars, readyVars, writerVars, readerVars, historyVars
  <2>2. Content'
    BY <1>1, <2>1, ContentStay
  <2>3. Numbered'
    BY <1>1, <2>1 DEF Numbered, ReadySlot
  <2>4. Reading'
    BY <1>1, <2>1 DEF Reading, Receiving, ReadySlot
  <2> QED
    BY <2>2, <2>3, <2>4
<1> QED
  BY <1>2, <1>3, <1>4 DEF TransportNext

\* All the invariants together.
TransportInv == TypeInv /\ RingInv /\ OwnerInv /\ ContentInv

LEMMA InitInv == Init => TransportInv
BY InitType, InitRing, InitOwner, InitContent DEF TransportInv

LEMMA StepInv == TransportInv /\ [TransportNext]_vars => TransportInv'
BY StepType, StepRing, StepOwner, StepContent DEF TransportInv

\* HeldIntact until the writer first drops or resets: until then no block of a buffer
\* downstream is written.
THEOREM CleanHeldCorrect == TransportSpec => [](clean => HeldIntact)
<1>1. TransportInv => (clean => HeldIntact)
  BY DEF TransportInv, ContentInv, Content, HeldIntact
<1> QED
  BY <1>1, InitInv, StepInv, PTL DEF TransportSpec

--------------------------------------------------------------------------------
(***************************************************************************)
(* For every capacity, arena and set of leases and buffers: the transport  *)
(* implements FrameChannel.  While clean, the refinement mapping says that *)
(* ready_head frames are published and that frames taken + 1 to ready_head *)
(* are queued (Mapping); a step that moves one of these counters, a buffer *)
(* or the attachment is then a step of the channel, and any other leaves   *)
(* it as it is.                                                            *)
(***************************************************************************)

\* Frames a + 1 to b.
FramesFrom(a, b) == [i \in 1 .. b - a |-> a + i]

LEMMA FramesFromType ==
    ASSUME NEW a \in Nat, NEW b \in Nat, a <= b
    PROVE  FramesFrom(a, b) \in Seq(Nat) /\ Len(FramesFrom(a, b)) = b - a
<1>1. b - a \in Nat /\ \A i \in 1 .. b - a : a + i \in Nat
  OBVIOUS
<1> QED
  BY <1>1, SeqDef DEF FramesFrom

LEMMA FramesAppend ==
    ASSUME NEW a \in Nat, NEW b \in Nat, a <= b
    PROVE  Append(FramesFrom(a, b), b + 1) = FramesFrom(a, b + 1)
BY FramesFromType DEF FramesFrom

\* Dropping those up to c.
LEMMA FramesDrop ==
    ASSUME NEW a \in Nat, NEW b \in Nat, NEW c \in Nat, a <= c, c <= b
    PROVE  /\ c - a \in 0 .. Len(FramesFrom(a, b))
           /\ SubSeq(FramesFrom(a, b), c - a + 1, Len(FramesFrom(a, b))) = FramesFrom(c, b)
BY FramesFromType DEF FramesFrom

LEMMA FramesHeadTail ==
    ASSUME NEW a \in Nat, NEW b \in Nat, a < b
    PROVE  /\ FramesFrom(a, b) # <<>>
           /\ Head(FramesFrom(a, b)) = a + 1
           /\ Tail(FramesFrom(a, b)) = FramesFrom(a + 1, b)
BY FramesFromType DEF FramesFrom

Buffers == [w \in Wraps |-> IF held[w] = None THEN None ELSE held[w].pts]

Queued == FramesFrom(taken, ready_head)

Mapped ==
    /\ taken \in Nat /\ ready_head \in Nat /\ taken <= ready_head
    /\ ChanPublished = ready_head
    /\ ChanQueue = Queued
    /\ ChanSlots = Buffers

\* What the refinement mapping amounts to while clean.
LEMMA Mapping == TransportInv /\ clean => Mapped
<1> SUFFICES ASSUME TransportInv, clean PROVE Mapped
  OBVIOUS
<1>1. /\ taken \in Nat /\ ready_head \in Nat /\ taken <= ready_head /\ frames \in Nat
  BY DEF TransportInv, TypeInv, HeaderOK, HistoryOK, WriterOK, OwnerInv, Positions
<1>2. Content /\ Numbered
  BY DEF TransportInv, ContentInv
<1>3. ChanPublished = ready_head
  BY <1>1, <1>2 DEF ChanPublished, Numbered
<1>4. ASSUME NEW i \in 1 .. ready_head - taken
      PROVE  ChanFrame(ready[ReadySlot(taken + i - 1)]) = taken + i
  <2>1. taken + i - 1 \in taken .. ready_head - 1 /\ taken + i - 1 + 1 = taken + i
    BY <1>1
  <2>2. /\ Intact(ready[ReadySlot(taken + i - 1)])
        /\ ready[ReadySlot(taken + i - 1)].pts = taken + i - 1 + 1
    BY <1>2, <2>1 DEF Content, Numbered
  <2> QED
    BY <2>1, <2>2 DEF ChanFrame
<1>5. ChanQueue = Queued
  BY <1>4 DEF ChanQueue, Queued, FramesFrom
<1>6. ChanSlots = Buffers
  BY <1>2 DEF Content, ChanSlots, ChanFrame, Buffers
<1> QED
  BY <1>1, <1>3, <1>5, <1>6 DEF Mapped

LEMMA MappingNext == TransportInv' /\ clean' => Mapped'
BY Mapping, PTL

\* A step that moves none of what the channel shows.
LEMMA Stutter ==
    ASSUME Mapped, Mapped', clean, clean',
           UNCHANGED <<taken, ready_head, held, ChanAttached>>
    PROVE  UNCHANGED Channel!chanVars
BY DEF Mapped, Queued, Buffers, FramesFrom, Channel!chanVars

\* The writer publishes by the store of the ready head, and in no other way.
LEMMA WriterSimulates ==
    ASSUME TransportInv, Mapped, Mapped', clean, clean', WriterStep \/ WriterCall
    PROVE  [Channel!ChanNext]_Channel!chanVars
<1>1. /\ ReadyRing /\ wpc \notin Dropping /\ Positions /\ ready_tail \in Nat
      /\ ReadyCap \in Nat
  BY TransportAssumption DEF TransportInv, TypeInv, HeaderOK, RingInv, OwnerInv
<1>2. UNCHANGED <<taken, held, rpc>>
  BY DEF WriterStep, WriterCall, AllocGrant, DropOldest, DropStore, Reset, ResetReadyTail,
         ResetRecHead, ResetRecTail, Exhausted, Copy, PushSpin, PushStore, DrainTake,
         DrainStore, DrainEnd, AllocLease, PublishLease, FreeLease, DrainBegin, readerVars,
         historyVars
<1>3. CASE PushStore
  <2>1. wpc = "slot" /\ ready_head' = ready_head + 1
    BY <1>1, <1>3 DEF PushStore, ReadyRing
  <2>2. Len(ChanQueue) < ReadyCap
    BY <1>1, <2>1, FramesFromType DEF Mapped, Queued, ReadyRing, Positions
  <2>3. ChanPublished' = ChanPublished + 1
    BY <2>1 DEF Mapped
  <2>4. ChanQueue' = Append(ChanQueue, ChanPublished + 1)
    <3>1. ChanQueue' = FramesFrom(taken, ready_head + 1)
      BY <1>2, <2>1 DEF Mapped, Queued, FramesFrom
    <3> QED
      BY <3>1, FramesAppend DEF Mapped, Queued
  <2>5. UNCHANGED <<ChanSlots, ChanAttached>>
    BY <1>2 DEF Mapped, Buffers, ChanAttached
  <2> QED
    BY <2>2, <2>3, <2>4, <2>5 DEF Channel!ChanNext, Channel!ChanStep, Channel!Publish
<1>4. CASE ~PushStore
  <2>1. ready_head' = ready_head
    BY <1>1, <1>4
       DEF WriterStep, WriterCall, AllocGrant, DropOldest, DropStore, Reset, ResetReadyTail,
           ResetRecHead, ResetRecTail, Exhausted, Copy, PushSpin, DrainTake, DrainStore,
           DrainEnd, AllocLease, PublishLease, FreeLease, DrainBegin, Dropping, headerVars,
           readyVars
  <2> QED
    BY <1>2, <2>1, Stutter DEF ChanAttached
<1> QED
  BY <1>3, <1>4

\* Taking the entries before p off the ready ring drops the first of the queue.
LEMMA QueueDrops ==
    ASSUME Mapped, Mapped', ready_head' = ready_head, taken' \in Nat,
           taken <= taken', taken' <= ready_head
    PROVE  /\ taken' - taken \in 0 .. Len(ChanQueue)
           /\ ChanQueue' = SubSeq(ChanQueue, taken' - taken + 1, Len(ChanQueue))
           /\ UNCHANGED ChanPublished
<1>1. taken \in Nat /\ ready_head \in Nat /\ ChanQueue = FramesFrom(taken, ready_head)
  BY DEF Mapped, Queued
<1>2. ChanQueue' = FramesFrom(taken', ready_head)
  BY DEF Mapped, Queued, FramesFrom
<1>3. /\ taken' - taken \in 0 .. Len(ChanQueue)
      /\ SubSeq(ChanQueue, taken' - taken + 1, Len(ChanQueue)) = FramesFrom(taken', ready_head)
  BY <1>1, FramesDrop
<1>4. UNCHANGED ChanPublished
  BY DEF Mapped
<1> QED
  BY <1>2, <1>3, <1>4

\* Taking one entry off drops the head.
LEMMA QueueHead ==
    ASSUME Mapped, Mapped', ready_head' = ready_head, taken' = taken + 1, taken < ready_head
    PROVE  /\ ChanQueue # <<>> /\ Head(ChanQueue) = taken + 1 /\ ChanQueue' = Tail(ChanQueue)
           /\ UNCHANGED ChanPublished
<1>1. ChanQueue' = FramesFrom(taken + 1, ready_head)
  BY DEF Mapped, Queued, FramesFrom
<1> QED
  BY <1>1, FramesHeadTail DEF Mapped, Queued

\* The reader attaches, skips, delivers and releases by the stores that do so.
LEMMA ReaderSimulates ==
    ASSUME TransportInv, Mapped, Mapped', clean, clean', ReaderStep \/ ReaderCall \/ Crash
    PROVE  [Channel!ChanNext]_Channel!chanVars
<1>1. /\ ready_head \in Nat /\ taken \in Nat
      /\ rreg.head \in Nat /\ rreg.cur \in Nat /\ rreg.newtail \in Nat /\ rreg.chosen \in Nat
      /\ rreg.desc \in Desc /\ held \in [Wraps -> Desc \cup {None}]
  BY ReadLocalsFields DEF TransportInv, TypeInv, HeaderOK, HistoryOK, ReaderOK, ReadLocals
<1>2. ReadyRing /\ Positions /\ Remembers /\ Numbered /\ Reading /\ rpc # "poisoned"
  BY DEF TransportInv, RingInv, OwnerInv, ContentInv
<1>3. ready_head' = ready_head
  BY ReaderTakes
<1> USE DEF Receiving
<1>4. CASE AttachStore
  <2>1. /\ rpc = "attach" /\ rpc' = "idle" /\ taken' = rreg.head /\ held' = held
    BY <1>4 DEF AttachStore
  <2>2. taken <= taken' /\ taken' <= ready_head
    BY <1>2, <2>1 DEF ReadyRing, Positions
  <2>3. /\ taken' - taken \in 0 .. Len(ChanQueue)
        /\ ChanQueue' = SubSeq(ChanQueue, taken' - taken + 1, Len(ChanQueue))
        /\ UNCHANGED ChanPublished
    BY <1>1, <1>3, <2>1, <2>2, QueueDrops
  <2>4. ~ChanAttached /\ ChanAttached' = TRUE /\ UNCHANGED ChanSlots
    BY <2>1 DEF ChanAttached, Mapped, Buffers
  <2>5. Channel!Attach
    BY <2>3, <2>4 DEF Channel!Attach
  <2> QED
    BY <2>5 DEF Channel!ChanNext, Channel!ChanStep
<1>5. CASE SkipStore
  <2>1. /\ rpc = "rx_slot" /\ taken' = rreg.cur + 1 /\ held' = held
        /\ rpc' \in {"rx_drop", "rx_read"}
    BY <1>5 DEF SkipStore, writerVars
  <2>2. taken' = taken + 1 /\ taken < ready_head /\ rreg.latest
    BY <1>1, <1>2, <2>1 DEF Positions, ReadyRing, Reading
  <2>3. ChanQueue # <<>> /\ ChanQueue' = Tail(ChanQueue) /\ UNCHANGED ChanPublished
    BY <1>3, <2>2, QueueHead
  <2>4. ChanAttached /\ UNCHANGED <<ChanSlots, ChanAttached>>
    BY <2>1 DEF ChanAttached, Mapped, Buffers
  <2>5. Channel!SkipOldest
    BY <2>2, <2>3, <2>4 DEF Channel!SkipOldest
  <2> QED
    BY <2>5 DEF Channel!ChanNext, Channel!ChanStep
<1>6. CASE RecvTake
  <2>1. PICK w \in Wraps : held[w] = None /\ held' = [held EXCEPT ![w] = rreg.desc]
    BY <1>6 DEF RecvTake
  <2>2. rpc = "rx_take" /\ rpc' = "idle" /\ taken' = rreg.newtail
    BY <1>6 DEF RecvTake
  <2>3. /\ rreg.newtail = rreg.chosen + 1 /\ rreg.chosen \in taken .. ready_head - 1
        /\ taken < rreg.chosen => rreg.latest
        /\ rreg.desc = ready[ReadySlot(rreg.chosen)]
    BY <1>1, <1>2, <2>2 DEF Reading, Positions, ReadyRing
  <2>4. rreg.desc.pts = rreg.chosen + 1
    BY <1>2, <2>3 DEF Numbered
  <2>5. rreg.desc # None
    BY <1>1, NoneAssumption
  <2>6. ChanSlots[w] = None /\ ChanSlots' = [ChanSlots EXCEPT ![w] = rreg.chosen + 1]
    BY <1>1, <2>1, <2>4, <2>5 DEF Mapped, Buffers
  <2>7. ChanAttached /\ UNCHANGED ChanAttached
    BY <2>2 DEF ChanAttached
  <2>8. CASE rreg.chosen = taken
    <3>1. /\ ChanQueue # <<>> /\ Head(ChanQueue) = rreg.chosen + 1
          /\ ChanQueue' = Tail(ChanQueue) /\ UNCHANGED ChanPublished
      BY <1>1, <1>3, <2>2, <2>3, <2>8, QueueHead
    <3>2. Channel!Deliver
      BY <2>6, <2>7, <3>1 DEF Channel!Deliver
    <3> QED
      BY <3>2 DEF Channel!ChanNext, Channel!ChanStep
  <2>9. CASE taken < rreg.chosen
    <3> DEFINE k == taken' - taken
    <3>1. /\ k \in 0 .. Len(ChanQueue)
          /\ ChanQueue' = SubSeq(ChanQueue, k + 1, Len(ChanQueue))
          /\ UNCHANGED ChanPublished
      <4>1. ready_head' = ready_head /\ taken' \in Nat /\ taken <= taken' /\ taken' <= ready_head
        BY <1>1, <1>3, <2>2, <2>3
      <4> QED
        BY <4>1, QueueDrops
    <3>2. k \in 1 .. Len(ChanQueue) /\ ChanQueue[k] = rreg.chosen + 1
      <4>1. Len(ChanQueue) = ready_head - taken
        BY FramesFromType DEF Mapped, Queued
      <4>2. k \in 1 .. ready_head - taken /\ taken + k = rreg.chosen + 1
        BY <1>1, <2>2, <2>3
      <4> QED
        BY <4>1, <4>2 DEF Mapped, Queued, FramesFrom
    <3> HIDE DEF k
    <3>3. Channel!DeliverLater
      BY <2>3, <2>6, <2>7, <2>9, <3>1, <3>2 DEF Channel!DeliverLater
    <3> QED
      BY <3>3 DEF Channel!ChanNext, Channel!ChanStep
  <2> QED
    BY <1>1, <2>3, <2>8, <2>9
<1>7. CASE RecycleStore
  <2>1. /\ rpc = "rc_slot" /\ rpc' = "idle" /\ taken' = taken
        /\ held' = [held EXCEPT ![rreg.wrap] = None]
    BY <1>7 DEF RecycleStore, historyVars
  <2>2. rreg.wrap \in Wraps
    BY <1>2, <2>1 DEF Remembers
  <2>3. ChanSlots' = [ChanSlots EXCEPT ![rreg.wrap] = None]
    BY <1>1, <2>1, <2>2 DEF Mapped, Buffers
  <2>4. UNCHANGED <<ChanPublished, ChanQueue, ChanAttached>>
    BY <1>3, <2>1 DEF Mapped, Queued, FramesFrom, ChanAttached
  <2>5. Channel!Release
    BY <2>2, <2>3, <2>4 DEF Channel!Release
  <2> QED
    BY <2>5 DEF Channel!ChanNext, Channel!ChanStep
<1>8. CASE Crash
  <2>1. rpc' = "detached" /\ taken' = taken /\ held' = [v \in Wraps |-> None]
    BY <1>8 DEF Crash, historyVars
  <2>2. ChanSlots' = [v \in Wraps |-> None] /\ ChanAttached' = FALSE
    BY <2>1 DEF Mapped, Buffers, ChanAttached
  <2>3. UNCHANGED <<ChanPublished, ChanQueue>>
    BY <1>3, <2>1 DEF Mapped, Queued, FramesFrom
  <2>4. Channel!Vanish
    BY <2>2, <2>3 DEF Channel!Vanish
  <2> QED
    BY <2>4 DEF Channel!ChanNext, Channel!ChanStep
<1>9. CASE ~AttachStore /\ ~SkipStore /\ ~RecvTake /\ ~RecycleStore /\ ~Crash
  <2>1. UNCHANGED <<taken, held, ChanAttached>>
    BY <1>2, <1>9
       DEF ReaderStep, ReaderCall, AttachLoad, RecvHead, RecvEmpty, RecvFifo, RecvLatest,
           RecvPanic, SkipTry, SkipFull, RecvRead, DropWrap, RecycleSpin, historyVars,
           ChanAttached
  <2> QED
    BY <1>3, <2>1, Stutter
<1> QED
  BY <1>4, <1>5, <1>6, <1>7, <1>8, <1>9

\* Every step is a step of the channel or leaves it as it is.
LEMMA Simulates ==
    TransportInv /\ TransportInv' /\ [TransportNext]_vars
        => [Channel!ChanNext]_Channel!chanVars
<1> SUFFICES ASSUME TransportInv, TransportInv', [TransportNext]_vars
             PROVE  [Channel!ChanNext]_Channel!chanVars
  OBVIOUS
<1>1. CASE ~clean'
  BY <1>1 DEF Channel!ChanNext
<1>2. CASE clean'
  <2>1. clean
    BY <1>2, StepClean DEF TransportInv
  <2>2. Mapped /\ Mapped'
    BY <1>2, <2>1, Mapping, MappingNext
  <2>3. CASE WriterStep \/ WriterCall
    BY <1>2, <2>1, <2>2, <2>3, WriterSimulates
  <2>4. CASE ReaderStep \/ ReaderCall \/ Crash
    BY <1>2, <2>1, <2>2, <2>4, ReaderSimulates
  <2>5. CASE UNCHANGED vars
    <3>1. UNCHANGED <<taken, ready_head, held, ChanAttached>>
      BY <2>5 DEF vars, headerVars, readyVars, readerVars, historyVars, ChanAttached
    <3> QED
      BY <1>2, <2>1, <2>2, <3>1, Stutter
  <2> QED
    BY <2>3, <2>4, <2>5 DEF TransportNext
<1> QED
  BY <1>1, <1>2

\* ImplementsChannel: until the writer first drops or resets, frames are delivered in the
\* order published, each at most once and unaltered, a FIFO receive skips none, and a
\* frame handed downstream stays unaltered until released.
THEOREM ChannelImplemented == TransportSpec => ImplementsChannel
<1>1. Init => Channel!ChanInit
  BY DEF Init, WriterInit, ReaderInit, Channel!ChanInit, ChanPublished, ChanQueue, ChanSlots,
         ChanAttached
<1> QED
  BY <1>1, InitInv, StepInv, Simulates, PTL
     DEF TransportSpec, ImplementsChannel, Channel!ChanSpec

--------------------------------------------------------------------------------
(***************************************************************************)
(* For every capacity, arena, size and alignment, when no consumer ever    *)
(* attaches and one memory is leased at a time: whatever the writer drops  *)
(* and resets, what it leaves in the ring is readable.  Nothing is clean   *)
(* here, so the argument is another one: the writer frees the block of an  *)
(* entry only as it drops it, and resets only an empty ring and with no    *)
(* lease out, so every entry left still has its own block.                 *)
(***************************************************************************)

\* No consumer, and so no recycled id.
Quiet ==
    /\ rpc = "detached" /\ rec_head = 0 /\ rec_tail = 0
    /\ wpc \notin {"drain", "drain_store"}

\* The positions of the entries that have their blocks: the oldest loses its block one
\* step before it loses its place.
LeftAt == (IF wpc = "drop" THEN ready_tail + 1 ELSE ready_tail) .. ready_head - 1

QueueRing ==
    /\ wpc = "reset_ready_tail" => ready_head = 0
    /\ wpc # "reset_ready_tail" =>
         ready_tail <= ready_head /\ ready_head <= ready_tail + ReadyCap
    /\ wpc = "drop" => wreg.pos = ready_tail /\ ready_tail < ready_head
    /\ wpc = "slot" => wreg.pos = ready_head /\ ready_head < ready_tail + ReadyCap

Asking == {"alloc", "drop", "reset_ready_tail", "reset_rec_head", "reset_rec_tail", "retry"}

\* Ids are handed out in order since the last reset, and a call that asks for a block
\* asks for a memory that has none.
NewIds ==
    /\ \A i \in DOMAIN used : i < next_id
    /\ wpc \in Asking => next_id <= MaxAllocs /\ lease[wreg.lease] = None

\* A descriptor or a lease names exactly the live block under its id.
Backed(d) == d.id \in DOMAIN used /\ used[d.id] = [start |-> d.off, size |-> d.len]

Entries ==
    /\ \A p \in LeftAt : /\ ready[ReadySlot(p)].seq = p + 1
                         /\ Backed(ready[ReadySlot(p)])
                         /\ Intact(ready[ReadySlot(p)])
    /\ \A p, q \in LeftAt : p # q => ready[ReadySlot(p)].id # ready[ReadySlot(q)].id

OwnLease ==
    \A l \in Leases : lease[l] # None =>
        /\ Backed(lease[l])
        /\ \A p \in LeftAt : ready[ReadySlot(p)].id # lease[l].id
        /\ wpc \in {"push", "slot"} => \A b \in Payload(lease[l]) : arena[b] = frames

\* What the run of QueuedIntact supposes: no attach, one memory, ids that do not wrap.
Lonely == MaxAttach = 0 /\ (\A l, m \in Leases : l = m) /\ MaxAllocs < MaxId

Alone == Quiet /\ QueueRing /\ NewIds /\ Entries /\ OwnLease

AloneInv == Lonely => Alone

LEMMA InitAlone == Init => AloneInv
<1> SUFFICES ASSUME Init, Lonely PROVE Alone
  BY DEF AloneInv
<1>1. Quiet
  BY DEF Init, WriterInit, ReaderInit, Quiet
<1>2. LeftAt = {}
  BY DEF Init, WriterInit, LeftAt
<1>3. QueueRing /\ NewIds
  BY TransportAssumption DEF Init, WriterInit, New, QueueRing, NewIds, Asking
<1>4. Entries /\ OwnLease
  BY <1>2 DEF Init, WriterInit, Entries, OwnLease
<1> QED
  BY <1>1, <1>3, <1>4 DEF Alone

\* With no consumer only the writer moves, and it never drains.
LEMMA OnlyWriter ==
    ASSUME TypeInv, Lonely, Quiet, [TransportNext]_vars
    PROVE  /\ WriterStep \/ WriterCall \/ UNCHANGED vars
           /\ ~DrainBegin /\ ~DrainTake /\ ~DrainStore /\ ~DrainEnd
<1>1. attaches \in Nat /\ MaxAttach = 0 /\ rpc = "detached"
  BY DEF TypeInv, ReaderOK, Lonely, Quiet
<1>2. ~ReaderStep
  BY <1>1 DEF ReaderStep, AttachStore, RecvEmpty, RecvFifo, RecvLatest, RecvPanic, SkipTry,
              SkipStore, SkipFull, RecvRead, RecvTake, RecycleSpin, RecycleStore
<1>3. ~ReaderCall /\ ~Crash
  BY <1>1 DEF ReaderCall, AttachLoad, RecvHead, DropWrap, Crash
<1>4. ~DrainBegin /\ ~DrainTake /\ ~DrainStore /\ ~DrainEnd
  BY DEF Quiet, DrainBegin, DrainTake, DrainStore, DrainEnd
<1> QED
  BY <1>2, <1>3, <1>4 DEF TransportNext

LEMMA StepQuiet ==
    ASSUME TypeInv, Lonely, Quiet, [TransportNext]_vars
    PROVE  Quiet'
<1>1. CASE WriterStep
  BY <1>1, OnlyWriter
     DEF WriterStep, AllocGrant, DropOldest, DropStore, Reset, ResetReadyTail, ResetRecHead,
         ResetRecTail, Exhausted, Copy, PushSpin, PushStore, Quiet, headerVars, readyVars,
         recVars, readerVars
<1>2. CASE WriterCall
  BY <1>2, OnlyWriter
     DEF WriterCall, AllocLease, PublishLease, FreeLease, Quiet, headerVars, recVars, readerVars
<1>3. CASE UNCHANGED vars
  BY <1>3 DEF vars, Quiet, headerVars, readerVars, writerVars
<1> QED
  BY <1>1, <1>2, <1>3, OnlyWriter

\* A step that leaves what is left in the ring alone, and the blocks behind it.
LEMMA EntriesStay ==
    ASSUME Entries, UNCHANGED <<ready, arena>>, LeftAt' \subseteq LeftAt,
           \A p \in LeftAt' : LET i == ready[ReadySlot(p)].id
                              IN  i \in DOMAIN used' /\ used'[i] = used[i]
    PROVE  Entries'
<1>1. \A p \in LeftAt' : LET d == ready'[ReadySlot(p)]
                         IN  /\ d.seq = p + 1
                             /\ d.id \in DOMAIN used'
                             /\ used'[d.id] = [start |-> d.off, size |-> d.len]
                             /\ \A b \in d.off .. d.off + d.len - 1 : arena'[b] = d.pts
  BY DEF Entries, Backed, Intact, Payload
<1>2. \A p, q \in LeftAt' : p # q => ready'[ReadySlot(p)].id # ready'[ReadySlot(q)].id
  BY DEF Entries
<1> QED
  BY <1>1, <1>2 DEF Entries, ReadySlot, Backed, Intact, Payload

\* A step that moves nothing.
LEMMA AloneStay ==
    ASSUME Entries, OwnLease, UNCHANGED <<used, ready, arena, lease, frames>>,
           LeftAt' \subseteq LeftAt,
           wpc' \in {"push", "slot"} => wpc \in {"push", "slot"}
    PROVE  Entries' /\ OwnLease'
<1>1. Entries'
  BY EntriesStay DEF Entries, Backed
<1>2. OwnLease'
  BY DEF OwnLease, Backed, Payload, ReadySlot
<1> QED
  BY <1>1, <1>2

\* Every step of the writer keeps the rest.
LEMMA StepAlone ==
    ASSUME TypeInv, NoOverlap, Lonely, Alone, [TransportNext]_vars
    PROVE  Alone'
<1>1. /\ ready_head \in Nat /\ ready_tail \in Nat /\ ReadyCap \in Nat \ {0}
      /\ ready \in [0 .. ReadyCap - 1 -> Desc] /\ arena \in [0 .. Total - 1 -> Nat]
      /\ lease \in [Leases -> Lease \cup {None}] /\ wreg \in WriteLocals
      /\ wreg.pos \in Nat /\ frames \in Nat /\ next_id \in Nat \ {0}
      /\ \A i \in DOMAIN used : i \in Nat
  BY TransportAssumption
     DEF TypeInv, TypeOK, HeaderOK, RegionOK, WriterOK, WriteLocals
<1>2. Quiet /\ Quiet' /\ QueueRing /\ NewIds /\ Entries /\ OwnLease
  BY StepQuiet DEF Alone
<1>3. \A l, m \in Leases : l = m
  BY DEF Lonely
<1>4. MaxAllocs < MaxId /\ MaxAllocs \in Nat /\ MaxId \in Nat
  BY AllocatorAssumption, TransportAssumption DEF Lonely
<1>5. wpc \in Busy => wreg.lease \in Leases
  BY DEF TypeInv, WriterOK
<1>6. wpc \in Asking => \A l \in Leases : lease[l] = None
  BY <1>2, <1>3, <1>5 DEF NewIds, Asking, Busy
<1>7. ASSUME NEW l \in Leases, NEW size \in Sizes, NEW publish \in BOOLEAN,
             AllocLease(l, size, publish)
      PROVE  Alone'
  <2>1. /\ wpc = "idle" /\ wpc' = "alloc" /\ wreg'.lease = l
        /\ lease[l] = None /\ next_id <= MaxAllocs
        /\ UNCHANGED <<used, next_id, ready_head, ready_tail, ready, arena, lease, frames>>
    BY <1>7 DEF AllocLease, NoWrite, allocVars, headerVars
  <2>2. LeftAt' = LeftAt
    BY <2>1 DEF LeftAt
  <2>3. Entries' /\ OwnLease'
    BY <1>2, <2>1, <2>2, AloneStay
  <2>4. QueueRing' /\ NewIds'
    BY <1>2, <2>1 DEF QueueRing, NewIds
  <2> QED
    BY <1>2, <2>3, <2>4 DEF Alone
<1>8. CASE AllocGrant
  <2> DEFINE l   == wreg.lease
             new == [id |-> next_id, off |-> used'[next_id].start, len |-> wreg.size]
  <2>1. /\ wpc \in {"alloc", "retry"} /\ wpc' \in {"copy", "idle"} /\ Alloc(wreg.size)
        /\ UNCHANGED <<ready_head, ready_tail, ready, arena, frames>>
        /\ lease' = [lease EXCEPT ![l] = new]
    BY <1>8 DEF AllocGrant, headerVars
  <2>2. l \in Leases /\ next_id <= MaxAllocs /\ next_id \notin DOMAIN used
    BY <1>1, <1>2, <1>5, <2>1 DEF NewIds, Asking, Busy
  <2>3. /\ used'[next_id] = [start |-> used'[next_id].start, size |-> wreg.size]
        /\ \A i \in DOMAIN used : used'[i] = used[i]
    BY <2>1, <2>2, GrantBlock
  <2>4. DOMAIN used' = (DOMAIN used) \cup {next_id} /\ next_id' = next_id + 1
    BY <1>1, <1>4, <2>1, <2>2 DEF Alloc, NextId
  <2>5. LeftAt' = LeftAt
    BY <2>1 DEF LeftAt
  <2>6. \A p \in LeftAt : ready[ReadySlot(p)].id \in DOMAIN used
    BY <1>2 DEF Entries, Backed
  <2>7. Entries'
    BY <1>2, <2>1, <2>3, <2>4, <2>5, <2>6, EntriesStay
  <2>8. lease'[l] = new /\ \A m \in Leases : m = l
    BY <1>1, <1>3, <2>1, <2>2
  <2>9. OwnLease'
    <3>1. /\ new.id \in DOMAIN used'
          /\ used'[new.id] = [start |-> new.off, size |-> new.len]
      BY <2>3, <2>4
    <3>2. \A p \in LeftAt' : ready'[ReadySlot(p)].id # new.id
      BY <2>1, <2>2, <2>5, <2>6
    <3> HIDE DEF new
    <3>3. \A m \in Leases : lease'[m] = new
      BY <2>8
    <3> QED
      BY <2>1, <3>1, <3>2, <3>3 DEF OwnLease, ReadySlot, Backed
  <2>10. QueueRing' /\ NewIds'
    <3>1. \A i \in DOMAIN used' : i < next_id'
      BY <1>1, <1>2, <2>4 DEF NewIds
    <3>2. QueueRing'
      BY <1>2, <2>1 DEF QueueRing
    <3> QED
      BY <2>1, <3>1, <3>2 DEF NewIds, Asking
  <2> QED
    BY <1>2, <2>7, <2>9, <2>10 DEF Alone
<1>9. CASE DropOldest
  <2> DEFINE id == ready[ReadySlot(ready_tail)].id
  <2>1. /\ wpc = "alloc" /\ wpc' = "drop" /\ ready_head # ready_tail /\ FreeIfLive(id)
        /\ wreg' = [wreg EXCEPT !.pos = ready_tail]
        /\ UNCHANGED <<ready_head, ready_tail, ready, arena, lease, frames>>
    BY <1>9 DEF DropOldest, headerVars
  <2>2. wreg'.pos = ready_tail /\ wreg'.lease = wreg.lease
    BY <1>1, <2>1 DEF WriteLocals
  <2>3. ready_tail < ready_head /\ LeftAt = ready_tail .. ready_head - 1
        /\ LeftAt' = ready_tail + 1 .. ready_head - 1
    BY <1>1, <1>2, <2>1 DEF QueueRing, LeftAt
  <2>4. \A p \in LeftAt' : p \in LeftAt /\ p # ready_tail /\ ready_tail \in LeftAt
    BY <1>1, <2>3
  <2>5. /\ \A i \in DOMAIN used : i # id => i \in DOMAIN used' /\ used'[i] = used[i]
        /\ DOMAIN used' \subseteq DOMAIN used /\ next_id' = next_id
    <3> HIDE DEF id
    <3>1. /\ \A i \in DOMAIN used : i # id => i \in DOMAIN used'
          /\ \A i \in DOMAIN used : i # id => used'[i] = used[i]
      BY <2>1, FreeKeeps, FreeKeepsBlocks
    <3> QED
      BY <2>1, <3>1, FreeOthers
  <2>6. \A p \in LeftAt' : LET i == ready[ReadySlot(p)].id
                           IN  i \in DOMAIN used' /\ used'[i] = used[i]
    BY <1>2, <2>4, <2>5 DEF Entries, Backed
  <2>7. Entries'
    BY <1>2, <2>1, <2>4, <2>6, EntriesStay
  <2>8. OwnLease'
    BY <1>6, <2>1 DEF OwnLease, Asking
  <2>9. QueueRing' /\ NewIds'
    BY <1>2, <2>1, <2>2, <2>3, <2>5 DEF QueueRing, NewIds, Asking
  <2> QED
    BY <1>2, <2>7, <2>8, <2>9 DEF Alone
<1>10. CASE DropStore
  <2>1. /\ wpc = "drop" /\ wpc' = "alloc" /\ ready_tail' = wreg.pos + 1
        /\ wreg' = [wreg EXCEPT !.pos = 0]
        /\ UNCHANGED <<used, next_id, ready_head, ready, arena, lease, frames>>
    BY <1>10 DEF DropStore, allocVars
  <2>2. wreg'.lease = wreg.lease
    BY <1>1, <2>1 DEF WriteLocals
  <2>3. wreg.pos = ready_tail /\ ready_tail < ready_head /\ ready_head <= ready_tail + ReadyCap
    BY <1>2, <2>1 DEF QueueRing
  <2>4. LeftAt' = LeftAt
    BY <2>1, <2>3 DEF LeftAt
  <2>5. Entries' /\ OwnLease'
    BY <1>2, <2>1, <2>4, AloneStay
  <2>6. QueueRing'
    BY <1>1, <2>1, <2>3 DEF QueueRing
  <2>7. NewIds'
    BY <1>2, <2>1, <2>2 DEF NewIds, Asking
  <2> QED
    BY <1>2, <2>5, <2>6, <2>7 DEF Alone
<1>11. CASE Reset
  <2>1. /\ wpc = "alloc" /\ wpc' = "reset_ready_tail" /\ ready_head' = 0 /\ Renew
        /\ UNCHANGED <<ready_tail, ready, arena, lease, wreg, frames>>
    BY <1>11 DEF Reset
  <2>2. LeftAt' = {}
    BY <1>1, <2>1 DEF LeftAt
  <2>3. DOMAIN used' = {} /\ next_id' = 1
    BY <2>1 DEF Renew
  <2>4. Entries' /\ OwnLease'
    BY <1>6, <2>1, <2>2 DEF Entries, OwnLease, Asking
  <2>5. QueueRing' /\ NewIds'
    BY <1>1, <1>2, <1>4, <2>1, <2>3 DEF QueueRing, NewIds, Asking
  <2> QED
    BY <1>2, <2>4, <2>5 DEF Alone
<1>12. CASE ResetReadyTail
  <2>1. /\ wpc = "reset_ready_tail" /\ wpc' = "reset_rec_head" /\ ready_tail' = 0
        /\ UNCHANGED <<used, next_id, ready_head, ready, arena, lease, wreg, frames>>
    BY <1>12 DEF ResetReadyTail, allocVars
  <2>2. ready_head = 0 /\ LeftAt' = {}
    BY <1>2, <2>1 DEF QueueRing, LeftAt
  <2>3. Entries' /\ OwnLease'
    BY <1>2, <2>1, <2>2, AloneStay
  <2>4. QueueRing' /\ NewIds'
    BY <1>1, <1>2, <2>1, <2>2 DEF QueueRing, NewIds, Asking
  <2> QED
    BY <1>2, <2>3, <2>4 DEF Alone
<1>13. CASE ResetRecHead \/ ResetRecTail
  <2>1. /\ wpc \in {"reset_rec_head", "reset_rec_tail"} /\ wpc' \in {"reset_rec_tail", "retry"}
        /\ UNCHANGED <<used, next_id, ready_head, ready_tail, ready, arena, lease, wreg, frames>>
    BY <1>13 DEF ResetRecHead, ResetRecTail, allocVars, readyVars
  <2>2. LeftAt' = LeftAt
    BY <2>1 DEF LeftAt
  <2>3. Entries' /\ OwnLease'
    BY <1>2, <2>1, <2>2, AloneStay
  <2>4. QueueRing' /\ NewIds'
    BY <1>2, <2>1 DEF QueueRing, NewIds, Asking
  <2> QED
    BY <1>2, <2>3, <2>4 DEF Alone
<1>14. CASE Exhausted \/ (\E l \in Leases : PublishLease(l)) \/ PushSpin
  <2>1. /\ wpc \in {"retry", "idle", "push"} /\ wpc' \in {"idle", "copy", "slot"}
        /\ wpc' = "slot" => wpc = "push"
        /\ UNCHANGED <<used, next_id, ready_head, ready_tail, ready, arena, lease, frames>>
    BY <1>14 DEF Exhausted, PublishLease, PushSpin, allocVars, headerVars
  <2>2. LeftAt' = LeftAt
    BY <2>1 DEF LeftAt
  <2>3. Entries' /\ OwnLease'
    BY <1>2, <2>1, <2>2, AloneStay
  <2>4. ready_tail <= ready_head /\ ready_head <= ready_tail + ReadyCap
    BY <1>2, <2>1 DEF QueueRing
  <2>5. wpc' = "slot" => wreg'.pos = ready_head /\ HasRoom(ready_head, ready_tail, ReadyCap)
    BY <1>1, <1>14 DEF Exhausted, PublishLease, PushSpin, WriteLocals
  <2>6. wpc' = "slot" => ready_head < ready_tail + ReadyCap
    BY <1>1, <2>4, <2>5, RoomMeans
  <2>7. QueueRing' /\ NewIds'
    BY <1>2, <2>1, <2>4, <2>5, <2>6 DEF QueueRing, NewIds, Asking
  <2> QED
    BY <1>2, <2>3, <2>7 DEF Alone
<1>15. CASE Copy
  <2> DEFINE l == wreg.lease
  <2>1. /\ wpc = "copy" /\ wpc' = "push" /\ frames' = frames + 1
        /\ arena' = [p \in DOMAIN arena |->
                       IF p \in Payload(lease[l]) THEN frames + 1 ELSE arena[p]]
        /\ UNCHANGED <<used, next_id, ready_head, ready_tail, ready, lease, wreg>>
    BY <1>15 DEF Copy, allocVars, headerVars
  <2>2. l \in Leases /\ lease[l] # None /\ lease[l] \in Lease /\ \A m \in Leases : m = l
    BY <1>3, <1>5, <2>1 DEF TypeInv, WriterOK, Busy
  <2>3. Backed(lease[l]) /\ \A p \in LeftAt : ready[ReadySlot(p)].id # lease[l].id
    BY <1>2, <2>2 DEF OwnLease
  <2>4. LeftAt' = LeftAt
    BY <2>1 DEF LeftAt
  <2>5. ASSUME NEW d, Backed(d), d.off \in Nat, d.len \in Nat
        PROVE  Payload(d) \subseteq DOMAIN arena
    <3>1. End(used[d.id]) <= Total /\ used[d.id].start = d.off /\ used[d.id].size = d.len
      BY <2>5 DEF Backed, NoOverlap
    <3> QED
      BY <1>1, <2>5, <3>1, AllocatorAssumption DEF End, Payload
  <2>6. ASSUME NEW p \in LeftAt
        PROVE  LET d == ready[ReadySlot(p)] IN Backed(d)' /\ Intact(d)'
    <3> DEFINE d == ready[ReadySlot(p)]
    <3>1. Backed(d) /\ Intact(d) /\ d.id # lease[l].id
      BY <1>2, <2>3 DEF Entries
    <3>2. d \in Desc
      BY <1>1 DEF ReadySlot, LeftAt
    <3>3. d.off \in Nat /\ d.len \in Nat /\ lease[l].off \in Nat /\ lease[l].len \in Nat
      BY <2>2, <3>2 DEF Desc, Lease
    <3>4. \A b \in Payload(d) : b \notin Payload(lease[l]) /\ b \in DOMAIN arena
      <4> HIDE DEF d
      <4>1. /\ d.id \in DOMAIN used /\ used[d.id] = [start |-> d.off, size |-> d.len]
            /\ lease[l].id \in DOMAIN used
            /\ used[lease[l].id] = [start |-> lease[l].off, size |-> lease[l].len]
        BY <2>3, <3>1 DEF Backed
      <4>2. \A b \in Payload(d) : b \notin Payload(lease[l])
        BY <3>1, <3>3, <4>1, Apart
      <4>3. Payload(d) \subseteq DOMAIN arena
        BY <2>5, <3>1, <3>3
      <4> QED
        BY <4>2, <4>3
    <3>5. Backed(d)'
      BY <2>1, <3>1 DEF Backed, ReadySlot
    <3>6. Intact(d)'
      <4>1. \A b \in Payload(d) : arena'[b] = arena[b]
        BY <2>1, <3>4
      <4> QED
        BY <2>1, <3>1, <4>1 DEF Intact, Payload, ReadySlot
    <3> QED
      BY <3>5, <3>6
  <2>7. Entries'
    <3>1. \A p \in LeftAt' : ready'[ReadySlot(p)].seq = p + 1
      BY <1>2, <2>1, <2>4 DEF Entries
    <3>2. \A p, q \in LeftAt' : p # q => ready'[ReadySlot(p)].id # ready'[ReadySlot(q)].id
      BY <1>2, <2>1, <2>4 DEF Entries
    <3>3. \A p \in LeftAt' : LET d == ready'[ReadySlot(p)]
                             IN  /\ d.id \in DOMAIN used'
                                 /\ used'[d.id] = [start |-> d.off, size |-> d.len]
                                 /\ \A b \in d.off .. d.off + d.len - 1 : arena'[b] = d.pts
      BY <2>1, <2>4, <2>6 DEF ReadySlot, Backed, Intact, Payload
    <3> QED
      BY <3>1, <3>2, <3>3 DEF Entries, ReadySlot, Backed, Intact, Payload
  <2>8. OwnLease'
    <3>1. lease[l].off \in Nat /\ lease[l].len \in Nat
      BY <2>2 DEF Lease
    <3>2. Payload(lease[l]) \subseteq DOMAIN arena
      BY <2>3, <2>5, <3>1
    <3>3. \A b \in Payload(lease[l]) : arena'[b] = frames'
      BY <2>1, <3>2
    <3>4. \A m \in Leases : m = l /\ lease'[m] = lease[l]
      BY <2>1, <2>2
    <3>5. Backed(lease[l])'
      BY <2>1, <2>3 DEF Backed
    <3>6. \A p \in LeftAt' : ready'[ReadySlot(p)].id # lease[l].id
      BY <2>1, <2>3, <2>4
    <3> QED
      BY <2>1, <3>3, <3>4, <3>5, <3>6 DEF OwnLease, Backed, Payload, ReadySlot
  <2>9. QueueRing' /\ NewIds'
    BY <1>2, <2>1 DEF QueueRing, NewIds, Asking
  <2> QED
    BY <1>2, <2>7, <2>8, <2>9 DEF Alone
<1>16. CASE PushStore
  <2> DEFINE l == wreg.lease
  <2>1. /\ wpc = "slot" /\ wpc' = "idle" /\ ready_head' = wreg.pos + 1
        /\ ready' = [ready EXCEPT ![ReadySlot(wreg.pos)] = Published]
        /\ lease' = [lease EXCEPT ![l] = None]
        /\ UNCHANGED <<used, next_id, ready_tail, arena, frames>>
    BY <1>16 DEF PushStore, allocVars
  <2>2. /\ wreg.pos = ready_head /\ ready_head < ready_tail + ReadyCap
        /\ ready_tail <= ready_head
    BY <1>2, <2>1 DEF QueueRing
  <2>3. l \in Leases /\ lease[l] # None /\ \A m \in Leases : m = l
    BY <1>3, <1>5, <2>1 DEF TypeInv, WriterOK, Busy
  <2>4. /\ Backed(lease[l]) /\ \A p \in LeftAt : ready[ReadySlot(p)].id # lease[l].id
        /\ \A b \in Payload(lease[l]) : arena[b] = frames
    BY <1>2, <2>1, <2>3 DEF OwnLease
  <2>5. \A m \in Leases : lease'[m] = None
    BY <1>1, <2>1, <2>3
  <2>6. LeftAt = ready_tail .. ready_head - 1 /\ LeftAt' = ready_tail .. ready_head
    BY <1>1, <2>1, <2>2 DEF LeftAt
  <2>7. ReadySlot(ready_head) \in 0 .. ReadyCap - 1
    BY <1>1 DEF ReadySlot
  <2>8. ready'[ReadySlot(ready_head)] = Published
    BY <1>1, <2>1, <2>2, <2>7
  <2>9. ASSUME NEW p \in LeftAt PROVE ready'[ReadySlot(p)] = ready[ReadySlot(p)]
    <3>1. p \in Nat /\ p < ready_head /\ ready_head < p + ReadyCap
      BY <1>1, <2>2, <2>6
    <3>2. ReadySlot(p) # ReadySlot(ready_head)
      BY <1>1, <3>1, SlotsDiffer DEF ReadySlot
    <3>3. ReadySlot(p) \in 0 .. ReadyCap - 1
      BY <1>1, <3>1 DEF ReadySlot
    <3> QED
      BY <1>1, <2>1, <2>2, <3>2, <3>3
  <2>10. /\ Published.seq = ready_head + 1 /\ Published.id = lease[l].id
         /\ Published.off = lease[l].off /\ Published.len = lease[l].len
         /\ Published.pts = frames
    BY <2>2 DEF Published
  <2>11. Backed(Published) /\ Intact(Published)
    BY <2>4, <2>10 DEF Backed, Intact, Payload
  <2> DEFINE new == Published
  <2> HIDE DEF new
  <2>12. \A p \in LeftAt' : p \in LeftAt \/ p = ready_head
    BY <1>1, <2>6
  <2>13. \A p \in LeftAt' : LET d == ready'[ReadySlot(p)]
                            IN  d.seq = p + 1 /\ Backed(d) /\ Intact(d)
    BY <1>2, <2>8, <2>9, <2>10, <2>11, <2>12 DEF Entries
  <2>14. \A p, q \in LeftAt' : p # q => ready'[ReadySlot(p)].id # ready'[ReadySlot(q)].id
    <3>1. \A p \in LeftAt : ready'[ReadySlot(p)].id = ready[ReadySlot(p)].id
      BY <2>9
    <3>2. \A p, q \in LeftAt : p # q => ready'[ReadySlot(p)].id # ready'[ReadySlot(q)].id
      BY <1>2, <3>1 DEF Entries
    <3>3. \A p \in LeftAt : ready'[ReadySlot(p)].id # ready'[ReadySlot(ready_head)].id
      BY <2>4, <2>8, <2>10, <3>1
    <3> QED
      BY <2>12, <3>2, <3>3
  <2>15. Entries'
    <3>1. \A p \in LeftAt' : LET d == ready'[ReadySlot(p)]
                             IN  /\ d.seq = p + 1
                                 /\ d.id \in DOMAIN used'
                                 /\ used'[d.id] = [start |-> d.off, size |-> d.len]
                                 /\ \A b \in d.off .. d.off + d.len - 1 : arena'[b] = d.pts
      BY <2>1, <2>13 DEF Backed, Intact, Payload
    <3> QED
      BY <2>14, <3>1 DEF Entries, ReadySlot, Backed, Intact, Payload
  <2>16. OwnLease'
    BY <2>5 DEF OwnLease
  <2>17. QueueRing' /\ NewIds'
    BY <1>1, <1>2, <2>1, <2>2 DEF QueueRing, NewIds, Asking
  <2> QED
    BY <1>2, <2>15, <2>16, <2>17 DEF Alone
<1>17. ASSUME NEW l \in Leases, FreeLease(l) PROVE Alone'
  <2> DEFINE id == lease[l].id
  <2>1. /\ wpc = "idle" /\ wpc' = "idle" /\ lease[l] # None /\ FreeIfLive(id)
        /\ lease' = [lease EXCEPT ![l] = None]
        /\ UNCHANGED <<ready_head, ready_tail, ready, arena, frames>>
    BY <1>17 DEF FreeLease, headerVars
  <2>2. \A m \in Leases : lease'[m] = None
    BY <1>1, <1>3, <2>1
  <2>3. /\ \A i \in DOMAIN used : i # id => i \in DOMAIN used' /\ used'[i] = used[i]
        /\ DOMAIN used' \subseteq DOMAIN used /\ next_id' = next_id
    <3> HIDE DEF id
    <3>1. /\ \A i \in DOMAIN used : i # id => i \in DOMAIN used'
          /\ \A i \in DOMAIN used : i # id => used'[i] = used[i]
      BY <2>1, FreeKeeps, FreeKeepsBlocks
    <3> QED
      BY <2>1, <3>1, FreeOthers
  <2>4. LeftAt' = LeftAt
    BY <2>1 DEF LeftAt
  <2>5. \A p \in LeftAt : ready[ReadySlot(p)].id # id /\ ready[ReadySlot(p)].id \in DOMAIN used
    BY <1>2, <2>1 DEF OwnLease, Entries, Backed
  <2>6. Entries'
    BY <1>2, <2>1, <2>3, <2>4, <2>5, EntriesStay
  <2>7. OwnLease' /\ QueueRing' /\ NewIds'
    BY <1>2, <2>1, <2>2, <2>3 DEF OwnLease, QueueRing, NewIds, Asking
  <2> QED
    BY <1>2, <2>6, <2>7 DEF Alone
<1>18. CASE UNCHANGED vars
  <2>1. UNCHANGED <<used, next_id, ready_head, ready_tail, ready, arena, lease, frames,
                    wpc, wreg>>
    BY <1>18 DEF vars, allocVars, headerVars, writerVars
  <2>2. LeftAt' = LeftAt
    BY <2>1 DEF LeftAt
  <2>3. Entries' /\ OwnLease'
    BY <1>2, <2>1, <2>2, AloneStay
  <2>4. QueueRing' /\ NewIds'
    BY <1>2, <2>1 DEF QueueRing, NewIds
  <2> QED
    BY <1>2, <2>3, <2>4 DEF Alone
<1>19. CASE WriterStep
  BY <1>2, <1>8, <1>9, <1>10, <1>11, <1>12, <1>13, <1>14, <1>15, <1>16, <1>19, OnlyWriter
     DEF WriterStep
<1>20. CASE WriterCall
  BY <1>2, <1>7, <1>14, <1>17, <1>20, OnlyWriter DEF WriterCall
<1> QED
  BY <1>2, <1>18, <1>19, <1>20, OnlyWriter

\* QueuedIntact: with no consumer and one memory at a time, the rings are within capacity
\* between two writer calls and every queued descriptor names the frame it was published
\* for, whatever drop_oldest_ready and reset_allocator_state have done before.  Ids do
\* not wrap.
THEOREM QueuedIntactCorrect ==
    ASSUME MaxAttach = 0, \A l, m \in Leases : l = m, MaxAllocs < MaxId
    PROVE  TransportSpec => []QueuedIntact
<1>1. Init => TypeInv /\ NoOverlap /\ AloneInv
  BY InitType, InitOwner, InitAlone DEF OwnerInv
<1>2. TypeInv /\ NoOverlap /\ AloneInv /\ [TransportNext]_vars
        => (TypeInv /\ NoOverlap /\ AloneInv)'
  BY StepType, StepNoOverlap, StepAlone DEF AloneInv, Lonely
<1>3. TypeInv /\ AloneInv => QueuedIntact
  <2> SUFFICES ASSUME TypeInv, Alone, wpc = "idle"
               PROVE  /\ RingsBounded
                      /\ \A p \in ready_tail .. ready_head - 1 :
                           Intact(ready[ReadySlot(p)]) /\ ready[ReadySlot(p)].seq = p + 1
    BY DEF AloneInv, Lonely, QueuedIntact
  <2>1. /\ ready_head \in Nat /\ ready_tail \in Nat /\ ReadyCap \in Nat /\ RecCap \in Nat
        /\ rec_head = 0 /\ rec_tail = 0
        /\ ready_tail <= ready_head /\ ready_head <= ready_tail + ReadyCap
    BY TransportAssumption DEF TypeInv, HeaderOK, Alone, Quiet, QueueRing
  <2>2. LeftAt = ready_tail .. ready_head - 1
    BY DEF LeftAt
  <2> QED
    BY <2>1, <2>2 DEF Alone, Entries, RingsBounded
<1> QED
  BY <1>1, <1>2, <1>3, PTL DEF TransportSpec
=================================================================================
