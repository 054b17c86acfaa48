------------------------------- MODULE Transport -------------------------------
(***************************************************************************)
(* The shared-memory transport of transport.rs: one Writer and one Reader, *)
(* two processes that share a header of four ring counters, the ready ring *)
(* (descriptors, writer to reader), the recycle ring (ids, reader to       *)
(* writer) and the payload arena.                                          *)
(*                                                                         *)
(* One action is one access to state the other process can write, with the *)
(* local computation around it.  The writer's mutex serialises upstream    *)
(* allocation, render, upstream releases and the GC thread: wpc is the     *)
(* place inside the one call that holds it, "idle" when free.  The         *)
(* reader's mutex serialises the source's receive and the drops of buffers *)
(* downstream: rpc likewise.  A ring slot is plain memory: while one side  *)
(* writes it (wpc = "slot", rpc = "rc_slot" or "rx_slot") the other may    *)
(* read any mix of the old and the new fields.  Counter accesses are       *)
(* sequentially consistent here, in program order.                         *)
(***************************************************************************)
EXTENDS FreeListAllocator, FiniteSets

CONSTANTS ReadyCap,   \* ready_capacity
          RecCap,     \* rec_capacity
          U64,        \* 2^64, the modulus of the counters' wrapping arithmetic
          Leases,     \* upstream memories, and the one render copies into
          Wraps,      \* the ShmReadWraps downstream can hold at once
          LatestOnly, \* the latest-only settings the source may run with
          OverflowChecks, \* TRUE: arithmetic underflow panics (dev profile)
          MayCrash,   \* TRUE: the consumer process may die
          MaxFrames,  \* bound: frames published
          MaxAttach,  \* bound: times a consumer attaches
          MaxAllocs,  \* bound: last id handed out (MaxId: ids wrap, no bound)
          MaxPos,     \* bound: tail position of a reader that ran past the head
          None

ASSUME TransportAssumption ==
    /\ ReadyCap \in Nat \ {0}
    /\ RecCap \in Nat \ {0}
    /\ U64 \in Nat /\ ReadyCap < U64 /\ RecCap < U64
    /\ LatestOnly \subseteq BOOLEAN
    /\ OverflowChecks \in BOOLEAN
    /\ MayCrash \in BOOLEAN
    /\ {MaxFrames, MaxAttach, MaxAllocs, MaxPos} \subseteq Nat
    /\ None \notin Leases /\ None \notin Wraps

\* A descriptor: pts identifies the frame it was published for.
Desc == [seq : Nat, id : Nat, off : Nat, len : Nat, pts : Nat]
\* AllocLease.
Lease == [id : Nat, off : Nat, len : Nat]

ASSUME NoneAssumption == None \notin Desc /\ None \notin Lease

VARIABLES
    ready_head, ready_tail, rec_head, rec_tail,     \* SharedHeader
    ready,      \* ready ring: slot -> Desc
    recycle,    \* recycle ring: slot -> id
    arena,      \* byte -> the frame last written there (0: never written)
    lease,      \* memory -> its lease, None when it has none
    wpc, wreg,  \* the call holding the writer mutex: place and locals
    held,       \* ShmReadWrap -> the descriptor it was made from
    rpc, rreg,  \* the call holding the reader mutex: place and locals
    frames,     \* frames written by upstream so far
    attaches,   \* consumers attached so far
    taken,      \* history: first ready position no reader has taken or recycled
    clean       \* history: no queued frame dropped by the writer, no reset, and
                \* no id reused while live, so far

headerVars == <<ready_head, ready_tail, rec_head, rec_tail>>
readyVars  == <<ready_head, ready_tail>>
recVars    == <<rec_head, rec_tail>>
writerVars == <<lease, wpc, wreg, frames>>
readerVars == <<held, rpc, rreg, attaches>>
historyVars == <<taken, clean>>

vars == <<allocVars, headerVars, ready, recycle, arena, writerVars, readerVars, historyVars>>

--------------------------------------------------------------------------------
wrapping_sub(a, b) == IF a >= b THEN a - b ELSE U64 + a - b
saturating_sub(a, b) == IF a >= b THEN a - b ELSE 0

\* Fault: one entry too many is let in.
HasRoom_OffByOne(head, tail, cap) == wrapping_sub(head, tail) <= cap

\* The condition both rings' producers wait for.
HasRoom(head, tail, cap) == wrapping_sub(head, tail) < cap

\* The choice of try_recv_latest_desc among the len entries it saw (len is 0 when
\* the tail has passed the head): the only one, or the second newest ...
Chosen(head, tail) ==
    IF saturating_sub(head, tail) = 1 THEN tail ELSE wrapping_sub(head, 2)

\* ... for which head - 2 must not underflow.
Underflows(head, tail) == saturating_sub(head, tail) # 1 /\ head < 2

\* Entries before the chosen one are recycled.
Older(cur, chosen) == cur < chosen

\* Fault: the tail is left at the chosen entry.
NewTail_KeepsChosen(head, tail) ==
    IF saturating_sub(head, tail) <= 1 THEN head ELSE head - 2

\* Fault: the single-entry case is forgotten.
NewTail_NoSingle(head, tail) == head - 2

\* Fault: the newest entry is passed over too.
NewTail_DropsNewest(head, tail) == head

\* The tail after a latest-only receive: the newest of several entries stays.
NewTail(head, tail) == IF saturating_sub(head, tail) <= 1 THEN head ELSE head - 1

ReadySlot(p) == p % ReadyCap
RecSlot(p)   == p % RecCap

ZeroDesc == [seq |-> 0, id |-> 0, off |-> 0, len |-> 0, pts |-> 0]

NoWrite == [lease |-> None, size |-> 0, publish |-> FALSE, pos |-> 0]
NoRead  == [latest |-> FALSE, head |-> 0, cur |-> 0, chosen |-> 0, newtail |-> 0,
            rec |-> 0, desc |-> ZeroDesc, wrap |-> None]

\* The descriptor publish_lease writes at position wreg.pos.
Published ==
    [seq |-> wreg.pos + 1, id |-> lease[wreg.lease].id, off |-> lease[wreg.lease].off,
     len |-> lease[wreg.lease].len, pts |-> frames]

\* What a read of a ready slot may return.
ReadySlotReads(s) ==
    IF wpc = "slot" /\ s = ReadySlot(wreg.pos)
    THEN LET both == {ready[s], Published}
         IN  {[seq |-> a.seq, id |-> b.id, off |-> c.off, len |-> d.len, pts |-> e.pts] :
                a \in both, b \in both, c \in both, d \in both, e \in both}
    ELSE {ready[s]}

\* What a read of the id in a recycle slot may return.
RecSlotReads(s) ==
    IF rpc \in {"rc_slot", "rx_slot"} /\ s = RecSlot(rreg.rec)
    THEN {recycle[s], rreg.desc.id}
    ELSE {recycle[s]}

\* Payload bytes of a descriptor or lease.
Payload(d) == d.off .. d.off + d.len - 1

validate_bounds(d) == d.off + d.len <= Total

--------------------------------------------------------------------------------
(* The writer. *)

\* Writer::create: a zeroed region and an empty arena.
WriterInit ==
    /\ New
    /\ ready_head = 0 /\ ready_tail = 0 /\ rec_head = 0 /\ rec_tail = 0
    /\ ready = [s \in 0 .. ReadyCap - 1 |-> ZeroDesc]
    /\ recycle = [s \in 0 .. RecCap - 1 |-> 0]
    /\ arena = [p \in 0 .. Total - 1 |-> 0]
    /\ lease = [l \in Leases |-> None]
    /\ wpc = "idle" /\ wreg = NoWrite
    /\ frames = 0

\* alloc_lease is called for an upstream memory, or by publish for its copy.
AllocLease(l, size, publish) ==
    /\ wpc = "idle"
    /\ lease[l] = None
    /\ frames < MaxFrames /\ next_id <= MaxAllocs
    /\ wpc' = "alloc"
    /\ wreg' = [NoWrite EXCEPT !.lease = l, !.size = size, !.publish = publish]
    /\ UNCHANGED <<allocVars, headerVars, ready, recycle, arena, lease, frames,
                   readerVars, historyVars>>

\* The allocator has a block: the lease is granted.
AllocGrant ==
    /\ wpc \in {"alloc", "retry"}
    /\ Alloc(wreg.size)
    /\ lease' = [lease EXCEPT ![wreg.lease] =
                    [id |-> next_id, off |-> used'[next_id].start, len |-> wreg.size]]
    /\ IF wreg.publish THEN wpc' = "copy" /\ UNCHANGED wreg
                       ELSE wpc' = "idle" /\ wreg' = NoWrite
    /\ clean' = (clean /\ next_id \notin DOMAIN used)
    /\ UNCHANGED <<headerVars, ready, recycle, arena, frames, readerVars, taken>>

NoRoom == \A b \in free : ~Fits(b, wreg.size)

\* free_by_id, whose answer every caller here ignores.
FreeIfLive(id) ==
    \/ FreeById(id)
    \/ id \notin DOMAIN used /\ UNCHANGED allocVars

\* drop_oldest_ready with something queued: the block of the oldest queued
\* descriptor is freed, and the tail, which the reader also stores, is next.
DropOldest ==
    /\ wpc = "alloc"
    /\ NoRoom
    /\ ready_head # ready_tail
    /\ FreeIfLive(ready[ReadySlot(ready_tail)].id)
    /\ wpc' = "drop"
    /\ wreg' = [wreg EXCEPT !.pos = ready_tail]
    /\ clean' = FALSE
    /\ UNCHANGED <<headerVars, ready, recycle, arena, lease, frames, readerVars, taken>>

\* Fault: the tail is not advanced past the dropped entry.
DropStore_NoAdvance ==
    /\ wpc = "drop"
    /\ ready_tail' = wreg.pos
    /\ wpc' = "alloc"
    /\ wreg' = [wreg EXCEPT !.pos = 0]
    /\ UNCHANGED <<allocVars, ready_head, recVars, ready, recycle, arena, lease, frames,
                   readerVars, historyVars>>

DropStore ==
    /\ wpc = "drop"
    /\ ready_tail' = wreg.pos + 1
    /\ wpc' = "alloc"
    /\ wreg' = [wreg EXCEPT !.pos = 0]
    /\ UNCHANGED <<allocVars, ready_head, recVars, ready, recycle, arena, lease, frames,
                   readerVars, historyVars>>

\* drop_oldest_ready found nothing queued: reset_allocator_state, a new
\* allocator and four stores.
Reset ==
    /\ wpc = "alloc"
    /\ NoRoom
    /\ ready_head = ready_tail
    /\ Renew
    /\ ready_head' = 0
    /\ wpc' = "reset_ready_tail"
    /\ clean' = FALSE
    /\ UNCHANGED <<ready_tail, recVars, ready, recycle, arena, lease, wreg, frames,
                   readerVars, taken>>

\* Fault: the reset forgets the ready tail.
ResetReadyTail_Forgotten ==
    /\ wpc = "reset_ready_tail"
    /\ wpc' = "reset_rec_head"
    /\ UNCHANGED <<allocVars, readyVars, recVars, ready, recycle, arena, lease, wreg,
                   frames, readerVars, historyVars>>

ResetReadyTail ==
    /\ wpc = "reset_ready_tail"
    /\ ready_tail' = 0
    /\ wpc' = "reset_rec_head"
    /\ UNCHANGED <<allocVars, ready_head, recVars, ready, recycle, arena, lease, wreg,
                   frames, readerVars, historyVars>>

ResetRecHead ==
    /\ wpc = "reset_rec_head"
    /\ rec_head' = 0
    /\ wpc' = "reset_rec_tail"
    /\ UNCHANGED <<allocVars, readyVars, rec_tail, ready, recycle, arena, lease, wreg,
                   frames, readerVars, historyVars>>

ResetRecTail ==
    /\ wpc = "reset_rec_tail"
    /\ rec_tail' = 0
    /\ wpc' = "retry"
    /\ UNCHANGED <<allocVars, readyVars, rec_head, ready, recycle, arena, lease, wreg,
                   frames, readerVars, historyVars>>

\* The one retry after the reset failed too: Err(Exhausted).
Exhausted ==
    /\ wpc = "retry"
    /\ NoRoom
    /\ wpc' = "idle"
    /\ wreg' = NoWrite
    /\ UNCHANGED <<allocVars, headerVars, ready, recycle, arena, lease, frames,
                   readerVars, historyVars>>

\* render's fast path: upstream filled its lease and hands it over whole.
PublishLease(l) ==
    /\ wpc = "idle"
    /\ lease[l] # None
    /\ frames < MaxFrames
    /\ wpc' = "copy"
    /\ wreg' = [NoWrite EXCEPT !.lease = l]
    /\ UNCHANGED <<allocVars, headerVars, ready, recycle, arena, lease, frames,
                   readerVars, historyVars>>

\* The payload reaches the arena: publish's copy, or upstream's own writes, of
\* which the last is taken to come just before render.
Copy ==
    /\ wpc = "copy"
    /\ frames' = frames + 1
    /\ arena' = [p \in DOMAIN arena |->
                    IF p \in Payload(lease[wreg.lease]) THEN frames + 1 ELSE arena[p]]
    /\ wpc' = "push"
    /\ UNCHANGED <<allocVars, headerVars, ready, recycle, lease, wreg, readerVars,
                   historyVars>>

\* publish_lease spins here while the ready ring is full.
PushSpin ==
    /\ wpc = "push"
    /\ HasRoom(ready_head, ready_tail, ReadyCap)
    /\ wpc' = "slot"
    /\ wreg' = [wreg EXCEPT !.pos = ready_head]
    /\ UNCHANGED <<allocVars, headerVars, ready, recycle, arena, lease, frames,
                   readerVars, historyVars>>

PushStore ==
    /\ wpc = "slot"
    /\ ready' = [ready EXCEPT ![ReadySlot(wreg.pos)] = Published]
    /\ ready_head' = wreg.pos + 1
    /\ lease' = [lease EXCEPT ![wreg.lease] = None]
    /\ wpc' = "idle"
    /\ wreg' = NoWrite
    /\ UNCHANGED <<allocVars, ready_tail, recVars, recycle, arena, frames, readerVars,
                   historyVars>>

\* release_unpublished: upstream drops a memory it never published.  The code finds
\* the lease by the memory's address; that is this memory's lease as long as
\* upstream drops a published memory before its block is leased again.
FreeLease(l) ==
    /\ wpc = "idle"
    /\ lease[l] # None
    /\ FreeIfLive(lease[l].id)
    /\ lease' = [lease EXCEPT ![l] = None]
    /\ UNCHANGED <<headerVars, ready, recycle, arena, wpc, wreg, frames, readerVars,
                   historyVars>>

\* Fault: the GC thread drains only a recycle ring that has overflowed.
DrainBegin_WhenFull ==
    /\ wpc = "idle"
    /\ rec_head - rec_tail > RecCap
    /\ wpc' = "drain"
    /\ UNCHANGED <<allocVars, headerVars, ready, recycle, arena, lease, wreg, frames,
                   readerVars, historyVars>>

\* The GC thread calls drain_recycles; an empty ring is left at once.
DrainBegin ==
    /\ wpc = "idle"
    /\ rec_head # rec_tail
    /\ wpc' = "drain"
    /\ UNCHANGED <<allocVars, headerVars, ready, recycle, arena, lease, wreg, frames,
                   readerVars, historyVars>>

\* Fault: the id taken off the recycle ring is not freed.
DrainTake_NoFree ==
    /\ wpc = "drain"
    /\ rec_head # rec_tail
    /\ wpc' = "drain_store"
    /\ wreg' = [wreg EXCEPT !.pos = rec_tail]
    /\ UNCHANGED <<allocVars, headerVars, ready, recycle, arena, lease, frames,
                   readerVars, historyVars>>

DrainTake ==
    /\ wpc = "drain"
    /\ rec_head # rec_tail
    /\ \E id \in RecSlotReads(RecSlot(rec_tail)) : FreeIfLive(id)
    /\ wpc' = "drain_store"
    /\ wreg' = [wreg EXCEPT !.pos = rec_tail]
    /\ UNCHANGED <<headerVars, ready, recycle, arena, lease, frames, readerVars,
                   historyVars>>

DrainStore ==
    /\ wpc = "drain_store"
    /\ rec_tail' = wreg.pos + 1
    /\ wpc' = "drain"
    /\ wreg' = NoWrite
    /\ UNCHANGED <<allocVars, readyVars, rec_head, ready, recycle, arena, lease, frames,
                   readerVars, historyVars>>

DrainEnd ==
    /\ wpc = "drain"
    /\ rec_head = rec_tail
    /\ wpc' = "idle"
    /\ UNCHANGED <<allocVars, headerVars, ready, recycle, arena, lease, wreg, frames,
                   readerVars, historyVars>>

\* The steps of a writer call under way.
WriterStep ==
    \/ AllocGrant \/ DropOldest \/ DropStore
    \/ Reset \/ ResetReadyTail \/ ResetRecHead \/ ResetRecTail \/ Exhausted
    \/ Copy \/ PushSpin \/ PushStore
    \/ DrainTake \/ DrainStore \/ DrainEnd

--------------------------------------------------------------------------------
(* The reader. *)

ReaderInit ==
    /\ held = [w \in Wraps |-> None]
    /\ rpc = "detached" /\ rreg = NoRead
    /\ attaches = 0

\* Shm2Src::start: Reader::open, then sync_startup_state loads the head ...
AttachLoad ==
    /\ rpc = "detached"
    /\ attaches < MaxAttach
    /\ attaches' = attaches + 1
    /\ rpc' = "attach"
    /\ rreg' = [NoRead EXCEPT !.head = ready_head]
    /\ UNCHANGED <<allocVars, headerVars, ready, recycle, arena, writerVars, held,
                   historyVars>>

\* ... and stores it as the tail: what was queued is skipped, and its blocks
\* are not returned.
AttachStore ==
    /\ rpc = "attach"
    /\ ready_tail' = rreg.head
    /\ taken' = IF clean THEN rreg.head ELSE taken
    /\ rpc' = "idle"
    /\ rreg' = NoRead
    /\ UNCHANGED <<allocVars, ready_head, recVars, ready, recycle, arena, writerVars,
                   held, attaches, clean>>

\* try_recv_desc or try_recv_latest_desc, while downstream can take a buffer.
RecvHead(latest) ==
    /\ rpc = "idle"
    /\ \E w \in Wraps : held[w] = None
    /\ ready_head # ready_tail
    /\ rpc' = "rx_tail"
    /\ rreg' = [NoRead EXCEPT !.latest = latest, !.head = ready_head]
    /\ UNCHANGED <<allocVars, headerVars, ready, recycle, arena, writerVars, held,
                   attaches, historyVars>>

RecvEmpty ==
    /\ rpc = "rx_tail"
    /\ rreg.head = ready_tail
    /\ rpc' = "idle"
    /\ rreg' = NoRead
    /\ UNCHANGED <<allocVars, headerVars, ready, recycle, arena, writerVars, held,
                   attaches, historyVars>>

\* Fault: the tail is not advanced past the entry received.
RecvFifo_NoAdvance ==
    /\ rpc = "rx_tail"
    /\ ~rreg.latest
    /\ rreg.head # ready_tail
    /\ ready_tail < MaxPos
    /\ rpc' = "rx_read"
    /\ rreg' = [rreg EXCEPT !.cur = ready_tail, !.chosen = ready_tail,
                            !.newtail = ready_tail]
    /\ UNCHANGED <<allocVars, headerVars, ready, recycle, arena, writerVars, held,
                   attaches, historyVars>>

\* Fault: a FIFO receive takes the newest entry.
RecvFifo_Newest ==
    /\ rpc = "rx_tail"
    /\ ~rreg.latest
    /\ rreg.head # ready_tail
    /\ ready_tail < MaxPos
    /\ rpc' = "rx_read"
    /\ rreg' = [rreg EXCEPT !.cur = ready_tail, !.chosen = rreg.head - 1,
                            !.newtail = rreg.head]
    /\ UNCHANGED <<allocVars, headerVars, ready, recycle, arena, writerVars, held,
                   attaches, historyVars>>

RecvFifo ==
    /\ rpc = "rx_tail"
    /\ ~rreg.latest
    /\ rreg.head # ready_tail
    /\ ready_tail < MaxPos
    /\ rpc' = "rx_read"
    /\ rreg' = [rreg EXCEPT !.cur = ready_tail, !.chosen = ready_tail,
                            !.newtail = ready_tail + 1]
    /\ UNCHANGED <<allocVars, headerVars, ready, recycle, arena, writerVars, held,
                   attaches, historyVars>>

\* The entries seen, the chosen one and the next tail are fixed here.
RecvLatest ==
    /\ rpc = "rx_tail"
    /\ rreg.latest
    /\ rreg.head # ready_tail
    /\ ready_tail < MaxPos
    /\ ~(OverflowChecks /\ Underflows(rreg.head, ready_tail))
    /\ LET chosen == Chosen(rreg.head, ready_tail)
       IN  /\ rpc' = IF Older(ready_tail, chosen) THEN "rx_drop" ELSE "rx_read"
           /\ rreg' = [rreg EXCEPT !.cur = ready_tail, !.chosen = chosen,
                                   !.newtail = NewTail(rreg.head, ready_tail)]
    /\ UNCHANGED <<allocVars, headerVars, ready, recycle, arena, writerVars, held,
                   attaches, historyVars>>

\* head - 2 underflows: a panic, which poisons the reader mutex.
RecvPanic ==
    /\ rpc = "rx_tail"
    /\ rreg.latest
    /\ rreg.head # ready_tail
    /\ OverflowChecks /\ Underflows(rreg.head, ready_tail)
    /\ rpc' = "poisoned"
    /\ rreg' = NoRead
    /\ UNCHANGED <<allocVars, headerVars, ready, recycle, arena, writerVars, held,
                   attaches, historyVars>>

\* An entry older than the chosen one: try_recycle_desc finds room ...
SkipTry ==
    /\ rpc = "rx_drop"
    /\ HasRoom(rec_head, rec_tail, RecCap)
    /\ rreg.cur < MaxPos
    /\ \E d \in ReadySlotReads(ReadySlot(rreg.cur)) :
         rreg' = [rreg EXCEPT !.desc = d, !.rec = rec_head]
    /\ rpc' = "rx_slot"
    /\ UNCHANGED <<allocVars, headerVars, ready, recycle, arena, writerVars, held,
                   attaches, historyVars>>

\* ... and pushes its id on the recycle ring ...
SkipStore ==
    /\ rpc = "rx_slot"
    /\ recycle' = [recycle EXCEPT ![RecSlot(rreg.rec)] = rreg.desc.id]
    /\ rec_head' = rreg.rec + 1
    /\ rpc' = IF Older(rreg.cur + 1, rreg.chosen) THEN "rx_drop" ELSE "rx_read"
    /\ rreg' = [rreg EXCEPT !.cur = rreg.cur + 1, !.desc = ZeroDesc, !.rec = 0]
    /\ taken' = IF clean THEN rreg.cur + 1 ELSE taken
    /\ UNCHANGED <<allocVars, readyVars, rec_tail, ready, arena, writerVars, held,
                   attaches, clean>>

\* ... or finds none, and the loop gives up on the rest.
SkipFull ==
    /\ rpc = "rx_drop"
    /\ ~HasRoom(rec_head, rec_tail, RecCap)
    /\ rpc' = "rx_read"
    /\ UNCHANGED <<allocVars, headerVars, ready, recycle, arena, writerVars, held,
                   rreg, attaches, historyVars>>

RecvRead ==
    /\ rpc = "rx_read"
    /\ \E d \in ReadySlotReads(ReadySlot(rreg.chosen)) :
         \/ /\ validate_bounds(d)
            /\ rpc' = "rx_take"
            /\ rreg' = [rreg EXCEPT !.desc = d]
         \/ /\ ~validate_bounds(d)
            /\ rpc' = "idle"
            /\ rreg' = NoRead
    /\ UNCHANGED <<allocVars, headerVars, ready, recycle, arena, writerVars, held,
                   attaches, historyVars>>

RecvTake ==
    /\ rpc = "rx_take"
    /\ ready_tail' = rreg.newtail
    /\ \E w \in Wraps :
         /\ held[w] = None
         /\ held' = [held EXCEPT ![w] = rreg.desc]
    /\ taken' = IF clean THEN rreg.newtail ELSE taken
    /\ rpc' = "idle"
    /\ rreg' = NoRead
    /\ UNCHANGED <<allocVars, ready_head, recVars, ready, recycle, arena, writerVars,
                   attaches, clean>>

\* Downstream drops a buffer: ShmReadWrap::drop takes the reader mutex.
DropWrap(w) ==
    /\ rpc = "idle"
    /\ held[w] # None
    /\ rpc' = "rc_spin"
    /\ rreg' = [NoRead EXCEPT !.wrap = w, !.desc = held[w]]
    /\ UNCHANGED <<allocVars, headerVars, ready, recycle, arena, writerVars, held,
                   attaches, historyVars>>

\* recycle_desc spins here while the recycle ring is full.
RecycleSpin ==
    /\ rpc = "rc_spin"
    /\ HasRoom(rec_head, rec_tail, RecCap)
    /\ rec_head < MaxPos
    /\ rpc' = "rc_slot"
    /\ rreg' = [rreg EXCEPT !.rec = rec_head]
    /\ UNCHANGED <<allocVars, headerVars, ready, recycle, arena, writerVars, held,
                   attaches, historyVars>>

\* Fault: the slot is taken from seq (head + 1) instead of head.
RecycleStore_WrongSlot ==
    /\ rpc = "rc_slot"
    /\ recycle' = [recycle EXCEPT ![RecSlot(rreg.rec + 1)] = rreg.desc.id]
    /\ rec_head' = rreg.rec + 1
    /\ held' = [held EXCEPT ![rreg.wrap] = None]
    /\ rpc' = "idle"
    /\ rreg' = NoRead
    /\ UNCHANGED <<allocVars, readyVars, rec_tail, ready, arena, writerVars, attaches,
                   historyVars>>

RecycleStore ==
    /\ rpc = "rc_slot"
    /\ recycle' = [recycle EXCEPT ![RecSlot(rreg.rec)] = rreg.desc.id]
    /\ rec_head' = rreg.rec + 1
    /\ held' = [held EXCEPT ![rreg.wrap] = None]
    /\ rpc' = "idle"
    /\ rreg' = NoRead
    /\ UNCHANGED <<allocVars, readyVars, rec_tail, ready, arena, writerVars, attaches,
                   historyVars>>

\* The consumer process dies, in the middle of a call or not: its buffers are
\* gone and were never recycled.
Crash ==
    /\ MayCrash
    /\ rpc # "detached"
    /\ rpc' = "detached"
    /\ rreg' = NoRead
    /\ held' = [w \in Wraps |-> None]
    /\ UNCHANGED <<allocVars, headerVars, ready, recycle, arena, writerVars, attaches,
                   historyVars>>

\* The steps of a reader call under way.
ReaderStep ==
    \/ AttachStore
    \/ RecvEmpty \/ RecvFifo \/ RecvLatest \/ RecvPanic
    \/ SkipTry \/ SkipStore \/ SkipFull \/ RecvRead \/ RecvTake
    \/ RecycleSpin \/ RecycleStore

--------------------------------------------------------------------------------
Init ==
    /\ WriterInit
    /\ ReaderInit
    /\ taken = 0
    /\ clean = TRUE

WriterCall ==
    \/ \E l \in Leases, size \in Sizes, publish \in BOOLEAN : AllocLease(l, size, publish)
    \/ \E l \in Leases : PublishLease(l) \/ FreeLease(l)
    \/ DrainBegin

ReaderCall ==
    \/ AttachLoad
    \/ \E latest \in LatestOnly : RecvHead(latest)
    \/ \E w \in Wraps : DropWrap(w)

TransportNext == WriterStep \/ WriterCall \/ ReaderStep \/ ReaderCall \/ Crash

TransportSpec == Init /\ [][TransportNext]_vars

\* A call under way goes on, both polling loops (the GC thread's and the
\* source's) come round, a consumer attaches, and downstream gives buffers up.
\* Starting a call needs the mutex, so only weak fairness: std::sync::Mutex does
\* not promise a turn to a waiter that others keep overtaking.
Fairness ==
    /\ WF_vars(WriterStep)
    /\ WF_vars(DrainBegin)
    /\ WF_vars(ReaderStep)
    /\ WF_vars(AttachLoad)
    /\ \A latest \in LatestOnly : WF_vars(RecvHead(latest))
    /\ \A w \in Wraps : WF_vars(DropWrap(w))

FairTransportSpec == TransportSpec /\ Fairness

--------------------------------------------------------------------------------
(* Who answers for a live allocation, while clean. *)

\* The recycle positions whose id is still to be freed.
RecTaken == IF wpc = "drain_store" THEN rec_tail + 1 ELSE rec_tail

Owners ==
    {<<"lease", l>> : l \in {m \in Leases : lease[m] # None}}
        \cup {<<"ready", p>> : p \in taken .. ready_head - 1}
        \cup {<<"held", w>> : w \in {v \in Wraps : held[v] # None}}
        \cup {<<"rec", q>> : q \in RecTaken .. rec_head - 1}

OwnedId(o) ==
    CASE o[1] = "lease" -> lease[o[2]].id
      [] o[1] = "ready" -> ready[ReadySlot(o[2])].id
      [] o[1] = "held"  -> held[o[2]].id
      [] o[1] = "rec"   -> recycle[RecSlot(o[2])]

\* The payload a descriptor names is the frame it was published for.
Intact(d) == \A p \in Payload(d) : arena[p] = d.pts

HeldIntact == \A w \in Wraps : held[w] # None => Intact(held[w])

RingsBounded ==
    /\ ready_head - ready_tail \in 0 .. ReadyCap
    /\ rec_head - rec_tail \in 0 .. RecCap

--------------------------------------------------------------------------------
\* Type invariant of the header, the rings, the arena and both calls' locals.
TransportTypeOK ==
    /\ {ready_head, ready_tail, rec_head, rec_tail} \subseteq Nat
    /\ ready \in [0 .. ReadyCap - 1 -> Desc]
    /\ recycle \in [0 .. RecCap - 1 -> Nat]
    /\ arena \in [0 .. Total - 1 -> Nat]
    /\ lease \in [Leases -> Lease \cup {None}]
    /\ held \in [Wraps -> Desc \cup {None}]
    /\ wpc \in {"idle", "alloc", "drop", "reset_ready_tail", "reset_rec_head",
                "reset_rec_tail", "retry", "copy", "push", "slot",
                "drain", "drain_store"}
    /\ wreg \in [lease : Leases \cup {None}, size : Nat, publish : BOOLEAN, pos : Nat]
    /\ rpc \in {"detached", "attach", "idle", "rx_tail", "rx_drop", "rx_slot",
                "rx_read", "rx_take", "rc_spin", "rc_slot", "poisoned"}
    /\ rreg \in [latest : BOOLEAN, head : Nat, cur : Nat, chosen : Nat, newtail : Nat,
                 rec : Nat, desc : Desc, wrap : Wraps \cup {None}]
    /\ frames \in Nat /\ attaches \in Nat /\ taken \in Nat
    /\ clean \in BOOLEAN

\* Until the writer first drops or resets, both rings stay within capacity, so the
\* wrapping subtraction of publish_lease and recycle_desc is the queue length, and
\* no try_recv_latest_desc panics on head - 2, which would poison the reader mutex.
CleanRingsBounded == clean => RingsBounded /\ rpc # "poisoned"

\* Until then every allocation has at most one owner, and what an owner names is
\* live: no buffer is recycled twice or freed under a queued descriptor.
CleanSingleOwner ==
    clean =>
        /\ \A o \in Owners : OwnedId(o) \in DOMAIN used
        /\ \A o, q \in Owners : o # q => OwnedId(o) # OwnedId(q)

\* With one-byte frames, FIFO receives and no consumer death, an arena with room
\* for every lease, both rings, every buffer held downstream and a ring's worth
\* skipped at each attach never makes the writer drop or reset.
RoomSuffices ==
    /\ Sizes = {1} /\ Align = 1
    /\ LatestOnly = {FALSE} /\ ~MayCrash
    /\ Total >= Cardinality(Leases) + Cardinality(Wraps) + RecCap
                    + ReadyCap * (1 + MaxAttach)
    => clean

\* With no consumer, the rings are within capacity between two writer calls and
\* what is queued is readable, whatever the writer dropped and reset before: its
\* own stores cannot hurt it (the lease granted after a reset is its only one).
QueuedIntact ==
    wpc = "idle" =>
    /\ RingsBounded
    /\ \A p \in ready_tail .. ready_head - 1 :
         LET d == ready[ReadySlot(p)] IN Intact(d) /\ d.seq = p + 1

\* Every writer call ends, with no consumer too: "Sink never blocks for a consumer; when
\* the arena fills it drops the oldest ready frame", as the README has it.
SinkNeverBlocks == wpc # "idle" ~> wpc = "idle"

\* publish_lease waits in a full ready ring.
RingFullWait == wpc = "push" /\ ~HasRoom(ready_head, ready_tail, ReadyCap)

\* With no consumer the full ready ring is the only place where a writer call stays:
\* alloc_lease's loop of drops, its reset and a request larger than the arena all end
\* and let go of the writer mutex, which render, the GC thread and upstream all need.
BlocksOnlyOnFullRing == wpc # "idle" ~> wpc = "idle" \/ RingFullWait

\* Every drop of a downstream buffer ends: recycle_desc's spin lets go of the
\* reader mutex, which the source's receive needs.
FinalizerCompletes == rpc = "rc_spin" ~> rpc = "idle"

\* Both: no call of the sink stays for good beside an attached consumer, and no finalizer.
NobodyStuck == SinkNeverBlocks /\ FinalizerCompletes

\* publish_lease waits for room in the ready ring and keeps the GC thread out, a
\* finalizer waits for room in the recycle ring and keeps the source out: each
\* waits for the other for good.
MutualWait ==
    /\ RingFullWait
    /\ rpc = "rc_spin" /\ ~HasRoom(rec_head, rec_tail, RecCap)

\* While clean, the mutual wait is the only way a call under the writer mutex
\* (render, upstream allocation, GC) or under the reader mutex (attach, receive,
\* finalizer) fails to end with a consumer attached.
CallsEnd ==
    /\ wpc # "idle" ~> wpc = "idle" \/ ~clean \/ MutualWait
    /\ rpc \notin {"detached", "idle"} ~> rpc = "idle" \/ ~clean \/ MutualWait

\* While clean and but for the mutual wait, a frame in the ring of an attached
\* consumer is taken or skipped in the end.
FramesLeave ==
    \A n \in 1 .. MaxFrames :
        ready_head >= n ~> ready_tail >= n \/ ~clean \/ MutualWait

\* While clean and but for the mutual wait, the block of a buffer downstream held
\* is free again in the end: finalizer, recycle ring and drain return it.
HeldReturns ==
    \A id \in 1 .. MaxId :
        (\E w \in Wraps : held[w] # None /\ held[w].id = id)
            ~> id \notin DOMAIN used \/ ~clean \/ MutualWait

\* The refinement mapping: a frame counts as published once it is in the ring, what is
\* queued is what no reader has taken, and a frame that was altered shows as 0.
ChanPublished == IF wpc \in {"push", "slot"} THEN frames - 1 ELSE frames

ChanFrame(d) == IF Intact(d) THEN d.pts ELSE 0

ChanQueue ==
    IF clean
    THEN [i \in 1 .. ready_head - taken |-> ChanFrame(ready[ReadySlot(taken + i - 1)])]
    ELSE <<>>

ChanSlots == [w \in Wraps |-> IF held[w] = None THEN None ELSE ChanFrame(held[w])]

ChanAttached == rpc \notin {"detached", "attach"}

Channel ==
    INSTANCE FrameChannel WITH
        Capacity  <- ReadyCap,
        Slots     <- Wraps,
        Nothing   <- None,
        published <- ChanPublished,
        queue     <- ChanQueue,
        slots     <- ChanSlots,
        attached  <- ChanAttached,
        skipping  <- rreg.latest,
        ok        <- clean

\* The transport implements the channel: while clean, what downstream gets is
\* each frame once, in publish order and unaltered, with none skipped by
\* a FIFO receive.
ImplementsChannel == Channel!ChanSpec
================================================================================
