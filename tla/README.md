# Verification of shm2-rs

TLA+ models of shm2-rs (`src/`), the TLC runs that check them on small
instances, and TLAPS proofs. shm2-rs moves video frames between two processes
through one shared-memory region: `shm2sink` writes, `shm2src` reads, and
`shm2_relayd` relays one pipeline's output to clients.

## 1. Inventory

| Component | State | Operations | Talks to |
|---|---|---|---|
| `allocator.rs` free list | `free: Vec<(start,len)>`, `used: id -> (start,len)`, `next_id: u32` | `new`, `alloc`, `free_by_id` (with `insert_and_coalesce`) | owned by the Writer, under its mutex |
| `transport.rs` Writer | allocator; shared: `ready_head`, `rec_tail`, ready slots, arena; it also stores the reader's `ready_tail` and all four counters on reset | `create`, `alloc_lease`, `publish`, `publish_lease`, `free_lease`, `drain_recycles`, `drop_oldest_ready`, `reset_allocator_state`, timeline and startup words | Reader, through the region only |
| `transport.rs` Reader | shared: `ready_tail`, `rec_head`, recycle slots | `open`, `sync_startup_state`, `try_recv_desc`, `try_recv_latest_desc`, `recycle_desc`, `timeline_snapshot` | Writer, through the region only |
| `shm2sink.rs` | state lock, writer mutex, tracker (`pending_by_ptr`), GC thread | `start`, `stop`, `render`, `unlock`, `unlock_stop`, `propose_allocation`, upstream `alloc`, memory drop, GC loop | Writer; upstream threads |
| `shm2src.rs` | state lock, reader mutex, timeline state | `start`, `stop`, `create`, `unlock`, `unlock_stop`, `update_clock_sync`, `ShmReadWrap::drop` | Reader; downstream threads |
| `shm2_relayd.rs` | client count, input / splash / output pipelines, GLib main loop | accept, disconnect, `notify_client_count`, quit | TCP or vsock clients |
| `platform/*` | a mapped region, its handle | `resolve_backend`, create, open, drop | system calls |

What is hard in this code:

* two processes store the same counter: `ready_tail` is the reader's, but
  `drop_oldest_ready` and `reset_allocator_state` store it too, and `attach`
  stores a head it loaded earlier;
* three kinds of thread share each mutex, and both `publish_lease` and
  `recycle_desc` spin while they hold theirs;
* blocks of the arena have an owner that moves (lease, queued descriptor, held
  buffer, recycle entry) across both processes, and ids start over after a reset;
* a consumer may attach, die and attach again at any point;
* both elements outlive their sessions: upstream memories keep an old Writer and
  tracker, downstream buffers an old Reader, while a new one works on the same region;
* the element locks nest (state, tracker, writer; state, reader) around calls that
  may wait without end;
* the timeline words are read and written one by one with nothing to guard them;
* a create works in place on a region that others may have mapped;
* the relay counts on one thread and applies the count on another.

`PROJECT.json` lists each hazard at its line with the properties that cover it.

What makes each part correct: the allocator gives no byte out twice and fails
only when no room is left; the transport delivers each frame at most once, in
order and unaltered, and a frame stays unaltered while held; every block comes
back; no call waits for good; a memory frees its own lease only, in whatever session;
`stop` and `unlock` return; the source is not synchronised by a time of an ended
generation; a reader's rings and arena lie where the writer has them; the relay's input plays exactly while a client is
connected.

## 2. Modules

| Module | Models | Notes |
|---|---|---|
| `FreeListAllocator` | `allocator.rs` | the free list as a SET of blocks; `Alloc`, `FreeById`, `Renew` are reused as the allocator steps of `Transport` |
| `FreeListVec` | `allocator.rs` | the code's `Vec` loops (index scan, in-place split, stable sort, merge pass) in step with the set form; `VecAgrees` says they agree |
| `FreeListAllocatorProofs` | | theorems about the set form |
| `FreeListVecProofs` | | the loops compute the set form |
| `FrameChannel` | | abstract specification: a bounded channel of frames to a consumer that comes and goes |
| `Transport` | `transport.rs` with its callers in `shm2sink.rs` and `shm2src.rs` | Writer and Reader step by step; `Channel` is the refinement mapping to `FrameChannel` |
| `TransportProofs` | | types, ring bounds and one owner per allocation in `Transport`; how much room is enough; what is queued and held downstream is unaltered; `Transport` implements `FrameChannel`; the writer alone |
| `MCTransport` | | instance for TLC |
| `Sink` | `shm2sink.rs` | the element's threads, three mutexes, sessions on one region, memories; the Writer reduced to blocks, with the shared ready ring as a queue of ids and the recycle ring as a set |
| `Source` | `shm2src.rs` | the element's threads, two mutexes, sessions, finalizers; the recycle ring in full, with one Reader per session |
| `SinkProofs` | | locks, waits and owners of leases of `Sink` |
| `SourceProofs` | | locks, waits and exactly-once recycling of `Source` |
| `TimelineProofs` | | all that `timeline` checks |
| `RegionProofs` | | all that `region` checks |
| `Timeline` | timeline words of `transport.rs`, clock part of `shm2src.rs` | each load and store of a header word is a step |
| `Region` | `platform/*`, `Writer::create`, `Reader::open` | each system call, header store and header load is a step |
| `Relay` | `shm2_relayd.rs` | client accounting and pipeline switching |
| `RelayProofs` | | theorems about the relay |

`Transport` has the Writer and the Reader in full detail and their callers reduced to
who may call when; `Sink` and `Source` have one caller in full detail and the other
side reduced to what it returns; `Timeline` and `Region` have the header words
`Transport` does without.

### Transport: state and actions

`allocVars` is the Writer's allocator, `ready_head .. rec_tail`, `ready`,
`recycle` and `arena` are the region. `wpc`/`wreg` are the place and the locals of
the one call that holds the writer mutex, `rpc`/`rreg` those of the call that
holds the reader mutex. `lease` is what upstream memories (or `publish`) hold,
`held` the `ShmReadWrap`s downstream holds. `taken` and `clean` are history.

| Call in the code | Actions |
|---|---|
| `alloc_lease` | `AllocLease`, then `AllocGrant`, or `DropOldest`+`DropStore` and again, or `Reset`..`ResetRecTail` and `AllocGrant` or `Exhausted` |
| `publish`, `publish_lease` (render) | `PublishLease` or `AllocLease` with publish, `Copy`, `PushSpin`, `PushStore` |
| `free_lease` (memory drop) | `FreeLease` |
| GC thread, `drain_recycles` | `DrainBegin`, `DrainTake`, `DrainStore`, `DrainEnd` |
| `Shm2Src::start`, `sync_startup_state` | `AttachLoad`, `AttachStore` |
| `try_recv_desc` | `RecvHead`, `RecvEmpty` or `RecvFifo`, `RecvRead`, `RecvTake` |
| `try_recv_latest_desc` | `RecvHead`, `RecvLatest` or `RecvPanic`, (`SkipTry`, `SkipStore`)*, `SkipFull`, `RecvRead`, `RecvTake` |
| `ShmReadWrap::drop`, `recycle_desc` | `DropWrap`, `RecycleSpin`, `RecycleStore` |
| consumer process dies | `Crash` |

One action is one access to what the other process can write. A ring slot is
plain memory: while it is being written (`PushSpin` to `PushStore`, and likewise
for the recycle ring) a read returns any mix of old and new fields
(`ReadySlotReads`, `RecSlotReads`). Counter stores are release and loads acquire
in the code wherever the other side's data depends on them, so counters are
sequentially consistent here, in program order. A pair of loads of which one is
of a counter only the same side stores is one step.

Abstractions: payload bytes carry the number of the frame last written there;
`pts` stands for all per-frame descriptor fields (time stamps, flags); upstream's
writes into a lease come just before render hands it over; waits are guards (the
sleep between polls is left out); a failed bounds check ends the receive (the
element then reports an error and stops receiving only if the application stops
it). Metrics (`arena_used_bytes`, watermark, `alloc_failures`) are left out.
The tracker's `pending_by_ptr` is keyed by address and `lease` by memory: the two
agree while upstream drops each published memory before its block is leased again;
`Sink` has the table as it is.

`clean` says that the writer has neither dropped a queued frame nor reset, and
that no id was reused while live. These are the promises the code makes only
until the arena first overflows under an attached consumer; sections 3 and 4 say
what is left after that.

### Sink: state and actions

A session is what one `start` makes. `r`/`buf`/`rs`/`rlease` are place and locals of
render, `up`/`um` of the upstream thread, `gc` of each GC thread, `app` of the
application's state changes; `mem` says what each upstream memory was made from.

| Code | Actions |
|---|---|
| `render` | `RenderCall`, then `RenderLock` (state, unlocked?, allocator, tracker) or `RenderFlushing`, `RenderMark`, then `RenderFastWriter`, or `RenderCopyWriter` with `RenderGrant` / `RenderDrop` / `RenderReset` and `RenderWake` after `Exhausted`; `RenderPush` |
| `propose_allocation`, `ShmArenaAllocator::alloc` | `ProposeAllocation`; `UpAlloc`, `UpWriter`, `UpDropOldest` / `UpReset`, `UpGrant` or `UpExhausted` (a request larger than the arena) |
| `ShmWritableMemory::drop`, `release_unpublished` | `UpDrop`, then `UpDropNothing` or `UpDropTracker`, `UpRelease` |
| GC thread | `GcCheck` (the stop flag), `GcDrain` (the writer mutex and one drain, also when it was told to stop meanwhile) |
| the consumer | `Consume` |
| `start`, `unlock`, `unlock_stop`, `stop` | `Start`, `CallUnlock`, `Unlock`, `UnlockStop`, `FlushStop`, `Stop`, `StopJoined` |

That the base class calls `unlock`, waits for render, then `unlock_stop` and `stop` is
external. Upstream may keep using the allocator of an ended session; whether it does is
its own choice.

The region is one: `ring` and `back` are its ready and recycle ring, whichever session
works on it. `Start` erases both, as `Writer::create` does. The Writer of an ended
session, which upstream's memories keep alive, works on the same rings: `DropOldest`
takes the oldest entry whoever queued it and frees its id in the dropping session's
allocator, `ResetArena` empties the rings and one session's allocator, and `Grant`
leases from this session's allocator addresses that the other may have leased as well.
What a Writer does to a ring in one pass of a loop is one step, and so is `Consume`, which
takes a frame and gives it back; `Transport` has both step by step, and a consumer that
still holds a frame.

`clean` is per session. It ends when the session resets, when an entry of its rings is
dropped, erased or taken by another session's Writer or by the next `start`, and when it
leases a block while an earlier memory of that address is still alive (then the table
names the newer one, and dropping either frees the newer lease). Section 4 says
what happens then. No call that needs a lease begins once no
session is clean or `MaxLeases` have been given out (`MayLease`), which ends runs where
nothing is claimed any more.

### Source: state and actions

`c`, `cs`, `cid`, `ccur`, `clen` are place and locals of `create`, `fin` the finalizer
each thread runs, `pos` the head a push has loaded, `held` the buffers downstream.

| Code | Actions |
|---|---|
| `create` | `CreateCall`, `CreateBegin`, `CreateCheck` (unlocked?), `CreateMode` (takes the state mutex), `CreateLock` (takes the reader's and lets the state go), `RecvEmpty` / `RecvFifo` / `RecvLatest`, `SkipLoad`, `SkipStore` / `SkipFull`, `RecvChosen`, `CreateStamp`, `PushKept` / `PushDropped`, `CreateDropped`; `CreateFlushing` |
| `ShmReadWrap::drop` | `DropWrap` (downstream) or `PushDropped` (streaming thread), `FinLock`, `FinSpin`, `FinStore` |
| `start`, `unlock`, `unlock_stop`, `stop` | `Start`, `CallUnlock`, `Unlock`, `UnlockStop`, `FlushStop`, `Stop` |
| the sink's side | `Publish`, `Drain` |

`clean` ends when pushes of two sessions overlap: each session has its own mutex,
the recycle ring only one head. `RecycledOnce` fails without that condition.

### Timeline: state and actions

`Publish` and `MaybePublish` are the end of `publish_lease`, `ForceGen` .. `ForceValid`
the stores of `force_timeline_snapshot`, `ResetGen`/`ResetValid` the end of
`reset_allocator_state`; `AttachTail` .. `AttachSnap` are `start`, `Receive`,
`LoadField` and `Stamp` are `create`, `Detach` is `stop`, `DropOldest` is
`drop_oldest_ready`. `Receive` chooses whether the recycle ring had room for what a
latest-only receive passes over: `dropped` is what the code counts, the entries that
`try_recycle_desc` took, and `skipped` is history, whether any were passed over. A time or pts is the number
of the snapshot it was stored for, which is what a mix of two snapshots is told by;
the offset and its slew (functions of local clocks) are left out. `MixedIsCorrected`
says what the order of the loads buys: `seq` is loaded first, so a mix has newer
fields under an older number and the next frame loads again. The source's comment
("avoid visible jumps") covers only the offset: the part
`sink_mono_at_snap - producer_pts_at_snap` of a stamp is replaced at once.

### Region: state and actions

One path (or one file and the device that shows it to a guest), one sink that creates,
one source that opens. `CreateCall` .. `CreateDone` are `Writer::create` with the back
end's create, `map_layout`, `write_bytes` and `init_header`; `OpenCall` .. `OpenDone` are
`Reader::open` with the back end's `open` and `validate_header`; `DropWriter` and
`DropReader` are the back ends' `Drop`. The places follow each back end's own order:

| Back end | create | open |
|---|---|---|
| posix | open, truncate, map, layout | open, stat, map, load |
| named | open, map, measure (`VirtualQuery`), layout | open, map, check (`VirtualQuery`), load |
| ivshmem | refused | open, stat (`REQUEST_SIZE`), map (`REQUEST_MMAP`), check (size compared), load |

`CreateFail` and `OpenFail` are the early returns at these places, each with what it gives
back: from "measure" and "check" on there is a view to unmap or release. `OpenBadMap`
is the one path that does not: the ivshmem driver has mapped and its answer is refused, so
the handle is closed without a release. `left` counts these.

Header words are plain memory: stores of a create and loads of an open happen in any
order (`todo`). Words that are the same for each create are one word (magic, versions and
entry sizes `magic`; both ring capacities `capacities`, which receives and recycles load
again). A create with a size for which there is no arena fails after `ftruncate`, and
what is cut off reads 0 when the file grows again. Every create stores epoch 1 and no
code loads it: it is left out.

### Relay: state and actions

`Accept` (`fetch_add`) and `AcceptNotify` (`notify_client_count`) are the listener
thread, `Close` and `CloseNotify` each connection's thread, `SwitchInput`,
`SwitchSplash` and `Quit` the main loop. `invoked` is the main loop's queue. The
count handed over is the local `current` of each thread (`told`). Invocations
before `main_loop.run()` would run on the calling thread; GLib lets one thread at
a time own the context, so they too run one after the other.

## 3. Runs that pass

| Run | Question | Bounds |
|---|---|---|
| `free_list_vec` | Is any byte given out twice, does `alloc` fail only for lack of room, do the loops compute what the set form says? | 8 bytes, alignment 2, sizes 0, 1, 3: unaligned starts, zero-length blocks, up to five free blocks; 3 ids, so ids wrap onto live ones |
| `transport_pressure` | What holds until the first drop or reset, in both modes, with a dying consumer, and is the transport until then the frame channel? | 3 ready slots (a latest-only receive skips, takes and keeps one), 2 recycle slots, 4 blocks, 6 frames, 2 attaches: ring full, drop, reset and the underflow are all reached |
| `transport_live` | Under fair threads, does everything move on except in the mutual wait? In FIFO mode, is `Leases + Wraps + RecCap + ReadyCap * (1 + MaxAttach)` blocks enough never to drop or reset (`RoomSuffices`)? | one slot per ring, 1 lease, 1 buffer, 1 attach, 6 frames: the mutual wait is reached, and so is an allocation with every other block taken; one block less and it is reset |
| `no_consumer` | With no consumer, is what is left queued readable after drops, resets and failed oversize requests, and is the full ready ring the one place where a call stays? | 3 ready slots, 4 bytes, requests of 1, 2 and 5, 5 frames: with requests of 1 the ring fills first, with 2 the arena does, 5 is larger than the arena |
| `sink` | Does each memory publish its own lease, is no lease of a clean session lost or owned twice, do calls ever wait for each other in a circle? | 2 sessions on one region, 2 memories, 2 blocks, 1 ready slot, 2 leases: memories of the first session allocate, drop from and reset the ring the second works on |
| `sink_live` | Do `unlock`, `stop` and upstream's calls return? | 2 sessions, 1 memory, 1 block, 1 ready slot, 2 leases: every call meets a full arena, a full ring and every mutex taken |
| `source` | Is every frame recycled once across stop and start, do calls ever wait for each other in a circle, and do `unlock` and finalizers return? | 2 sessions, 3 frames, 3 ready and 2 recycle slots: finalizers of both sessions, streaming and downstream, wait for room; the recycle ring starts empty or full (an earlier consumer's entries, not yet drained), so a latest-only receive also gives up on what it skips |
| `timeline` | What does unguarded reading and writing of the timeline words leave right? | 3 ready slots, 4 frames, 1 reset, 2 attaches: every load can fall on either side of two snapshots and a generation change, and a latest-only receive passes a frame over with and without room to recycle it |
| `region` | On each back end and with every call failing, does anything leak, and are a reader's offsets the writer's? | 2 creates under 2 opens, 4 sizes: below the header, below the arena, not whole pages, whole pages; 7.8 million states |
| `relay` | Do the pipelines follow the count, with one feeder at a time? | 2 clients, 4 connections |

Why small bounds do: the code compares counters only by difference and slots by
remainder, so a ring that fills, empties and wraps a few times meets every case;
with two or three blocks beyond the rings each owner kind holds one at once.
`MaxFrames`, `MaxAttach`, `MaxAllocs`, `MaxPos` and `MaxAccepts` only end runs.
`MaxPos` bounds a reader whose tail has passed the head (after a stale store it
would go round the ring for 2^64 entries).

`ImplementsChannel` maps the receive mode to `skipping`, the queue to positions
`taken .. ready_head-1`, each to its frame if the arena still shows it. It says that,
while clean, frames are delivered in publish order, at most once and unaltered, that a FIFO receive skips none,
and that a frame stays unaltered while held.

Properties that only count `clean` behaviour are named `Clean...`.
`CleanSingleOwner` is the heart: each live block is named by exactly one of lease,
queued descriptor, held buffer and unfreed recycle entry, so nothing is freed
twice or under a reader.

Fairness (`FairTransportSpec`): a call under way goes on (`WriterStep`,
`ReaderStep`: threads run); the GC loop and the source's polling loop come round
(`DrainBegin`, `RecvHead`); a consumer attaches while it may; downstream gives
buffers up. Only weak fairness: `std::sync::Mutex` does not promise a waiter its
turn. Upstream and clients owe nothing. `RelaySpec`: threads and main loop go on.

`FairSourceSpec`: a thread that can go on does; strong fairness only for `unlock` against
create's loop and for a finalizer against create's, which sleep with the mutex free
(millisecond sleeps against a wait for a mutex). `FairSinkSpec`: as well, and a thread
that waits for a mutex which is free again and again gets it (strong fairness for
render, upstream, `unlock`, the end of `stop` and the GC thread's drain): whoever takes
one over and over lets go of it in between, render and the GC thread for a sleep. That
is more than `std::sync::Mutex` promises, and less than a queue of waiters.
The consumer, upstream, downstream and, in `Source`, the sink's GC thread owe nothing:
hence the exceptions `Spinning` and `~Room` in the properties. `UpstreamReturns` has two
more: render asleep in its retry loop with the writer locked (`r = "sleep"`), and
`Emptying`, an ended session's allocation that empties the shared ring while render, under
the other Writer's mutex, fills it again. `timeline` and `region` need no fairness.

## 4. Runs that find a violation

| Run | The repository says | What the code does |
|---|---|---|
| `held_overwritten` | design :363, the sink keeps the allocation reserved until the ack | a reset gives the block of a held buffer to the next frame |
| `finalizer_deadlock` | design :694, the finalizer must avoid deadlock; README :194, :26, the sink never blocks for a consumer | publisher and finalizer wait for each other's ring, each holding the mutex of the thread that would empty it (`MutualWait`), for good: `NobodyStuck` is both statements, and the one trace breaks both |

"design" is `src/docs/SHM_ONLY_GST_DESIGN.txt`. `transport_live` is the other half of the
second: the mutual wait is the only way a clean transport stops.

Six more statements are false of the code and have no run of their own. Each is in its
module; added to the cfg named here, TLC finds it violated within a minute. What
holds in their place is a property of a passing run.

| Statement | Added to | The repository says | What the code does | What holds |
|---|---|---|---|---|
| `SinkNeverBlocks` | `NoConsumer.cfg` (PROPERTY) | README :194, :26 | with room in the arena and no consumer `publish_lease` waits for a ready slot for good (the default: 64 MiB for 4096 slots) | `BlocksOnlyOnFullRing` |
| `QueuedBlockReserved` | `Sink.cfg` | design :363, :219, reserved until the ack, by a single producer | an ended session's Writer leases the block of a frame the new session has queued, from an allocator of its own | `OneOwnerPerLease` |
| `DropFreesOwnLease` | `Sink.cfg` | design :702, unpublished leases are returned on memory drop | a published memory's late drop frees the lease of the memory that has its address now | `OneOwnerPerLease` |
| `DiscontOnDrop` | `Timeline.cfg` | `src/docs/SHM2_LIVE_SYNC_DESIGN.md`:81, DISCONT if any frames were dropped | with the recycle ring full a latest-only receive passes frames over, counts none and sets no DISCONT | `DiscontPerGeneration` |
| `CapacityStands` | `Region.cfg` | design :407, :408, the source detects a re-initialisation by the epoch | a create erases the header under an attached Reader, whose next receive may load capacity 0 and divide by it | `ReaderMapsRegion` |
| `InputFollows` | `Relay.cfg` | README :96, :118, the input follows connect and disconnect | counts handed over in the other order leave the input in the wrong state | `SerialInputFollows` |

One more divergence is not stated as a formula: design :411 says that head-tail distance
is validated, but `sync_startup_state` stores a head that `drop_oldest_ready` may have
passed, and nothing notices (`CleanRingsBounded` needs `clean`).

## 5. Proofs

Assumptions on the constants, all evaluated by the runs: `AllocatorAssumption` (the
arena size and every request are naturals, the alignment and the last id positive),
`TransportAssumption` (rings have a slot and capacities below the counters'
modulus), `NoneAssumption` (`None` is no descriptor and no lease),
`SinkAssumption` (a ready slot, a block, a session; `None` is no memory, place or
lease), `SourceAssumption` (positive bounds; `None` is no position, thread or finalizer),
`TimelineAssumption` (capacity and bounds are naturals), `RegionAssumption` (sizes are
naturals, page, header and descriptor sizes and capacities positive; `None` is no
Reader), `RelayAssumption` (finitely many clients, the listener is none of them).

| Theorem | Says, for every value of the constants |
|---|---|
| `FreeListAllocatorProofs!TypeCorrect` | blocks and ids stay in range; 0 is never an id, however often ids wrap |
| `FreeListAllocatorProofs!NeverOverlaps` | no byte is given out twice, or offered while in use, and no block leaves the arena |
| `FreeListAllocatorProofs!AllocNeverGivesUp` | `alloc` fails only when no aligned stretch of free bytes is long enough, whatever was freed in what order |
| `FreeListAllocatorProofs!NoByteLost` | no step loses a byte of the arena, but for an id given out again while it is live |
| `FreeListVecProofs!VecAgreesCorrect` | the code's `Vec` is the set form in order, so all of the above holds of the loops |
| `TransportProofs!TransportTypeCorrect` | counters, slots, arena and both calls' locals stay well typed, torn reads, resets, a dying consumer and a reader past the head included |
| `TransportProofs!CleanRingsCorrect` | while clean, both rings stay within capacity and no receive underflows |
| `TransportProofs!SingleOwnerCorrect` | while clean, leases, queued descriptors, held buffers and unfreed recycle entries name live allocations, no two the same |
| `TransportProofs!CleanHeldCorrect` | while clean, no byte of a buffer downstream changes |
| `TransportProofs!ChannelImplemented` | `Transport` implements `FrameChannel` |
| `TransportProofs!RoomSufficesCorrect` | with room for every owner the arena is never found full: nothing is dropped or reset |
| `TransportProofs!QueuedIntactCorrect` | without a consumer all that is left in the ring is readable, whatever was dropped and reset |
| `SinkProofs!SinkTypeCorrect` | in the sink, each mutex is held by the call whose place says so, over any number of sessions and memories |
| `SinkProofs!OneOwnerPerLeaseCorrect` | in a clean session (section 2 says what ends one, the Writer of an ended session included) every live lease has exactly one owner: none is lost and no drop frees another's |
| `SinkProofs!PublishesOwnLeaseCorrect` | the fast path publishes the lease its buffer's memory was made from |
| `SinkProofs!SinkWaitsEndCorrect` | render, upstream, the state changes and a joined GC thread never wait for each other in a circle |
| `SourceProofs!SourceTypeCorrect` | in the source, each mutex is held by the call whose place says so, over any number of sessions |
| `SourceProofs!RecycledOnceCorrect` | until two sessions push at once, each frame is in one place, and freed once, or was skipped |
| `SourceProofs!SourceWaitsEndCorrect` | `create`, finalizers and state changes never wait for each other in a circle |
| `TimelineProofs!TimelineTypeCorrect` | no snapshot is of a generation that has not begun |
| `TimelineProofs!MixedIsCorrectedCorrect` | time and pts are never older than the number they are used with, and a mix does not outlast the writing of the newer snapshot |
| `TimelineProofs!SyncedInGenerationCorrect` | the source is synchronised by no snapshot of an ended generation, two windows excepted |
| `TimelineProofs!DiscontPerGenerationCorrect` | every live frame follows a DISCONT of its generation; a receive that passes frames over need not set one (section 4) |
| `TimelineProofs!SnapshotFollowsFrameCorrect` | after a publish its generation has a valid snapshot, unless an attach cleared it |
| `RegionProofs!RegionTypeCorrect` | no layout without room for an arena is ever written |
| `RegionProofs!NothingLeaksCorrect` | handles and views are what is needed, failures before and after the mapping included; mappings whose answer from the driver was refused, closed without a release, are counted apart |
| `RegionProofs!ReaderMapsRegionCorrect` | a Reader no create overlapped has the Writer's layout and capacities, inside its mapping |
| `RegionProofs!OpensAfterCreateCorrect` | after a create that succeeded an open accepts the header |
| `RelayProofs!CountCorrect` | the shared count is the number of connections counted in and not out |
| `RelayProofs!OneFeederCorrect` | one of input and splash plays, in whatever order counts arrive |
| `RelayProofs!SerialInputCorrect` | counts that do not overlap leave the input as the count says |

The allocator: `AlignUpBounds` and `RemainderFacts` say that an aligned request that
fits lies inside its block and that what is put back is the rest of that block and
misses it. `CoalesceFacts` says that merging adds no byte, leaves every end where
some block's end was, and that two merged blocks that differ are disjoint.
`NoOverlap` is inductive once `TypeOK` is known (bytes of a block are an interval of
naturals); one lemma per operation (`AllocNoOverlap`, `FreeNoOverlap`,
`RenewNoOverlap`) carries it. `AllocNoOverlap` does not need the new id to be
unused: an id that wraps onto a live one loses a block and never doubles one.
`AllocComplete` follows from `Merged`: two free blocks touch at most where a request
of size 0 was carved out, and no aligned request begins in the first of these
(`AlignUpLeast`), so an aligned free stretch lies in one block. Carving keeps this
(`AllocMerged`); freeing merges all that touches, by the last part of `CoalesceFacts`.

`NoByteLost` needs the other direction, that merging drops no byte (`CoalesceCovers`):
every byte of a set of blocks lies in a run, which begins at the least start, and ends
at the greatest end, that is reached from the byte without a gap (`RunBegins`,
`RunEnds`). These exist by `LeastNatural` and `GreatestNatural`: a non-empty set of
naturals has a least element, and one with a bound a greatest. They are the only form
of induction here, over a set of naturals instead of a predicate.

The loops: `VecAgrees` is inductive with `TypeOK` and `Merged`. `ScanFindsFirstFit` says
that the first fitting index holds the fitting block with the least start; in
`AllocAgrees` the parts around it, the gap and the tail are put together in order
(`InOrder`), for which `Merged` is needed: an empty free block inside another would be
out of order, and `NoOverlap`, which speaks of bytes, allows one. For `free_by_id`,
`OrderExists` gives the order the stable sort chooses (of a sorted list with one block
pushed) and `SortFacts` that it keeps every block. `PassExists` and `PassTurns` unfold
the merge pass, a recursive function, by the least length for which it would fail.
`Passed` is the loop invariant: the merged list is in order with a gap between its
blocks, each is a run of the blocks that have passed, and these lie inside it. A turn
keeps it (`TurnKeeps`), and after the last it leaves nothing but the runs
(`PassedIsCoalesce`).

The transport, types: `TransportTypeOK` alone is not inductive. `TypeInv` adds the
allocator's `TypeOK`, that a call allocating or publishing names a memory, and that
from the copy on this memory has its lease, without which `Published` would read
fields of `None`. It is split by owner (`HeaderOK`, `RegionOK`, `WriterOK`,
`ReaderOK`, `HistoryOK`), so that a step of one side changes one part.
`ReadySlotType` shows that a read of a slot under write, any mix of old and new
fields, is a descriptor; `ChosenType` that `head - 2` is a counter value even when
it wraps. `StepType` has one step per action, and uses the allocator's lemmas by
name wherever the writer allocates, frees or resets.

The transport, ring bounds: a bound on `head - tail` alone is not inductive, as
each side stores a counter from positions it loaded earlier. `RingInv` says where
these lie: `wreg.pos` at the head while a slot is written, `rreg.rec` at the
recycle head, the head a receive or an attach loaded between tail and head, and so
the `newtail` it will store. Loaded heads may be old but only in the safe direction: the other side
alone moves the other counter, and only so as to make room.

The transport, owners: `OwnerInv` adds, while clean, that what the reader has taken
lies between tail and head (`Positions`), that the descriptor in its hands is the
one in the slot or buffer it is moving (`Remembers`), and that leases and queued
descriptors lie in the arena (`InArena`, as a receive that failed its bounds check
after it had recycled older entries would recycle them again). `SingleOwner` is
`CleanSingleOwner` over triples (kind, place, id), which makes each step an
addition, a removal or a move of one triple. `SlotsDiffer` (positions less than a
capacity apart have different slots) is why a slot written is nobody's, and
`ReadNotTorn`, `RecReadNotTorn` why no read inside the bounds is torn.

The transport, contents: `ContentInv` adds, while clean, that the descriptor each owner
has names exactly its own block in `used` and that what is queued or held is intact
(`Content`), so that by `NoOverlap` (`Apart`) the one step that writes payload, `Copy`,
reaches nobody else's bytes; that the frame at ready position p is number p + 1
(`Numbered`); and that a receive takes what it chose and passes entries over only
when it is latest-only (`Reading`).

The transport, refinement: with these, the refinement mapping amounts to counters
(`Mapping`): `ready_head` frames are published, frames `taken + 1` to `ready_head` are
queued. `WriterSimulates` and `ReaderSimulates` match steps: `PushStore` is
`Publish`; `AttachStore`, `SkipStore`, `RecycleStore`, `Crash` are `Attach`,
`SkipOldest`, `Release`, `Vanish`; `RecvTake` is `Deliver`, or `DeliverLater` if the
receive gave up on older entries; every other clean step stutters.

The transport, room: `RoomSufficesCorrect` supposes finite sets of leases and buffers
and `MaxAllocs < MaxId`, so that no id comes back while it is live. `RoomInv` says,
under the numbers of `RoomSuffices`, that the transport is clean, that every live id
belongs to a lease, a queued or recycled descriptor, a buffer or the receive under way,
or is among those lost (`Accounted`, `Lost`), that lost ids are at most a ring's worth
for each attach there has been (`LostFew`: a FIFO receive passes over nothing, and what
an attach skips fits the ring), and that free and live blocks cover the arena (`Whole`,
from the lemmas of `NoByteLost`). `AccountedFew` counts the owners; so while a lease is
still to be granted some byte is free (`RoomLeft`), and a free byte is a block that fits
a request of one. `Alloc` therefore never fails and `clean` never ends.

The transport, writer alone: `QueuedIntactCorrect` supposes what its run has, no attach
(`MaxAttach = 0`) and one memory, with ids that do not wrap. With two memories it is
false (TLC finds a state): a reset made for one would leave the other's lease naming a block that is given
out again. Nothing is clean here, so `ContentInv` does not help; `Alone` says that every
entry left in the ring still has its own block, since the writer frees the block of an
entry one step before it drops it and frees it only then (`LeftAt`), resets an empty
ring only and only to grant a lease to a memory that has none, and gives out ids in
order (`NewIds`).

The source: `TypeInv` is `SourceTypeOK` by owner of the state (`RingsOK`, `StateOK`,
`CreateOK`, `RecvOK`, `FinOK`, `LocksOK`) with what makes it inductive: where `create`
has which locals, that the state changes are past a flush only with `create` idle, and
that exactly the calls between load and store of a push have a loaded head.
`RecycledOnce` counts places; `OneToken` says the same with one token per id, so that a
step moves a token (`TokenMoves`) or takes queued ids out with theirs (`TokensGo`).
`QueueInv` gives the ids queued, and that the ones a receive leaves to nobody are still
before its choice. `RingInv` holds while clean: a pusher holds its reader's mutex
(`PusherLocks`), so a second pusher is of another session (`OnlyPusher`), which ends
`clean`; hence a stored head is never an old one and the slot written is nobody's
(`RingGains`). `TokensCount` goes back to cardinalities.

The sink: `TypeInv` is `SinkTypeOK` by owner of the state (`WriterOK`, `TableOK`,
`StateOK`, `MemsOK`, `RenderOK`, `LocksOK`) with what makes it inductive: where a call
has which locals, that the memory of the buffer in render is not dropped, and that the
table entry a release has found stays, since it holds the tracker. `LocksHeld` says
of each mutex at which places it is held. For the leases, `Owned` relates the plain
values of one session: its live ids are the disjoint union of the queued ids, the
recycled ids, the lease in render and the leases of the unsent memories; these
memories have different addresses, and the table maps exactly their addresses to their
leases. The rings are shared, but what is in them is the latest session's (`RingOf`,
`BackOf`), so `SessionOK` states `Owned` of each clean session with the rings for the
latest and empty ones for the others; a step of an ended session's Writer on a ring that
is not empty ends the latest session's `clean`. The last part of `Owned` is why a look-up by
address finds the memory's own lease. Each
operation on leases has a lemma about `Owned` alone (`OwnedGrantRender`,
`OwnedGrantMemory`, `OwnedTail`, `OwnedDrain`, `OwnedPush`, `OwnedMark`,
`OwnedRelease`, `OwnedForget`), which `LeasesStep` uses for the session a step works in;
a grant at the address of a live memory ends `clean`. `BufferInv` carries the marked
lease from `RenderMark` to `RenderPush`.

Waits: `WaitsFor(x, y)` says that call x is at a place where it takes a mutex that y
holds, joins y or, for `create` that drops its own buffer, runs y. That these waits form
no circle is the part of `UnlockInterrupts`, `StopReturns`, `UpstreamReturns`,
`CreateInterrupts` and `FinalizersReturn` that needs no fairness, and it holds of both
elements in all sessions at once. `WaitsAre` reads off the lock invariants who can wait for
whom, and at which places. In the source the state changes wait for `create`,
`create` for a finalizer, and a finalizer only for a call that is `Free`, that is waits for none
(`FinalizerWaits`): three waits are the most. In the sink render and upstream wait for each
other, but at different places of each; `SessionOK` says that render is out of the way from
`unlock_stop` on and that `stop` has told the thread it joins to end, so after two
waits comes a free call (`TwoWaits`). A free call may still spin: the source's on a full
recycle ring, the sink's render on a full ready ring; that is what the exceptions in
the liveness properties name.

The timeline: nothing guards the words, so the invariants say place by place how far a
word, or a field loaded earlier, may lag. `Generations` orders `last_gen`,
`snapshot_gen`, `wgen` and `timeline_gen`; `Numbers` says that time and pts are one
ahead of `timeline_seq` between their stores. `InStep` relates a number to a time loaded
after it and is kept by every step of the writer (`InStepKept`), so `Loaded` carries it
from the loads (`LoadSteps`) through the stamp (`StampSteps`) into `ts`. `DiscontInv`
needs that the generation is loaded after the frame was taken; `FollowsInv` that
`last_gen` names the present generation once a publish for it has returned;
`SyncedInv` that a valid snapshot is of the present generation outside the two windows
`overlap` and `stale` record.

The region: `HeldInv` is `NothingLeaks` with what makes it inductive: a call in a
place past its open has a handle, and a view past its map, the places "measure" and
"check" included (`HasHandle`); `OpenBadMap` moves a view the call never had to `left`. So a close that
removes a named object finds nobody who has it open (`ClosingStep`). `HeaderInv` says
that a header is zero or the words of one layout (`Intact`), unless a create is between
erasing and writing it or a cut is not yet made good, and that `init` has stored the
words it has passed. `LoadInv`: an open no create overlaps loads from a header that
stays; with `Intact` what it accepted is a layout of its own length. `SizeInv` (a
stored `arena_size` fits the object, `Sized`) and `ReaderInv` carry this through later creates, which may erase or rewrite `arena_size`
but, unless they resize, to no more than fits. `LayoutInOrder` and `LayoutWords` are the
arithmetic of `map_layout` and of the header's words.

The relay: `RelayInv` adds that half way through an invocation the input already
follows its count (`HalfWay`), and, while no changes overlap, that the one count
still to be handed over, or else the newest queued, or else the one applied, is the
present count (`Newest`).

## 6. Only model-checked, and not modelled

Only model-checked: everything about liveness (`CallsEnd`, `FramesLeave`, `HeldReturns`,
`BlocksOnlyOnFullRing`, `UnlockInterrupts`, `StopReturns`, `UpstreamReturns`,
`CreateInterrupts`, `FinalizersReturn`, `IdleInputStops`), which needs fairness and
ENABLED; of the elements' five, `SinkWaitsEnd` and `SourceWaitsEnd` are the proved part.
Every invariant and every action property of a passing run is proved. The
violated ones of section 4 are TLC's: a counterexample is the proof.

Not modelled, by component:

* relay: argument parsing, pipeline construction, the appsink-to-appsrc bridge
  (GStreamer calls without state of their own); plugin registration and GObject
  properties; the test binaries, single-threaded users of modelled calls;
* transport: startup words and `set_startup_state`, which nothing in `src/` reads
  or calls; `recv_blocking`, a loop of the modelled receive that only a test binary
  uses; `timeline_ready_head`, which only `emit_timeline_snapshot`, without a caller,
  stores; metrics; the counters of a Reader whose ring is re-initialised by a second
  `Writer::create` (`Region` has the create itself and the capacities a receive loads
  again; creates with different capacities are not modelled);
* source: the arithmetic of clock offset and slew, and 64-bit overflow of time
  stamps: no control flow depends on their values except the choice of the first
  snapshot, which `Timeline` has;
* weak memory beyond sequential consistency of the counters:
  `reset_allocator_state` uses relaxed stores, which another order could make
  visible; the model stores them in program order.

## 7. Plan

Done: the allocator in both forms, the transport with its runs and the frame
channel, the element modules `Sink` and `Source`, `Timeline`, `Region`, `Relay`;
proofs of all invariants and action properties of the passing runs and that `Transport`
implements the frame channel and the loops of the allocator its set form.

Left, in this order:

1. The counters of a Reader on a ring that a second `Writer::create` zeroes under it, step
   by step in `Transport` (`CapacityStands` has its capacities only), and creates
   with other capacities.
2. That no state of `Transport` but `MutualWait` stops both sides, as an invariant that
   can be proved, as the two element modules have it of their mutexes.
