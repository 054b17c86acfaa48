---------------------------------- MODULE Sink ----------------------------------
(***************************************************************************)
(* The shm2sink element: the locks, the sessions between start() and       *)
(* stop(), and the table that says which upstream memory has which lease.  *)
(*                                                                         *)
(* Four kinds of thread: the streaming thread in render (r), the           *)
(* application's state changes (app), an upstream thread that allocates    *)
(* and drops memories (up) and the GC thread of each session (gc).  Three  *)
(* mutexes: the element's state, a session's tracker (the allocator's      *)
(* Option around it is only ever taken just before it) and a session's     *)
(* writer.  A session is what start() creates: writer, tracker, allocator, *)
(* GC thread; upstream memories keep its tracker and writer alive.  The    *)
(* region is one for all sessions: every start() creates it anew in place, *)
(* and the Writer of an ended session still drops from its rings, resets   *)
(* them and leases its arena from an allocator of its own.                 *)
(*                                                                         *)
(* Transport models the Writer in detail.  Here it is what the element     *)
(* needs: blocks of one size, first fit, the ready ring as a sequence of   *)
(* ids and the recycle ring as a set, and what a Writer does to a ring in  *)
(* one pass of a loop is one step.                                         *)
(***************************************************************************)
EXTENDS Naturals, Sequences, FiniteSets, Functions

CONSTANTS Mems,      \* upstream memories alive at once
          Blocks,    \* blocks in the arena: addresses 1 .. Blocks
          ReadyCap,  \* ready_capacity
          MaxStarts, \* bound: calls of start()
          MaxLeases, \* bound: leases handed out in all sessions, and one call more
          None

Sessions == 1 .. MaxStarts
Ptrs     == 1 .. Blocks
Ids      == Nat \ {0}

\* What an upstream memory is made from.
Leased == [s : Sessions, ptr : Ptrs, id : Ids]

ASSUME SinkAssumption ==
    /\ {Blocks, ReadyCap, MaxStarts, MaxLeases} \subseteq Nat \ {0}
    /\ None \notin Mems /\ None \notin Nat
    /\ None \notin {"render", "up", "app", "gc"}
    /\ None \notin Leased

\* What render may be called with: a buffer that is one whole upstream memory, one
\* that shows part of it, a foreign buffer (or one of several memories, which is
\* treated alike), and a foreign buffer larger than the arena.
Buffers == [kind : {"whole", "part"}, mem : Mems]
               \cup [kind : {"foreign", "large"}, mem : {None}]

NoBuffer == [kind |-> "none", mem |-> None]

VARIABLES
    cur,       \* state.writer and state.allocator: a session, 0 when None
    starts,    \* sessions started so far
    unlocked,  \* state.unlocked
    stateLock, trackerLock, writerLock,  \* who holds each mutex
    pending,   \* session -> address -> id: AllocTracker.pending_by_ptr
    live,      \* session -> id -> address: the writer's allocator
    next_id,   \* session -> its next id
    ring,      \* the region's ready ring: ids queued for the consumer
    back,      \* the region's recycle ring: ids given back
    mem,       \* upstream memory -> the session, address and id it was made from
    sent,      \* upstream memories that render has published as they are
    nego,      \* the session of the allocator upstream was offered, 0: none
    app,       \* place of the state changes
    flushing,  \* the base class has no more calls of render
    r, buf, rs, rlease,  \* render: place, buffer, session and lease
    up, um,    \* upstream's call: place and memory
    big,       \* upstream asks for more than the arena
    gc,        \* session -> place of its GC thread
    gc_stop,   \* session -> its stop flag
    clean      \* history: session -> no reset, no entry in a ring that another session's
               \* Writer dropped, erased or took for its own, and no block leased while
               \* an earlier memory of that address was still alive

locks      == <<stateLock, trackerLock, writerLock>>
writerVars == <<live, next_id, ring, back, clean>>
trackVars  == <<pending, mem, sent>>
renderVars == <<r, buf, rs, rlease>>
upVars     == <<up, um, nego, big>>
stateVars  == <<cur, starts, unlocked, app, flushing, gc, gc_stop>>

vars == <<locks, writerVars, trackVars, renderVars, upVars, stateVars>>

--------------------------------------------------------------------------------
(* The Writer, as the element uses it: each under the writer mutex of session s. *)

FreePtrs(s) == {p \in Ptrs : \A id \in DOMAIN live[s] : live[s][id] # p}

\* First fit.
IsFirstFree(s, p) == p \in FreePtrs(s) /\ \A q \in FreePtrs(s) : p <= q

Without(f, i) == [j \in DOMAIN f \ {i} |-> f[j]]
With(f, i, v) == [j \in DOMAIN f \cup {i} |-> IF j = i THEN v ELSE f[j]]

\* An upstream memory of the session still has the address, published or not.
InUse(s, p) == \E m \in Mems : mem[m] # None /\ mem[m].s = s /\ mem[m].ptr = p

\* The bound on calls that need a lease: none begins once MaxLeases are handed out, or
\* once no session is clean, when nothing is claimed of leases any more.
MayLease ==
    /\ \E s \in 1 .. starts : clean[s]
    /\ FoldFunction(LAMBDA n, sum : n - 1 + sum, 0, next_id) < MaxLeases

\* alloc_lease finds a block.
Grant(s, p) ==
    /\ IsFirstFree(s, p)
    /\ live' = [live EXCEPT ![s] = With(@, next_id[s], p)]
    /\ next_id' = [next_id EXCEPT ![s] = @ + 1]
    /\ clean' = [clean EXCEPT ![s] = @ /\ ~InUse(s, p)]
    /\ UNCHANGED <<ring, back>>

\* It finds none, or the request is larger than any block: the oldest queued frame is
\* dropped, whichever session queued it, and its id freed in this session's allocator ...
DropOldest(s, large) ==
    /\ FreePtrs(s) = {} \/ large
    /\ ring # <<>>
    /\ live' = [live EXCEPT ![s] = Without(@, Head(ring))]
    /\ ring' = Tail(ring)
    /\ clean' = [t \in Sessions |->
                   /\ clean[t]
                   /\ s # starts => t # starts /\ (t = s => Head(ring) \notin DOMAIN live[s])]
    /\ UNCHANGED <<next_id, back>>

\* ... and with nothing queued this session's allocator and the rings are reset.
ResetArena(s, large) ==
    /\ FreePtrs(s) = {} \/ large
    /\ ring = <<>>
    /\ live' = [live EXCEPT ![s] = <<>>]
    /\ next_id' = [next_id EXCEPT ![s] = 1]
    /\ back' = {}
    /\ clean' = [t \in Sessions |-> clean[t] /\ t # s /\ (t = starts => back = {})]
    /\ UNCHANGED ring

FreeLease(s, id) == live' = [live EXCEPT ![s] = Without(@, id)]

\* Fault: the ring is full one entry late.
RingFull_Late == Len(ring) > ReadyCap

RingFull == Len(ring) >= ReadyCap

\* The consumer takes a frame and gives its block back, whenever it likes.
Consume ==
    /\ ring # <<>>
    /\ back' = back \cup {Head(ring)}
    /\ ring' = Tail(ring)
    /\ UNCHANGED <<live, next_id, clean, locks, trackVars, renderVars, upVars, stateVars>>

--------------------------------------------------------------------------------
(* The streaming thread. *)

\* The base class calls render with a buffer that upstream filled.  The sink pad turns
\* flushing before unlock() is called: at most the buffer already past it follows.
RenderCall(b) ==
    /\ r = "idle" /\ ~flushing
    /\ b.kind \in {"whole", "part"} =>
         mem[b.mem] # None /\ b.mem \notin sent /\ um # b.mem
    /\ MayLease
    /\ r' = "lock" /\ buf' = b
    /\ flushing' = (app # "playing")
    /\ UNCHANGED <<locks, writerVars, trackVars, rs, rlease, upVars, cur, starts, unlocked,
                   app, gc, gc_stop>>

\* Fault: memories of any session's allocator take the fast path.
FromAllocator_AnySession(b, s) == b.kind \in {"whole", "part"}

\* The buffer's one memory came from this session's allocator.
FromAllocator(b, s) == b.kind \in {"whole", "part"} /\ mem[b.mem].s = s

\* Fault: a buffer that arrives while unlocked is rendered.
RenderLock_NoUnlockCheck ==
    /\ r = "lock" /\ stateLock = None
    /\ cur # 0
    /\ stateLock' = "render" /\ rs' = cur
    /\ r' = IF FromAllocator(buf, cur) THEN "mark" ELSE "copy"
    /\ UNCHANGED <<trackerLock, writerLock, writerVars, trackVars, buf, rlease, upVars,
                   stateVars>>

\* The loop's head: the state lock, then the fast path or the copy path.
RenderLock ==
    /\ r = "lock" /\ stateLock = None
    /\ ~unlocked /\ cur # 0
    /\ stateLock' = "render" /\ rs' = cur
    /\ r' = IF FromAllocator(buf, cur) THEN "mark" ELSE "copy"
    /\ UNCHANGED <<trackerLock, writerLock, writerVars, trackVars, buf, rlease, upVars,
                   stateVars>>

RenderFlushing ==
    /\ r = "lock" /\ stateLock = None
    /\ unlocked \/ cur = 0
    /\ r' = "idle" /\ buf' = NoBuffer
    /\ UNCHANGED <<locks, writerVars, trackVars, rs, rlease, upVars, stateVars>>

\* The entry mark_published finds for the buffer's address, if it is that long.
Found(s, p) == p \in DOMAIN pending[s]

\* Fault: mark_published looks the entry up and leaves it.
Unmark_Kept(s, p) == pending[s]

\* The table without the entry.
Unmark(s, p) == Without(pending[s], p)

\* Fault: an entry of another length is not put back.
RenderMark_NotPutBack ==
    /\ r = "mark" /\ trackerLock[rs] = None
    /\ LET p == mem[buf.mem].ptr
       IN  /\ pending' = [pending EXCEPT ![rs] = Without(@, p)]
           /\ IF Found(rs, p) /\ buf.kind = "whole"
              THEN /\ rlease' = pending[rs][p]
                   /\ trackerLock' = [trackerLock EXCEPT ![rs] = "render"]
                   /\ sent' = sent \cup {buf.mem}
                   /\ r' = "fast"
              ELSE r' = "copy" /\ UNCHANGED <<rlease, sent, trackerLock>>
    /\ UNCHANGED <<stateLock, writerLock, writerVars, mem, buf, rs, upVars, stateVars>>

\* mark_published takes the entry, or puts it back when the length differs; the
\* tracker stays locked to the end of the fast path.
RenderMark ==
    /\ r = "mark" /\ trackerLock[rs] = None
    /\ LET p == mem[buf.mem].ptr
       IN  IF Found(rs, p) /\ buf.kind = "whole"
           THEN /\ rlease' = pending[rs][p]
                /\ pending' = [pending EXCEPT ![rs] = Unmark(rs, p)]
                /\ trackerLock' = [trackerLock EXCEPT ![rs] = "render"]
                /\ sent' = sent \cup {buf.mem}
                /\ r' = "fast"
           ELSE r' = "copy" /\ UNCHANGED <<rlease, pending, sent, trackerLock>>
    /\ UNCHANGED <<stateLock, writerLock, writerVars, mem, buf, rs, upVars, stateVars>>

RenderFastWriter ==
    /\ r = "fast" /\ writerLock[rs] = None
    /\ writerLock' = [writerLock EXCEPT ![rs] = "render"]
    /\ r' = "push"
    /\ UNCHANGED <<stateLock, trackerLock, writerVars, trackVars, buf, rs, rlease, upVars,
                   stateVars>>

RenderCopyWriter ==
    /\ r = "copy" /\ writerLock[rs] = None
    /\ writerLock' = [writerLock EXCEPT ![rs] = "render"]
    /\ r' = "alloc"
    /\ UNCHANGED <<stateLock, trackerLock, writerVars, trackVars, buf, rs, rlease, upVars,
                   stateVars>>

\* publish: alloc_lease, whose block is copied into and pushed ...
RenderGrant ==
    /\ r = "alloc" /\ buf.kind # "large"
    /\ \E p \in Ptrs : Grant(rs, p)
    /\ rlease' = next_id[rs] /\ r' = "push"
    /\ UNCHANGED <<locks, trackVars, buf, rs, upVars, stateVars>>

RenderDrop ==
    /\ r = "alloc"
    /\ DropOldest(rs, buf.kind = "large")
    /\ UNCHANGED <<locks, trackVars, renderVars, upVars, stateVars>>

\* ... or which fails: the state is unlocked, but the writer is still locked while
\* render sleeps.
RenderReset ==
    /\ r = "alloc"
    /\ ResetArena(rs, buf.kind = "large")
    /\ IF buf.kind = "large" THEN r' = "sleep" /\ stateLock' = None
                             ELSE UNCHANGED <<r, stateLock>>
    /\ UNCHANGED <<trackerLock, writerLock, trackVars, buf, rs, rlease, upVars, stateVars>>

\* Fault: the writer stays locked over the loop's next pass.
RenderWake_KeepsWriter ==
    /\ r = "sleep"
    /\ r' = "lock" /\ rs' = 0
    /\ UNCHANGED <<locks, writerVars, trackVars, buf, rlease, upVars, stateVars>>

RenderWake ==
    /\ r = "sleep"
    /\ writerLock' = [writerLock EXCEPT ![rs] = None]
    /\ r' = "lock" /\ rs' = 0
    /\ UNCHANGED <<stateLock, trackerLock, writerVars, trackVars, buf, rlease, upVars,
                   stateVars>>

\* publish_lease, which spins while the ready ring is full; then every lock render
\* holds is released.
RenderPush ==
    /\ r = "push" /\ ~RingFull
    /\ ring' = Append(ring, rlease)
    /\ stateLock' = None
    /\ trackerLock' = [s \in Sessions |->
                          IF trackerLock[s] = "render" THEN None ELSE trackerLock[s]]
    /\ writerLock' = [writerLock EXCEPT ![rs] = None]
    /\ r' = "idle" /\ buf' = NoBuffer /\ rs' = 0 /\ rlease' = 0
    /\ UNCHANGED <<live, next_id, back, clean, trackVars, upVars, stateVars>>

RenderStep ==
    \/ RenderLock \/ RenderFlushing \/ RenderMark \/ RenderFastWriter \/ RenderCopyWriter
    \/ RenderGrant \/ RenderDrop \/ RenderReset \/ RenderWake \/ RenderPush

--------------------------------------------------------------------------------
(* Upstream: the pool's allocations and the drops of its memories. *)

\* propose_allocation: upstream learns the allocator of the running session.
ProposeAllocation ==
    /\ up = "idle" /\ stateLock = None
    /\ cur # 0 /\ nego # cur
    /\ nego' = cur
    /\ UNCHANGED <<locks, writerVars, trackVars, renderVars, up, um, big, stateVars>>

\* ShmArenaAllocator::alloc takes the tracker of the allocator it belongs to, which
\* may be a session's that has ended ...
UpAlloc(m, large) ==
    /\ up = "idle" /\ nego # 0
    /\ mem[m] = None
    /\ MayLease
    /\ trackerLock[nego] = None
    /\ trackerLock' = [trackerLock EXCEPT ![nego] = "up"]
    /\ up' = "alloc" /\ um' = m /\ big' = large
    /\ UNCHANGED <<stateLock, writerLock, writerVars, trackVars, renderVars, nego, stateVars>>

UpWriter ==
    /\ up = "alloc" /\ writerLock[nego] = None
    /\ writerLock' = [writerLock EXCEPT ![nego] = "up"]
    /\ up' = "lease"
    /\ UNCHANGED <<stateLock, trackerLock, writerVars, trackVars, renderVars, um, nego, big,
                   stateVars>>

UpDropOldest ==
    /\ up = "lease"
    /\ DropOldest(nego, big)
    /\ UNCHANGED <<locks, trackVars, renderVars, upVars, stateVars>>

UpReset ==
    /\ up = "lease" /\ ~big
    /\ ResetArena(nego, FALSE)
    /\ UNCHANGED <<locks, trackVars, renderVars, upVars, stateVars>>

\* ... fails after a reset that did not help ...
UpExhausted ==
    /\ up = "lease" /\ big
    /\ ResetArena(nego, TRUE)
    /\ trackerLock' = [trackerLock EXCEPT ![nego] = None]
    /\ writerLock' = [writerLock EXCEPT ![nego] = None]
    /\ up' = "idle" /\ um' = None /\ big' = FALSE
    /\ UNCHANGED <<stateLock, trackVars, renderVars, nego, stateVars>>

\* ... or enters the lease under its address, over an entry that is still there.
UpGrant ==
    /\ up = "lease" /\ ~big
    /\ \E p \in Ptrs :
         /\ Grant(nego, p)
         /\ pending' = [pending EXCEPT ![nego] = With(@, p, next_id[nego])]
         /\ mem' = [mem EXCEPT ![um] = [s |-> nego, ptr |-> p, id |-> next_id[nego]]]
    /\ trackerLock' = [trackerLock EXCEPT ![nego] = None]
    /\ writerLock' = [writerLock EXCEPT ![nego] = None]
    /\ up' = "idle" /\ um' = None
    /\ UNCHANGED <<stateLock, sent, renderVars, nego, big, stateVars>>

\* ShmWritableMemory::drop, once no buffer in render refers to the memory.
UpDrop(m) ==
    /\ up = "idle" /\ mem[m] # None
    /\ buf.mem # m
    /\ up' = "dropping" /\ um' = m
    /\ UNCHANGED <<locks, writerVars, trackVars, renderVars, nego, big, stateVars>>

\* release_unpublished finds no entry for the address: nothing to return.
UpDropNothing ==
    /\ up = "dropping"
    /\ LET o == mem[um] IN trackerLock[o.s] = None /\ o.ptr \notin DOMAIN pending[o.s]
    /\ mem' = [mem EXCEPT ![um] = None] /\ sent' = sent \ {um}
    /\ up' = "idle" /\ um' = None
    /\ UNCHANGED <<locks, writerVars, pending, renderVars, nego, big, stateVars>>

\* Fault: the writer is locked before release_unpublished, which locks it again.
UpDropTracker_WriterFirst ==
    /\ up = "dropping"
    /\ LET o == mem[um]
       IN  /\ writerLock[o.s] = None
           /\ o.ptr \in DOMAIN pending[o.s]
           /\ writerLock' = [writerLock EXCEPT ![o.s] = "up"]
    /\ up' = "release"
    /\ UNCHANGED <<stateLock, trackerLock, writerVars, trackVars, renderVars, um, nego, big,
                   stateVars>>

\* It finds one.
UpDropTracker ==
    /\ up = "dropping"
    /\ LET o == mem[um]
       IN  /\ trackerLock[o.s] = None
           /\ o.ptr \in DOMAIN pending[o.s]
           /\ trackerLock' = [trackerLock EXCEPT ![o.s] = "up"]
    /\ up' = "release"
    /\ UNCHANGED <<stateLock, writerLock, writerVars, trackVars, renderVars, um, nego, big,
                   stateVars>>

\* The entry is removed and its lease freed, whichever memory it was made for.
UpRelease ==
    /\ up = "release"
    /\ LET o == mem[um]
       IN  /\ writerLock[o.s] = None
           /\ FreeLease(o.s, pending[o.s][o.ptr])
           /\ pending' = [pending EXCEPT ![o.s] = Without(@, o.ptr)]
           /\ trackerLock' = [trackerLock EXCEPT ![o.s] = None]
    /\ mem' = [mem EXCEPT ![um] = None] /\ sent' = sent \ {um}
    /\ up' = "idle" /\ um' = None
    /\ UNCHANGED <<stateLock, writerLock, next_id, ring, back, clean, renderVars, nego, big,
                   stateVars>>

UpStep ==
    \/ UpWriter \/ UpDropOldest \/ UpReset \/ UpExhausted \/ UpGrant
    \/ UpDropNothing \/ UpDropTracker \/ UpRelease

--------------------------------------------------------------------------------
(* The GC thread of a session: the stop flag, the writer mutex, a drain. *)

GcCheck(s) ==
    /\ gc[s] = "loop"
    /\ gc' = [gc EXCEPT ![s] = IF gc_stop[s] THEN "done" ELSE "lock"]
    /\ UNCHANGED <<cur, starts, unlocked, app, flushing, gc_stop, locks, writerVars,
                   trackVars, renderVars, upVars>>

\* drain_recycles, with the writer locked, also when it was told to stop meanwhile.
GcDrain(s) ==
    /\ gc[s] = "lock" /\ writerLock[s] = None
    /\ live' = [live EXCEPT ![s] = [i \in DOMAIN @ \ back |-> @[i]]]
    /\ back' = {}
    /\ gc' = [gc EXCEPT ![s] = "loop"]
    /\ UNCHANGED <<next_id, ring, clean, cur, starts, unlocked, app, flushing, gc_stop,
                   locks, trackVars, renderVars, upVars>>

--------------------------------------------------------------------------------
(* The application's state changes, as the base class makes them. *)

\* start(): a new writer, tracker, allocator and GC thread, on the one region, which
\* Writer::create erases: what an earlier session had in the rings is not given back.
Start ==
    /\ app = "ready" /\ stateLock = None
    /\ starts < MaxStarts
    /\ starts' = starts + 1 /\ cur' = starts + 1
    /\ ring' = <<>> /\ back' = {}
    /\ clean' = [s \in Sessions |->
                   clean[s] /\ (s = starts => ring = <<>> /\ back = {})]
    /\ unlocked' = FALSE /\ flushing' = FALSE
    /\ gc' = [gc EXCEPT ![starts + 1] = "loop"]
    /\ app' = "playing"
    /\ UNCHANGED <<live, next_id, gc_stop, locks, trackVars, renderVars, upVars>>

\* The base class calls unlock() before it waits for render to return.
CallUnlock ==
    /\ app = "playing"
    /\ app' = "unlock"
    /\ UNCHANGED <<cur, starts, unlocked, flushing, gc, gc_stop, locks, writerVars,
                   trackVars, renderVars, upVars>>

Unlock ==
    /\ app = "unlock" /\ stateLock = None
    /\ unlocked' = TRUE
    /\ app' = "unlocked"
    /\ UNCHANGED <<cur, starts, flushing, gc, gc_stop, locks, writerVars, trackVars,
                   renderVars, upVars>>

\* With render out of the way: flushing, and unlock_stop().
UnlockStop ==
    /\ app = "unlocked" /\ r = "idle" /\ stateLock = None
    /\ unlocked' = FALSE /\ flushing' = TRUE
    /\ app' = "flushed"
    /\ UNCHANGED <<cur, starts, gc, gc_stop, locks, writerVars, trackVars, renderVars, upVars>>

\* The flush was a seek: streaming goes on.
FlushStop ==
    /\ app = "flushed"
    /\ flushing' = FALSE
    /\ app' = "playing"
    /\ UNCHANGED <<cur, starts, unlocked, gc, gc_stop, locks, writerVars, trackVars,
                   renderVars, upVars>>

\* Fault: the GC thread is not told to stop.
Stop_NoFlag ==
    /\ app = "flushed" /\ stateLock = None
    /\ stateLock' = "app"
    /\ app' = "join"
    /\ UNCHANGED <<cur, starts, unlocked, flushing, gc, gc_stop, trackerLock, writerLock,
                   writerVars, trackVars, renderVars, upVars>>

\* Or it was a state change: stop() tells the GC thread to end and joins it, all
\* with the state locked ...
Stop ==
    /\ app = "flushed" /\ stateLock = None
    /\ stateLock' = "app"
    /\ gc_stop' = [gc_stop EXCEPT ![cur] = TRUE]
    /\ app' = "join"
    /\ UNCHANGED <<cur, starts, unlocked, flushing, gc, trackerLock, writerLock, writerVars,
                   trackVars, renderVars, upVars>>

\* ... then locks the writer to mark the region stopped, and lets go of the session.
StopJoined ==
    /\ app = "join"
    /\ gc[cur] = "done"
    /\ writerLock[cur] = None
    /\ cur' = 0 /\ unlocked' = FALSE
    /\ stateLock' = None
    /\ app' = "ready"
    /\ UNCHANGED <<starts, flushing, gc, gc_stop, trackerLock, writerLock, writerVars,
                   trackVars, renderVars, upVars>>

--------------------------------------------------------------------------------
SinkInit ==
    /\ cur = 0 /\ starts = 0 /\ unlocked = FALSE
    /\ stateLock = None
    /\ trackerLock = [s \in Sessions |-> None] /\ writerLock = [s \in Sessions |-> None]
    /\ pending = [s \in Sessions |-> <<>>] /\ live = [s \in Sessions |-> <<>>]
    /\ next_id = [s \in Sessions |-> 1]
    /\ ring = <<>> /\ back = {}
    /\ mem = [m \in Mems |-> None] /\ sent = {} /\ nego = 0
    /\ app = "ready" /\ flushing = TRUE
    /\ r = "idle" /\ buf = NoBuffer /\ rs = 0 /\ rlease = 0
    /\ up = "idle" /\ um = None /\ big = FALSE
    /\ gc = [s \in Sessions |-> "none"] /\ gc_stop = [s \in Sessions |-> FALSE]
    /\ clean = [s \in Sessions |-> TRUE]

SinkNext ==
    \/ RenderStep \/ UpStep
    \/ \E b \in Buffers : RenderCall(b)
    \/ ProposeAllocation
    \/ \E m \in Mems : UpDrop(m) \/ \E large \in BOOLEAN : UpAlloc(m, large)
    \/ Consume
    \/ \E s \in Sessions : GcCheck(s) \/ GcDrain(s)
    \/ Start \/ CallUnlock \/ Unlock \/ UnlockStop \/ FlushStop \/ Stop \/ StopJoined

SinkSpec == SinkInit /\ [][SinkNext]_vars

\* Threads run, and a thread that waits for a mutex which is free again and again gets it:
\* whoever takes one over and over (render, upstream, the GC thread) lets go of it in
\* between, render and the GC thread for a sleep.  Nothing makes the consumer take
\* frames or upstream allocate.
SinkFairness ==
    /\ SF_vars(RenderStep)
    /\ SF_vars(UpStep)
    /\ SF_vars(Unlock)
    /\ WF_vars(UnlockStop)
    /\ SF_vars(StopJoined)
    /\ \A s \in Sessions : WF_vars(GcCheck(s)) /\ SF_vars(GcDrain(s))

FairSinkSpec == SinkSpec /\ SinkFairness

--------------------------------------------------------------------------------
(* What a live lease is for. *)

\* The entries in the rings are the latest session's.
RingOf(s) == IF s = starts THEN ring ELSE <<>>
BackOf(s) == IF s = starts THEN back ELSE {}

Owners(s) ==
    {<<"ring", i>> : i \in DOMAIN RingOf(s)}
        \cup {<<"back", id>> : id \in BackOf(s)}
        \cup {<<"mem", m>> : m \in {x \in Mems : mem[x] # None /\ mem[x].s = s
                                                   /\ x \notin sent}}
        \cup IF r \in {"fast", "push"} /\ rs = s
             THEN {<<"render", rlease>>} ELSE {}

OwnedId(s, o) ==
    CASE o[1] = "ring" -> RingOf(s)[o[2]]
      [] o[1] = "mem"  -> mem[o[2]].id
      [] o[1] \in {"back", "render"} -> o[2]

\* publish_lease spins: the ready ring is full and the consumer takes nothing.
Spinning == r = "push" /\ RingFull

--------------------------------------------------------------------------------
(* Who waits for whom. *)

Calls == {"render", "up", "app", "gc"}

\* stop() joins the GC thread, whose pass of the loop may need the writer once more.
Joining == app = "join" /\ gc[cur] \in {"loop", "lock"}

\* Call x waits for call y to return or to get to a place where y lets go of a mutex.
WaitsFor(x, y) ==
    \/ x = "render" /\ \/ r = "lock" /\ stateLock = y
                       \/ r = "mark" /\ trackerLock[rs] = y
                       \/ r \in {"fast", "copy"} /\ writerLock[rs] = y
    \/ x = "up" /\ \/ up = "idle" /\ stateLock = y
                   \/ up = "idle" /\ nego # 0 /\ trackerLock[nego] = y
                   \/ up = "alloc" /\ writerLock[nego] = y
                   \/ up = "dropping" /\ trackerLock[mem[um].s] = y
                   \/ up = "release" /\ writerLock[mem[um].s] = y
    \/ x = "app" /\ \/ app # "join" /\ stateLock = y
                    \/ app = "unlocked" /\ r # "idle" /\ y = "render"
                    \/ Joining /\ y = "gc"
                    \/ app = "join" /\ writerLock[cur] = y
    \/ x = "gc" /\ cur # 0 /\ gc[cur] = "lock" /\ writerLock[cur] = y

--------------------------------------------------------------------------------
\* Each mutex is held by the call whose place says so: no two calls are inside one, and
\* none is left locked by a call that has returned.
LocksHeld ==
    /\ stateLock = "render" <=> r \in {"mark", "fast", "copy", "alloc", "push"}
    /\ stateLock = "app" <=> app = "join"
    /\ r = "fast" => trackerLock[rs] = "render"
    /\ \A s \in Sessions :
         /\ trackerLock[s] = "render" => r \in {"fast", "push"} /\ rs = s
         /\ trackerLock[s] = "up" <=>
              \/ up \in {"alloc", "lease"} /\ nego = s
              \/ up = "release" /\ mem[um].s = s
         /\ writerLock[s] = "render" <=> r \in {"alloc", "push", "sleep"} /\ rs = s
         /\ writerLock[s] = "up" <=> up = "lease" /\ nego = s

\* Types, and who holds which mutex.
SinkTypeOK ==
    /\ cur \in {0} \cup Sessions /\ starts \in 0 .. MaxStarts /\ nego \in {0} \cup Sessions
    /\ unlocked \in BOOLEAN /\ flushing \in BOOLEAN
    /\ stateLock \in {None, "render", "app"}
    /\ \A s \in Sessions : {trackerLock[s], writerLock[s]} \subseteq {None, "render", "up"}
    /\ LocksHeld
    /\ ring \in Seq(Ids) /\ Len(ring) <= ReadyCap /\ back \subseteq Ids
    /\ \A s \in Sessions :
         /\ DOMAIN pending[s] \subseteq Ptrs
         /\ \A p \in DOMAIN pending[s] : pending[s][p] \in Ids
         /\ DOMAIN live[s] \subseteq Ids
         /\ \A id \in DOMAIN live[s] : live[s][id] \in Ptrs
         /\ next_id[s] \in Ids
    /\ \A m \in Mems : mem[m] # None => mem[m] \in Leased
    /\ sent \subseteq Mems

\* The lease the fast path publishes is the one the buffer's memory was made from:
\* same session and same id, though it is looked up by address only.
PublishesOwnLease ==
    r \in {"fast", "push"} /\ rlease \in Ids /\ buf.mem \in sent /\ clean[rs] =>
        mem[buf.mem].s = rs /\ mem[buf.mem].id = rlease

\* Every live lease has exactly one owner, and every owner a lease: an unpublished memory,
\* the frame render is publishing, a queued frame or an entry of the recycle ring. So no
\* lease is lost, and dropping a memory never frees the block of another memory or of a
\* frame on its way to the consumer.
OneOwnerPerLease ==
    \A s \in Sessions : clean[s] =>
        /\ DOMAIN live[s] = {OwnedId(s, o) : o \in Owners(s)}
        /\ \A o, q \in Owners(s) : o # q => OwnedId(s, o) # OwnedId(s, q)

\* While a frame waits for the consumer no allocator but the one it came from has its
\* block leased: "sink keeps allocation reserved until ack" (the design), and a session's
\* memory keeps the Writer that leases, after stop() too.
QueuedBlockReserved ==
    \A i \in DOMAIN ring : ring[i] \in DOMAIN live[starts] =>
        \A s \in Sessions \ {starts} :
            \A id \in DOMAIN live[s] : live[s][id] # live[starts][ring[i]]

\* "unpublished leases are returned on memory drop" (the design): the lease a drop is about
\* to free is the one the dropped memory was made from.
DropFreesOwnLease ==
    up = "release" => LET o == mem[um] IN pending[o.s][o.ptr] = o.id

\* The mutexes alone stop nobody: no three waits follow one another, so that none is part
\* of a circle and each ends at a call that waits for no other.  And stop() joins a GC
\* thread that it has told to end.
SinkWaitsEnd ==
    /\ \A w, x \in Calls : WaitsFor(w, x) =>
         \A y \in Calls : WaitsFor(x, y) =>
           \A z \in Calls : ~WaitsFor(y, z)
    /\ app = "join" => gc[cur] \in {"loop", "lock", "done"} /\ gc_stop[cur]

\* unlock() returns and render with it, with no help from the consumer unless
\* publish_lease spins; also while render retries a frame larger than the arena.
UnlockInterrupts == app = "unlock" ~> app = "flushed" \/ Spinning

\* stop() returns: it joins the GC thread and locks the writer with the state locked.
StopReturns == app = "join" ~> app = "ready"

\* An ended session's Writer has writer lock and ring loop of its own: while it empties the
\* ring for an allocation the running session's render may fill it again each time.
Emptying == up = "lease" /\ nego # starts

\* An upstream allocation or drop returns unless publish_lease spins, render sleeps in
\* its retry loop with the writer locked, or an ended session's allocation empties the
\* ring beside render.
UpstreamReturns == up # "idle" ~> up = "idle" \/ Spinning \/ r = "sleep" \/ Emptying
================================================================================
