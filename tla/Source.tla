--------------------------------- MODULE Source ---------------------------------
(***************************************************************************)
(* The shm2src element: create() on the streaming thread, the state        *)
(* changes of the application, and the finalizers of the buffers it gave   *)
(* downstream, which outlive the session that made them.                   *)
(*                                                                         *)
(* Every start() opens another Reader with a mutex of its own on the same  *)
(* region.  stop() only lets go of it: it lives on while a ShmReadWrap     *)
(* refers to it.  Both Readers push on the one recycle ring, so this       *)
(* module keeps that ring in full (two counters, slots, a push that loads  *)
(* and then stores) and abstracts the rest: the ready ring is a sequence   *)
(* of ids in an arena that never runs out, the sink's GC thread takes an   *)
(* entry at a time.  Transport has one Reader and all of the Writer.       *)
(***************************************************************************)
EXTENDS Integers, Sequences, FiniteSets

CONSTANTS ReadyCap,  \* ready_capacity
          RecCap,    \* rec_capacity
          MaxStarts, \* bound: calls of start()
          MaxFrames, \* bound: frames published, with ids 1 .. MaxFrames
          None

Sessions == 1 .. MaxStarts
Ids      == 1 .. MaxFrames
Threads  == {"stream", "down"}  \* where a buffer may be dropped
Pushers  == Threads \cup {"create"}

\* A call of ShmReadWrap::drop: its place, the session of its Reader and the id.
Finalizer == [pc : {"lock", "spin", "store"}, s : Sessions, id : Ids]

ASSUME SourceAssumption ==
    /\ {ReadyCap, RecCap, MaxStarts, MaxFrames} \subseteq Nat \ {0}
    /\ None \notin Nat /\ None \notin Pushers \cup {"app"} /\ None \notin Finalizer

VARIABLES
    ready,     \* ids queued between ready_tail and ready_head
    frames,    \* frames published
    recycle, rec_head, rec_tail,  \* the recycle ring: slot -> id, counters
    freed,     \* id -> times the GC thread freed it
    cur,       \* state.reader: a session, 0 when None
    starts,    \* sessions started so far
    unlocked,  \* state.unlocked
    latest_only, \* settings.latest_only
    stateLock, readerLock,  \* who holds each mutex
    app,       \* place of the state changes
    flushing,  \* the base class has no more calls of create
    c, cs, cid, ccur, clen,  \* create: place, session, id taken; cur and len of the
                             \* latest-only receive
    held,      \* ShmReadWraps downstream: session and id
    fin,       \* thread -> the finalizer it runs: place, session, id
    pos,       \* pusher -> the head it loaded in recycle_desc or try_recycle_desc
    lost,      \* history: ids skipped by an attach or dropped on a full recycle ring
    clean      \* history: no two sessions have been in a push at once

rings     == <<ready, frames, recycle, rec_head, rec_tail, freed>>
stateVars == <<cur, starts, unlocked, latest_only, stateLock, app, flushing>>
createVars == <<c, cs, cid, ccur, clen>>

vars == <<rings, stateVars, readerLock, createVars, held, fin, pos, lost, clean>>

--------------------------------------------------------------------------------
(* The recycle ring. *)

\* head.wrapping_sub(tail) < cap: a head behind the tail is a huge distance.
Room == rec_head - rec_tail \in 0 .. RecCap - 1

\* The session a pusher works for.
SessionOf(t) == IF t = "create" THEN cs ELSE fin[t].s

\* Between the loads of a push and its stores.
Pushing(t) == pos[t] # None

\* The loads of recycle_desc and try_recycle_desc, with room for an entry.
PushLoad(t) ==
    /\ Room
    /\ pos' = [pos EXCEPT ![t] = rec_head]
    /\ clean' = (clean /\ \A u \in Pushers : Pushing(u) => SessionOf(u) = SessionOf(t))

\* The slot is written and the head stored, from the head that was loaded.
PushStore(t, id) ==
    /\ recycle' = [recycle EXCEPT ![pos[t] % RecCap] = id]
    /\ rec_head' = pos[t] + 1
    /\ pos' = [pos EXCEPT ![t] = None]
    /\ UNCHANGED <<ready, frames, rec_tail, freed>>

--------------------------------------------------------------------------------
(* The sink process: publish_lease and one turn of drain_recycles. *)

Publish ==
    /\ frames < MaxFrames /\ Len(ready) < ReadyCap
    /\ frames' = frames + 1
    /\ ready' = Append(ready, frames + 1)
    /\ UNCHANGED <<recycle, rec_head, rec_tail, freed, stateVars, readerLock, createVars,
                   held, fin, pos, lost, clean>>

\* A head behind the tail makes drain_recycles run through the ring again; the bound
\* on what is explored then is one frame's id freed twice.
Drain ==
    /\ rec_head # rec_tail
    /\ LET id == recycle[rec_tail % RecCap]
       IN  /\ freed[id] < 2
           /\ freed' = [freed EXCEPT ![id] = @ + 1]
    /\ rec_tail' = rec_tail + 1
    /\ UNCHANGED <<ready, frames, recycle, rec_head, stateVars, readerLock, createVars,
                   held, fin, pos, lost, clean>>

--------------------------------------------------------------------------------
(* The streaming thread: create(). *)

\* The task loop calls create; once the base class flushes at most one more call.
CreateCall ==
    /\ c = "idle" /\ ~flushing
    /\ c' = "begin"
    /\ flushing' = (app # "playing")
    /\ UNCHANGED <<rings, cur, starts, unlocked, latest_only, stateLock, app, readerLock,
                   cs, cid, ccur, clen, held, fin, pos, lost, clean>>

CreateFlushing ==
    /\ c \in {"begin", "check"} /\ stateLock = None
    /\ unlocked \/ (c = "begin" /\ cur = 0)
    /\ c' = "idle" /\ cs' = 0
    /\ UNCHANGED <<rings, stateVars, readerLock, cid, ccur, clen, held, fin, pos, lost,
                   clean>>

CreateBegin ==
    /\ c = "begin" /\ stateLock = None
    /\ ~unlocked /\ cur # 0
    /\ cs' = cur /\ c' = "check"
    /\ UNCHANGED <<rings, stateVars, readerLock, cid, ccur, clen, held, fin, pos, lost,
                   clean>>

\* Fault: the loop does not look at unlocked.
CreateCheck_NoUnlockCheck ==
    /\ c = "check" /\ stateLock = None
    /\ c' = "mode"
    /\ UNCHANGED <<rings, stateVars, readerLock, cs, cid, ccur, clen, held, fin, pos, lost,
                   clean>>

CreateCheck ==
    /\ c = "check" /\ stateLock = None
    /\ ~unlocked
    /\ c' = "mode"
    /\ UNCHANGED <<rings, stateVars, readerLock, cs, cid, ccur, clen, held, fin, pos, lost,
                   clean>>

\* The reader is locked with the state still locked: behind a finalizer that spins,
\* create keeps unlock() and stop() waiting.
CreateMode ==
    /\ c = "mode" /\ stateLock = None
    /\ stateLock' = "create"
    /\ c' = "lock"
    /\ UNCHANGED <<rings, cur, starts, unlocked, latest_only, app, flushing, readerLock,
                   cs, cid, ccur, clen, held, fin, pos, lost, clean>>

\* Fault: the state stays locked with the reader.
CreateLock_KeepsState ==
    /\ c = "lock" /\ readerLock[cs] = None
    /\ readerLock' = [readerLock EXCEPT ![cs] = "create"]
    /\ c' = "recv"
    /\ UNCHANGED <<rings, stateVars, cs, cid, ccur, clen, held, fin, pos, lost, clean>>

CreateLock ==
    /\ c = "lock" /\ readerLock[cs] = None
    /\ readerLock' = [readerLock EXCEPT ![cs] = "create"]
    /\ stateLock' = None
    /\ c' = "recv"
    /\ UNCHANGED <<rings, cur, starts, unlocked, latest_only, app, flushing, cs, cid, ccur,
                   clen, held, fin, pos, lost, clean>>

\* Fault: the reader stays locked while create sleeps.
RecvEmpty_KeepsLock ==
    /\ c = "recv" /\ ready = <<>>
    /\ c' = "check"
    /\ UNCHANGED <<rings, stateVars, readerLock, cs, cid, ccur, clen, held, fin, pos, lost,
                   clean>>

\* Nothing queued: unlock, sleep, look again.
RecvEmpty ==
    /\ c = "recv" /\ ready = <<>>
    /\ readerLock' = [readerLock EXCEPT ![cs] = None]
    /\ c' = "check"
    /\ UNCHANGED <<rings, stateVars, cs, cid, ccur, clen, held, fin, pos, lost, clean>>

\* The entry at position i is received and the tail moves past it and all before it.
Take(i) ==
    /\ cid' = ready[i]
    /\ ready' = SubSeq(ready, i + 1, Len(ready))
    /\ readerLock' = [readerLock EXCEPT ![cs] = None]
    /\ c' = "stamp"
    /\ UNCHANGED <<frames, recycle, rec_head, rec_tail, freed, stateVars, cs, held, fin,
                   pos, clean>>

RecvFifo ==
    /\ c = "recv" /\ ready # <<>> /\ ~latest_only
    /\ Take(1)
    /\ UNCHANGED <<ccur, clen, lost>>

\* Latest only: the second newest of the entries there are now.
RecvLatest ==
    /\ c = "recv" /\ ready # <<>> /\ latest_only
    /\ ccur' = 1 /\ clen' = Len(ready)
    /\ c' = "skip"
    /\ UNCHANGED <<rings, stateVars, readerLock, cs, cid, held, fin, pos, lost, clean>>

\* The entries before it are recycled one by one ...
SkipLoad ==
    /\ c = "skip" /\ ccur < clen - 1 /\ ~Pushing("create")
    /\ PushLoad("create")
    /\ UNCHANGED <<rings, stateVars, readerLock, createVars, held, fin, lost>>

SkipStore ==
    /\ c = "skip" /\ Pushing("create")
    /\ PushStore("create", ready[ccur])
    /\ ccur' = ccur + 1
    /\ UNCHANGED <<stateVars, readerLock, c, cs, cid, clen, held, fin, lost, clean>>

\* ... until the recycle ring is full: the rest are dropped all the same.
SkipFull ==
    /\ c = "skip" /\ ccur < clen - 1 /\ ~Pushing("create")
    /\ ~Room
    /\ lost' = lost \cup {ready[i] : i \in ccur .. clen - 2}
    /\ c' = "take"
    /\ UNCHANGED <<rings, stateVars, readerLock, cs, cid, ccur, clen, held, fin, pos, clean>>

\* Fault: the one received has been recycled with the older ones.
RecvChosen_Newest ==
    /\ c = "take" \/ (c = "skip" /\ ccur >= clen - 1)
    /\ Take(clen)
    /\ ccur' = 0 /\ clen' = 0
    /\ UNCHANGED lost

RecvChosen ==
    /\ c = "take" \/ (c = "skip" /\ ccur >= clen - 1)
    /\ Take(IF clen = 1 THEN 1 ELSE clen - 1)
    /\ ccur' = 0 /\ clen' = 0
    /\ UNCHANGED lost

\* The buffer is stamped from state.timeline, which takes the state lock twice.
CreateStamp ==
    /\ c = "stamp" /\ stateLock = None
    /\ c' = "push"
    /\ UNCHANGED <<rings, stateVars, readerLock, cs, cid, ccur, clen, held, fin, pos, lost,
                   clean>>

\* The base class pushes the buffer, and downstream keeps it ...
PushKept ==
    /\ c = "push"
    /\ held' = held \cup {[s |-> cs, id |-> cid]}
    /\ c' = "idle" /\ cs' = 0 /\ cid' = 0
    /\ UNCHANGED <<rings, stateVars, readerLock, ccur, clen, fin, pos, lost, clean>>

\* ... or it is dropped there and then, as when the pad is flushing.
PushDropped ==
    /\ c = "push"
    /\ fin' = [fin EXCEPT !["stream"] = [pc |-> "lock", s |-> cs, id |-> cid]]
    /\ c' = "dropping" /\ cs' = 0 /\ cid' = 0
    /\ UNCHANGED <<rings, stateVars, readerLock, ccur, clen, held, pos, lost, clean>>

CreateDropped ==
    /\ c = "dropping" /\ fin["stream"] = None
    /\ c' = "idle"
    /\ UNCHANGED <<rings, stateVars, readerLock, cs, cid, ccur, clen, held, fin, pos, lost,
                   clean>>

CreateStep ==
    \/ CreateFlushing \/ CreateBegin \/ CreateCheck \/ CreateMode
    \/ RecvEmpty \/ RecvFifo \/ RecvLatest \/ SkipLoad \/ SkipStore \/ SkipFull
    \/ RecvChosen \/ CreateStamp \/ PushKept \/ PushDropped \/ CreateDropped

--------------------------------------------------------------------------------
(* ShmReadWrap::drop, on whatever thread gives the last reference up. *)

DropWrap(w) ==
    /\ fin["down"] = None
    /\ w \in held
    /\ held' = held \ {w}
    /\ fin' = [fin EXCEPT !["down"] = [pc |-> "lock", s |-> w.s, id |-> w.id]]
    /\ UNCHANGED <<rings, stateVars, readerLock, createVars, pos, lost, clean>>

\* Fault: the finalizer pushes without the reader's mutex.
FinLock_NoLock(t) ==
    /\ fin[t] # None /\ fin[t].pc = "lock"
    /\ fin' = [fin EXCEPT ![t].pc = "spin"]
    /\ UNCHANGED <<rings, stateVars, readerLock, createVars, held, pos, lost, clean>>

FinLock(t) ==
    /\ fin[t] # None /\ fin[t].pc = "lock"
    /\ readerLock[fin[t].s] = None
    /\ readerLock' = [readerLock EXCEPT ![fin[t].s] = t]
    /\ fin' = [fin EXCEPT ![t].pc = "spin"]
    /\ UNCHANGED <<rings, stateVars, createVars, held, pos, lost, clean>>

\* recycle_desc spins while there is no room.
FinSpin(t) ==
    /\ fin[t] # None /\ fin[t].pc = "spin"
    /\ PushLoad(t)
    /\ fin' = [fin EXCEPT ![t].pc = "store"]
    /\ UNCHANGED <<rings, stateVars, readerLock, createVars, held, lost>>

FinStore(t) ==
    /\ fin[t] # None /\ fin[t].pc = "store"
    /\ PushStore(t, fin[t].id)
    /\ readerLock' = [readerLock EXCEPT ![fin[t].s] = None]
    /\ fin' = [fin EXCEPT ![t] = None]
    /\ UNCHANGED <<stateVars, createVars, held, lost, clean>>

--------------------------------------------------------------------------------
(* The application's state changes, as the base class makes them. *)

\* start(): a new Reader; sync_startup_state skips what is queued.
Start ==
    /\ app = "ready" /\ stateLock = None
    /\ starts < MaxStarts
    /\ starts' = starts + 1 /\ cur' = starts + 1
    /\ latest_only' \in BOOLEAN
    /\ unlocked' = FALSE /\ flushing' = FALSE
    /\ lost' = lost \cup {ready[i] : i \in DOMAIN ready}
    /\ ready' = <<>>
    /\ app' = "playing"
    /\ UNCHANGED <<frames, recycle, rec_head, rec_tail, freed, stateLock, readerLock,
                   createVars, held, fin, pos, clean>>

CallUnlock ==
    /\ app = "playing"
    /\ app' = "unlock"
    /\ UNCHANGED <<rings, cur, starts, unlocked, latest_only, stateLock, flushing, readerLock,
                   createVars, held, fin, pos, lost, clean>>

Unlock ==
    /\ app = "unlock" /\ stateLock = None
    /\ unlocked' = TRUE
    /\ app' = "unlocked"
    /\ UNCHANGED <<rings, cur, starts, latest_only, stateLock, flushing, readerLock,
                   createVars, held, fin, pos, lost, clean>>

\* With the streaming thread out of create: unlock_stop().
UnlockStop ==
    /\ app = "unlocked" /\ c = "idle" /\ stateLock = None
    /\ unlocked' = FALSE /\ flushing' = TRUE
    /\ app' = "flushed"
    /\ UNCHANGED <<rings, cur, starts, latest_only, stateLock, readerLock, createVars, held,
                   fin, pos, lost, clean>>

\* A live source that is only paused goes on ...
FlushStop ==
    /\ app = "flushed"
    /\ flushing' = FALSE
    /\ app' = "playing"
    /\ UNCHANGED <<rings, cur, starts, unlocked, latest_only, stateLock, readerLock,
                   createVars, held, fin, pos, lost, clean>>

\* ... or stop() lets go of the reader; buffers downstream keep it.
Stop ==
    /\ app = "flushed" /\ stateLock = None
    /\ cur' = 0 /\ unlocked' = FALSE
    /\ app' = "ready"
    /\ UNCHANGED <<rings, starts, latest_only, stateLock, flushing, readerLock, createVars,
                   held, fin, pos, lost, clean>>

--------------------------------------------------------------------------------
\* An earlier consumer may have left the recycle ring full, of entries (id 0) not drained yet.
SourceInit ==
    /\ ready = <<>> /\ frames = 0
    /\ recycle = [i \in 0 .. RecCap - 1 |-> 0] /\ rec_head \in {0, RecCap} /\ rec_tail = 0
    /\ freed = [id \in {0} \cup Ids |-> 0]
    /\ cur = 0 /\ starts = 0 /\ unlocked = FALSE /\ latest_only = TRUE
    /\ stateLock = None /\ readerLock = [s \in Sessions |-> None]
    /\ app = "ready" /\ flushing = TRUE
    /\ c = "idle" /\ cs = 0 /\ cid = 0 /\ ccur = 0 /\ clen = 0
    /\ held = {} /\ fin = [t \in Threads |-> None]
    /\ pos = [t \in Pushers |-> None]
    /\ lost = {} /\ clean = TRUE

SourceNext ==
    \/ Publish \/ Drain
    \/ CreateCall \/ CreateStep \/ CreateLock
    \/ \E w \in held : DropWrap(w)
    \/ \E t \in Threads : FinLock(t) \/ FinSpin(t) \/ FinStore(t)
    \/ Start \/ CallUnlock \/ Unlock \/ UnlockStop \/ FlushStop \/ Stop

SourceSpec == SourceInit /\ [][SourceNext]_vars

\* Threads run.  A mutex that comes free again and again is taken in the end: create
\* sleeps with both mutexes free, a finalizer holds the reader for one push.  The sink
\* process owes nothing: the GC thread may be blocked for good.
SourceFairness ==
    /\ WF_vars(CreateStep) /\ SF_vars(CreateLock)
    /\ \A t \in Threads : SF_vars(FinLock(t)) /\ WF_vars(FinSpin(t)) /\ WF_vars(FinStore(t))
    /\ SF_vars(Unlock) /\ WF_vars(UnlockStop)

FairSourceSpec == SourceSpec /\ SourceFairness

--------------------------------------------------------------------------------
\* Where an id is: one tuple for each place that will give it back, or has.
Places(id) ==
    {<<"ready", i>> : i \in {j \in DOMAIN ready :
                                 ready[j] = id /\ ~(c \in {"skip", "take"} /\ j < ccur)}}
        \cup {<<"held", w>> : w \in {x \in held : x.id = id}}
        \cup {<<"fin", t>> : t \in {x \in Threads : fin[x] # None /\ fin[x].id = id}}
        \cup {<<"create", c>> : x \in {y \in {1} : cid = id}}
        \cup {<<"ring", n>> : n \in {m \in rec_tail .. rec_head - 1 :
                                        recycle[m % RecCap] = id}}
        \cup {<<"freed", n>> : n \in 1 .. freed[id]}

--------------------------------------------------------------------------------
(* Who waits for whom. *)

Calls == Pushers \cup {"app"}

\* Call x waits for call y to return or to get to a place where y lets go of a mutex.
WaitsFor(x, y) ==
    \/ x = "create" /\ \/ c \in {"begin", "check", "mode", "stamp"} /\ stateLock = y
                       \/ c = "lock" /\ readerLock[cs] = y
                       \/ c = "dropping" /\ fin["stream"] # None /\ y = "stream"
    \/ x \in Threads /\ fin[x] # None /\ fin[x].pc = "lock" /\ readerLock[fin[x].s] = y
    \/ x = "app" /\ \/ stateLock = y
                    \/ app = "unlocked" /\ c # "idle" /\ y = "create"

--------------------------------------------------------------------------------
\* Type invariant: counters, locks, the calls' places and locals; each mutex is held by
\* the call whose place says so.
SourceTypeOK ==
    /\ ready \in Seq(Ids) /\ Len(ready) <= ReadyCap /\ frames \in 0 .. MaxFrames
    /\ recycle \in [0 .. RecCap - 1 -> {0} \cup Ids] /\ {rec_head, rec_tail} \subseteq Nat
    /\ {cur, cs} \subseteq {0} \cup Sessions /\ starts \in 0 .. MaxStarts
    /\ {unlocked, latest_only, flushing, clean} \subseteq BOOLEAN
    /\ stateLock \in {None, "create"}
    /\ stateLock = "create" <=> c = "lock"
    /\ \A s \in Sessions :
         /\ readerLock[s] \in {None} \cup Pushers
         /\ readerLock[s] = "create" <=> cs = s /\ c \in {"recv", "skip", "take"}
         /\ \A t \in Threads : readerLock[s] = t <=>
              fin[t] # None /\ fin[t].s = s /\ fin[t].pc # "lock"
    /\ app \in {"ready", "playing", "unlock", "unlocked", "flushed"}
    /\ c \in {"idle", "begin", "check", "mode", "lock", "recv", "skip", "take", "stamp",
              "push", "dropping"}
    /\ cid \in {0} \cup Ids /\ {ccur, clen} \subseteq 0 .. ReadyCap
    /\ held \subseteq [s : Sessions, id : Ids] /\ lost \subseteq Ids
    /\ \A t \in Threads : fin[t] # None => fin[t] \in Finalizer

\* Exactly-once recycle, across stop and start, until two sessions' Readers are in a
\* push at once: a frame is in one place, or was skipped or dropped unrecycled.
RecycledOnce ==
    clean => \A id \in 1 .. frames :
        Cardinality(Places(id)) = IF id \in lost /\ id \notin {ready[i] : i \in DOMAIN ready}
                                  THEN 0 ELSE 1

\* The mutexes alone stop nobody: no four waits follow one another, so that, as there are
\* four calls, none is part of a circle and each ends at a call that waits for no other,
\* at worst at one that spins on the recycle ring.
SourceWaitsEnd ==
    \A v, w \in Calls : WaitsFor(v, w) =>
      \A x \in Calls : WaitsFor(w, x) =>
        \A y \in Calls : WaitsFor(x, y) =>
          \A z \in Calls : ~WaitsFor(y, z)

\* unlock() returns and create with it, unless the recycle ring is full or its head
\* was moved back behind the tail.
CreateInterrupts == app = "unlock" ~> app = "flushed" \/ ~Room

\* A dropped buffer's finalizer returns, also of a session that has ended and while
\* create polls the same reader.
FinalizersReturn == \A t \in Threads : fin[t] # None ~> fin[t] = None \/ ~Room
================================================================================
