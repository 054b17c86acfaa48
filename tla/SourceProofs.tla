------------------------------ MODULE SourceProofs ------------------------------
(***************************************************************************)
(* For every capacity and every number of sessions and frames: each mutex  *)
(* is held by the call whose place says so, and until two sessions are in  *)
(* a push at once every frame is recycled once or was skipped.             *)
(*                                                                         *)
(* An id has a token wherever it is: a step moves one, or makes queued ids *)
(* nobody's with their tokens (TokenMoves, TokensGo).  That a push         *)
(* overwrites no token rests on there being one pusher (OnlyPusher), which *)
(* holds the mutex of its reader (PusherLocks).                            *)
(***************************************************************************)
EXTENDS Source, FiniteSetTheorems, TLAPS

\* The rings, what loaded heads and buffers downstream are, and the history.
RingsOK ==
    /\ ready \in Seq(Ids) /\ Len(ready) <= ReadyCap /\ frames \in 0 .. MaxFrames
    /\ recycle \in [0 .. RecCap - 1 -> {0} \cup Ids] /\ rec_head \in Nat /\ rec_tail \in Nat
    /\ freed \in [{0} \cup Ids -> Nat]
    /\ pos \in [Pushers -> Nat \cup {None}]
    /\ held \subseteq [s : Sessions, id : Ids] /\ lost \subseteq Ids /\ clean \in BOOLEAN

\* The state changes: what they hold and where they are.
StateOK ==
    /\ cur \in {0} \cup Sessions /\ starts \in 0 .. MaxStarts
    /\ unlocked \in BOOLEAN /\ latest_only \in BOOLEAN /\ flushing \in BOOLEAN
    /\ stateLock \in {None, "create"}
    /\ stateLock = "create" <=> c = "lock"
    /\ app \in {"ready", "playing", "unlock", "unlocked", "flushed"}
    /\ app \in {"flushed", "ready"} => flushing /\ c = "idle"

\* create: at each of its places, what its locals are.
CreateOK ==
    /\ c \in {"idle", "begin", "check", "mode", "lock", "recv", "skip", "take", "stamp",
              "push", "dropping"}
    /\ cs \in {0} \cup Sessions /\ cid \in {0} \cup Ids
    /\ c \in {"check", "mode", "lock", "recv", "skip", "take", "stamp", "push"} =>
         cs \in Sessions
    /\ cid # 0 <=> c \in {"stamp", "push"}

\* The latest-only receive passes over entries up to the second newest it counted.
RecvOK ==
    /\ ccur \in 0 .. ReadyCap /\ clen \in 0 .. ReadyCap
    /\ c \in {"skip", "take"} =>
         /\ 1 <= ccur /\ clen <= Len(ready)
         /\ ccur < clen \/ (ccur = 1 /\ clen = 1)
    /\ c = "take" => ccur < clen - 1
    /\ Pushing("create") => c = "skip" /\ ccur < clen - 1

\* The finalizers: the streaming thread has one while create drops its buffer, and one
\* has loaded a head between its spin and its store.
FinOK ==
    /\ fin \in [Threads -> Finalizer \cup {None}]
    /\ c # "dropping" => fin["stream"] = None
    /\ \A t \in Threads : Pushing(t) <=> fin[t] # None /\ fin[t].pc = "store"

\* Where create holds the reader's mutex.
Polling == {"recv", "skip", "take"}

\* Each reader's mutex is held by the call whose place says so.
LocksOK ==
    /\ readerLock \in [Sessions -> {None} \cup Pushers]
    /\ \A s \in Sessions :
         /\ readerLock[s] = "create" <=> cs = s /\ c \in Polling
         /\ \A t \in Threads : readerLock[s] = t <=>
              fin[t] # None /\ fin[t].s = s /\ fin[t].pc # "lock"

TypeInv == RingsOK /\ StateOK /\ CreateOK /\ RecvOK /\ FinOK /\ LocksOK

\* TypeInv is SourceTypeOK by owner of the state, with what makes it inductive.
LEMMA TypeInvImplies == TypeInv => SourceTypeOK
BY DEF TypeInv, RingsOK, StateOK, CreateOK, RecvOK, FinOK, LocksOK, Polling, SourceTypeOK

\* The bounds are positive, and None is no thread and no finalizer.
LEMMA Constants ==
    /\ ReadyCap \in Nat \ {0} /\ RecCap \in Nat \ {0}
    /\ MaxStarts \in Nat \ {0} /\ MaxFrames \in Nat \ {0}
    /\ "create" \notin Threads /\ None # "create" /\ \A t \in Threads : t # None
    /\ \A n \in Nat : n # None
    /\ \A f \in Finalizer : f # None
BY SourceAssumption DEF Threads, Pushers

\* What is left of a sequence without its first i elements.
LEMMA Rest ==
    ASSUME NEW S, NEW q \in Seq(S), NEW i \in 1 .. Len(q)
    PROVE  /\ q[i] \in S /\ Len(q) \in Nat
           /\ SubSeq(q, i + 1, Len(q)) \in Seq(S)
           /\ Len(SubSeq(q, i + 1, Len(q))) = Len(q) - i
           /\ \A k \in 1 .. Len(q) - i : SubSeq(q, i + 1, Len(q))[k] = q[k + i]
<1>1. Len(q) \in Nat /\ q[i] \in S
  OBVIOUS
<1>2. Len(SubSeq(q, i + 1, Len(q))) = Len(q) - i
  BY <1>1
<1>3. \A k \in 1 .. Len(q) - i : SubSeq(q, i + 1, Len(q))[k] = q[k + i]
  BY <1>1
<1>4. SubSeq(q, i + 1, Len(q)) \in Seq(S)
  BY <1>1
<1> QED
  BY <1>1, <1>2, <1>3, <1>4

\* The entry a latest-only receive is at, and the one it chooses, are in the ring.
LEMMA Queued ==
    ASSUME TypeInv
    PROVE  /\ Len(ready) \in Nat /\ \A i \in 1 .. Len(ready) : ready[i] \in Ids
           /\ c \in {"skip", "take"} =>
                /\ ccur \in 1 .. Len(ready)
                /\ (IF clen = 1 THEN 1 ELSE clen - 1) \in 1 .. Len(ready)
<1>1. /\ ready \in Seq(Ids) /\ Len(ready) \in Nat /\ ccur \in Nat /\ clen \in Nat
      /\ \A i \in 1 .. Len(ready) : ready[i] \in Ids
  BY Constants DEF TypeInv, RingsOK, RecvOK
<1> QED
  BY <1>1 DEF TypeInv, RecvOK

\* A receive takes one of the entries there are.
LEMMA Received ==
    ASSUME TypeInv, RecvFifo \/ RecvChosen
    PROVE  \E i \in 1 .. Len(ready) :
             /\ cid' = ready[i] /\ cid' \in Ids
             /\ ready' \in Seq(Ids) /\ Len(ready') = Len(ready) - i
             /\ \A k \in 1 .. Len(ready') : ready'[k] = ready[k + i]
             /\ RecvFifo => i = 1
             /\ RecvChosen => i = IF clen = 1 THEN 1 ELSE clen - 1
<1>1. ready \in Seq(Ids) /\ Len(ready) \in Nat
  BY DEF TypeInv, RingsOK
<1>2. CASE RecvFifo
  <2>1. Take(1) /\ 1 \in 1 .. Len(ready) /\ ~RecvChosen
    BY <1>1, <1>2 DEF RecvFifo, RecvChosen
  <2> QED
    BY <1>1, <2>1, Rest DEF Take
<1>3. CASE RecvChosen
  <2> DEFINE i == IF clen = 1 THEN 1 ELSE clen - 1
  <2>1. Take(i) /\ i \in 1 .. Len(ready) /\ ~RecvFifo
    BY <1>3, Queued DEF RecvFifo, RecvChosen
  <2> HIDE DEF i
  <2>2. ready' = SubSeq(ready, i + 1, Len(ready)) /\ cid' = ready[i]
    BY <2>1 DEF Take
  <2>3. /\ ready[i] \in Ids /\ ready' \in Seq(Ids) /\ Len(ready') = Len(ready) - i
        /\ \A k \in 1 .. Len(ready') : ready'[k] = ready[k + i]
    BY <1>1, <2>1, <2>2, Rest
  <2> QED
    BY <2>1, <2>2, <2>3 DEF i
<1> QED
  BY <1>2, <1>3

\* What a push stores.
LEMMA Pushed ==
    ASSUME RingsOK, NEW t \in Pushers, NEW id \in Ids, Pushing(t), PushStore(t, id)
    PROVE  /\ recycle' \in [0 .. RecCap - 1 -> {0} \cup Ids] /\ rec_head' \in Nat
           /\ pos' \in [Pushers -> Nat \cup {None}]
<1>1. pos[t] \in Nat /\ pos[t] % RecCap \in 0 .. RecCap - 1
  BY Constants DEF RingsOK, Pushing
<1> QED
  BY <1>1 DEF RingsOK, PushStore

\* Initially.
LEMMA InitType == SourceInit => TypeInv
<1> SUFFICES ASSUME SourceInit PROVE TypeInv
  OBVIOUS
<1> USE Constants
<1>1. RingsOK
  BY DEF SourceInit, RingsOK, Ids
<1>2. StateOK
  <2>1. starts \in 0 .. MaxStarts /\ cur \in {0} /\ stateLock = None
    BY DEF SourceInit
  <2>2. unlocked \in BOOLEAN /\ latest_only \in BOOLEAN /\ flushing = TRUE
    BY DEF SourceInit
  <2> QED
    BY <2>1, <2>2 DEF SourceInit, StateOK
<1>3. CreateOK
  BY DEF SourceInit, CreateOK
<1>4. RecvOK
  BY DEF SourceInit, RecvOK, Pushing, Pushers
<1>5. FinOK
  <2>1. \A t \in Threads : fin[t] = None /\ pos[t] = None
    BY DEF SourceInit, Pushers
  <2> QED
    BY <2>1 DEF SourceInit, FinOK, Pushing, Threads
<1>6. LocksOK
  BY DEF SourceInit, LocksOK, Polling, Threads, Pushers, Sessions
<1> QED
  BY <1>1, <1>2, <1>3, <1>4, <1>5, <1>6 DEF TypeInv

\* The steps, one lemma for each part of TypeInv.
LEMMA StepRings == TypeInv /\ [SourceNext]_vars => RingsOK'
<1> SUFFICES ASSUME TypeInv, [SourceNext]_vars PROVE RingsOK'
  OBVIOUS
<1> USE Constants DEF TypeInv
<1>1. CASE UNCHANGED <<ready, frames, recycle, rec_head, rec_tail, freed, pos, held, lost,
                       clean>>
  BY <1>1 DEF RingsOK
<1>2. CASE Publish
  BY <1>2 DEF Publish, RingsOK, Ids
<1>3. CASE Drain
  BY <1>3 DEF Drain, RingsOK, Pushers
<1>4. CASE RecvFifo
  <2>1. ready' \in Seq(Ids) /\ Len(ready') <= ReadyCap
    BY <1>4, Received DEF RingsOK
  <2>2. UNCHANGED <<frames, recycle, rec_head, rec_tail, freed, pos, held, lost, clean>>
    BY <1>4 DEF RecvFifo, Take
  <2> QED
    BY <2>1, <2>2 DEF RingsOK
<1>5. CASE SkipLoad
  BY <1>5 DEF SkipLoad, PushLoad, rings, RingsOK
<1>6. CASE SkipStore
  <2>1. /\ ready[ccur] \in Ids /\ Pushing("create") /\ PushStore("create", ready[ccur])
        /\ UNCHANGED <<held, lost, clean>>
    BY <1>6, Queued DEF SkipStore
  <2> QED
    BY <2>1, Pushed DEF RingsOK, PushStore, Pushers
<1>7. CASE SkipFull
  <2>1. \A i \in ccur .. clen - 2 : i \in 1 .. Len(ready)
    BY <1>7, Queued DEF SkipFull, RecvOK
  <2>2. lost' \subseteq Ids
    BY <1>7, <2>1, Queued DEF SkipFull, RingsOK
  <2>3. UNCHANGED <<ready, frames, recycle, rec_head, rec_tail, freed, pos, held, clean>>
    BY <1>7 DEF SkipFull, rings
  <2> QED
    BY <2>2, <2>3 DEF RingsOK
<1>8. CASE RecvChosen
  <2>1. ready' \in Seq(Ids) /\ Len(ready') <= ReadyCap
    BY <1>8, Received DEF RingsOK
  <2>2. UNCHANGED <<frames, recycle, rec_head, rec_tail, freed, pos, held, lost, clean>>
    BY <1>8 DEF RecvChosen, Take
  <2> QED
    BY <2>1, <2>2 DEF RingsOK
<1>9. CASE PushKept
  <2>1. cs \in Sessions /\ cid \in Ids
    BY <1>9 DEF PushKept, CreateOK
  <2>2. held' \subseteq [s : Sessions, id : Ids]
    BY <1>9, <2>1 DEF PushKept, RingsOK
  <2>3. UNCHANGED <<ready, frames, recycle, rec_head, rec_tail, freed, pos, lost, clean>>
    BY <1>9 DEF PushKept, rings
  <2> QED
    BY <2>2, <2>3 DEF RingsOK
<1>10. ASSUME NEW w \in held, DropWrap(w) PROVE RingsOK'
  BY <1>10 DEF DropWrap, rings, RingsOK
<1>11. ASSUME NEW t \in Threads, FinSpin(t) PROVE RingsOK'
  BY <1>11 DEF FinSpin, PushLoad, rings, RingsOK, Pushers
<1>12. ASSUME NEW t \in Threads, FinStore(t) PROVE RingsOK'
  <2>1. /\ fin[t].id \in Ids /\ Pushing(t) /\ PushStore(t, fin[t].id)
        /\ UNCHANGED <<held, lost, clean>>
    BY <1>12 DEF FinStore, FinOK, Finalizer
  <2> QED
    BY <2>1, Pushed DEF RingsOK, PushStore, Pushers
<1>13. CASE Start
  <2>1. ready' = <<>> /\ lost' \subseteq Ids
    BY <1>13, Queued DEF Start, RingsOK
  <2>2. UNCHANGED <<frames, recycle, rec_head, rec_tail, freed, pos, held, clean>>
    BY <1>13 DEF Start
  <2> QED
    BY <2>1, <2>2 DEF RingsOK
<1> QED
  BY <1>1, <1>2, <1>3, <1>4, <1>5, <1>6, <1>7, <1>8, <1>9, <1>10, <1>11, <1>12, <1>13
     DEF SourceNext, CreateCall, CreateStep, CreateFlushing, CreateBegin, CreateCheck,
         CreateMode, CreateLock, RecvEmpty, RecvLatest, CreateStamp, PushDropped,
         CreateDropped, FinLock, CallUnlock, Unlock, UnlockStop, FlushStop, Stop, PushLoad,
         PushStore, Take, vars, rings, stateVars, createVars

LEMMA StepState == TypeInv /\ [SourceNext]_vars => StateOK'
<1> SUFFICES ASSUME TypeInv, [SourceNext]_vars PROVE StateOK'
  OBVIOUS
<1> USE Constants DEF TypeInv
<1>1. CASE UNCHANGED stateVars /\ (c' = "lock" <=> c = "lock") /\ (c = "idle" => c' = "idle")
  BY <1>1 DEF StateOK, stateVars
<1>2. CASE CreateCall
  BY <1>2 DEF CreateCall, StateOK
<1>3. CASE CreateMode
  BY <1>3 DEF CreateMode, StateOK
<1>4. CASE CreateLock
  BY <1>4 DEF CreateLock, StateOK
<1>5. CASE Start
  <2>1. /\ starts' \in 1 .. MaxStarts /\ cur' \in Sessions /\ c' = c
        /\ stateLock' = stateLock /\ app' = "playing"
    BY <1>5 DEF Start, StateOK, Sessions, createVars
  <2>2. /\ latest_only' \in BOOLEAN /\ unlocked' \in BOOLEAN /\ flushing' \in BOOLEAN
    BY <1>5 DEF Start
  <2>3. stateLock = None /\ c = "idle"
    BY <1>5 DEF Start, StateOK
  <2>4. starts' \in 0 .. MaxStarts
    BY <2>1
  <2> QED
    BY <2>1, <2>2, <2>3, <2>4 DEF StateOK
<1>6. CASE CallUnlock
  BY <1>6 DEF CallUnlock, createVars, StateOK
<1>7. CASE Unlock
  BY <1>7 DEF Unlock, createVars, StateOK
<1>8. CASE UnlockStop
  BY <1>8 DEF UnlockStop, createVars, StateOK
<1>9. CASE FlushStop
  BY <1>9 DEF FlushStop, createVars, StateOK
<1>10. CASE Stop
  BY <1>10 DEF Stop, createVars, StateOK
<1> QED
  BY <1>1, <1>2, <1>3, <1>4, <1>5, <1>6, <1>7, <1>8, <1>9, <1>10
     DEF SourceNext, Publish, Drain, CreateStep, CreateFlushing, CreateBegin, CreateCheck,
         RecvEmpty, RecvFifo, RecvLatest, SkipLoad, SkipStore, SkipFull, RecvChosen,
         CreateStamp, PushKept, PushDropped, CreateDropped, DropWrap, FinLock, FinSpin,
         FinStore, PushLoad, PushStore, Take, vars, rings, stateVars, createVars, StateOK

LEMMA StepCreate == TypeInv /\ [SourceNext]_vars => CreateOK'
<1> SUFFICES ASSUME TypeInv, [SourceNext]_vars PROVE CreateOK'
  OBVIOUS
<1> USE Constants DEF TypeInv
<1>1. CASE UNCHANGED <<c, cs, cid>>
  BY <1>1 DEF CreateOK
<1>2. CASE CreateCall
  BY <1>2 DEF CreateCall, CreateOK
<1>3. CASE CreateFlushing
  BY <1>3 DEF CreateFlushing, CreateOK
<1>4. CASE CreateBegin
  BY <1>4 DEF CreateBegin, CreateOK, StateOK
<1>5. CASE CreateCheck
  BY <1>5 DEF CreateCheck, CreateOK
<1>6. CASE CreateMode
  BY <1>6 DEF CreateMode, CreateOK
<1>7. CASE CreateLock
  BY <1>7 DEF CreateLock, CreateOK
<1>8. CASE RecvEmpty
  BY <1>8 DEF RecvEmpty, CreateOK
<1>9. CASE RecvFifo
  <2>1. c \in {"recv", "skip", "take"} /\ c' = "stamp" /\ cs' = cs
    BY <1>9 DEF RecvFifo, Take
  <2>2. cid' \in Ids /\ 0 \notin Ids
    BY <1>9, Received DEF Ids
  <2> QED
    BY <2>1, <2>2 DEF CreateOK
<1>10. CASE RecvLatest
  BY <1>10 DEF RecvLatest, CreateOK
<1>11. CASE SkipFull
  BY <1>11 DEF SkipFull, CreateOK
<1>12. CASE RecvChosen
  <2>1. c \in {"recv", "skip", "take"} /\ c' = "stamp" /\ cs' = cs
    BY <1>12 DEF RecvChosen, Take
  <2>2. cid' \in Ids /\ 0 \notin Ids
    BY <1>12, Received DEF Ids
  <2> QED
    BY <2>1, <2>2 DEF CreateOK
<1>13. CASE CreateStamp
  BY <1>13 DEF CreateStamp, CreateOK
<1>14. CASE PushKept
  BY <1>14 DEF PushKept, CreateOK
<1>15. CASE PushDropped
  BY <1>15 DEF PushDropped, CreateOK
<1>16. CASE CreateDropped
  BY <1>16 DEF CreateDropped, CreateOK
<1> QED
  BY <1>1, <1>2, <1>3, <1>4, <1>5, <1>6, <1>7, <1>8, <1>9, <1>10, <1>11, <1>12, <1>13,
     <1>14, <1>15, <1>16
     DEF SourceNext, Publish, Drain, CreateStep, SkipLoad, SkipStore, DropWrap, FinLock,
         FinSpin, FinStore, Start, CallUnlock, Unlock, UnlockStop, FlushStop, Stop,
         PushLoad, PushStore, Take, vars, rings, stateVars, createVars

LEMMA StepRecv == TypeInv /\ [SourceNext]_vars => RecvOK'
<1> SUFFICES ASSUME TypeInv, [SourceNext]_vars PROVE RecvOK'
  OBVIOUS
<1> USE Constants DEF TypeInv
<1>1. CASE /\ UNCHANGED <<ready, ccur, clen, pos["create"]>>
           /\ (c' = c \/ {c, c'} \cap {"skip", "take"} = {})
  BY <1>1 DEF RecvOK, Pushing
<1>2. CASE Publish
  BY <1>2 DEF Publish, createVars, RecvOK, Pushing
<1>3. CASE RecvFifo
  BY <1>3 DEF RecvFifo, Take, RecvOK, RingsOK, Pushing
<1>4. CASE RecvLatest
  BY <1>4 DEF RecvLatest, rings, RecvOK, RingsOK, Pushing
<1>5. CASE SkipLoad
  BY <1>5 DEF SkipLoad, PushLoad, rings, createVars, RecvOK, RingsOK
<1>6. CASE SkipStore
  BY <1>6 DEF SkipStore, PushStore, RecvOK, RingsOK, Pushing, Pushers
<1>7. CASE SkipFull
  BY <1>7 DEF SkipFull, rings, RecvOK, Pushing
<1>8. CASE RecvChosen
  BY <1>8 DEF RecvChosen, Take, RecvOK, Pushing
<1>9. CASE Start
  BY <1>9 DEF Start, createVars, RecvOK, StateOK, Pushing
<1> QED
  BY <1>1, <1>2, <1>3, <1>4, <1>5, <1>6, <1>7, <1>8, <1>9
     DEF SourceNext, Drain, CreateCall, CreateStep, CreateFlushing, CreateBegin,
         CreateCheck, CreateMode, CreateLock, RecvEmpty, CreateStamp, PushKept, PushDropped,
         CreateDropped, DropWrap, FinLock, FinSpin, FinStore, CallUnlock, Unlock,
         UnlockStop, FlushStop, Stop, PushLoad, PushStore, Take, vars, rings, stateVars,
         createVars, RecvOK, Pushing, RingsOK, Pushers, Threads

LEMMA StepFin == TypeInv /\ [SourceNext]_vars => FinOK'
<1> SUFFICES ASSUME TypeInv, [SourceNext]_vars PROVE FinOK'
  OBVIOUS
<1> USE Constants DEF TypeInv
<1>1. CASE /\ fin' = fin /\ \A t \in Threads : pos'[t] = pos[t]
           /\ (c = "dropping" => c' = "dropping")
  BY <1>1 DEF FinOK, Pushing
<1>2. CASE PushDropped
  BY <1>2 DEF PushDropped, FinOK, CreateOK, Pushing, Threads, Finalizer
<1>3. CASE CreateDropped
  BY <1>3 DEF CreateDropped, FinOK, RingsOK, Pushing
<1>4. ASSUME NEW w \in held, DropWrap(w) PROVE FinOK'
  BY <1>4 DEF DropWrap, createVars, FinOK, RingsOK, Pushing, Threads, Finalizer
<1>5. ASSUME NEW t \in Threads, FinLock(t) PROVE FinOK'
  <2>1. /\ fin[t] # None /\ fin[t] \in Finalizer /\ fin[t].pc = "lock"
        /\ fin' = [fin EXCEPT ![t].pc = "spin"] /\ UNCHANGED <<c, pos>>
    BY <1>5 DEF FinLock, createVars, FinOK
  <2>2. /\ fin'[t] \in Finalizer /\ fin'[t].pc = "spin" /\ fin'[t] # None
        /\ \A u \in Threads : u # t => fin'[u] = fin[u]
        /\ fin' \in [Threads -> Finalizer \cup {None}]
    BY <2>1 DEF FinOK, Finalizer
  <2> QED
    BY <2>1, <2>2 DEF FinOK, Pushing, Threads
<1>6. ASSUME NEW t \in Threads, FinSpin(t) PROVE FinOK'
  <2>1. /\ fin[t] # None /\ fin[t] \in Finalizer /\ fin[t].pc = "spin"
        /\ fin' = [fin EXCEPT ![t].pc = "store"] /\ c' = c
        /\ pos' = [pos EXCEPT ![t] = rec_head]
    BY <1>6 DEF FinSpin, PushLoad, createVars, FinOK
  <2>2. /\ fin'[t] \in Finalizer /\ fin'[t].pc = "store" /\ fin'[t] # None
        /\ \A u \in Threads : u # t => fin'[u] = fin[u]
        /\ fin' \in [Threads -> Finalizer \cup {None}]
    BY <2>1 DEF FinOK, Finalizer
  <2>3. pos'[t] # None /\ \A u \in Threads : u # t => pos'[u] = pos[u]
    BY <2>1 DEF RingsOK, Pushers
  <2> QED
    BY <2>1, <2>2, <2>3 DEF FinOK, Pushing, Threads
<1>7. ASSUME NEW t \in Threads, FinStore(t) PROVE FinOK'
  BY <1>7 DEF FinStore, PushStore, createVars, FinOK, RingsOK, Pushing, Pushers
<1> QED
  BY <1>1, <1>2, <1>3, <1>4, <1>5, <1>6, <1>7
     DEF SourceNext, Publish, Drain, CreateCall, CreateStep, CreateFlushing, CreateBegin,
         CreateCheck, CreateMode, CreateLock, RecvEmpty, RecvFifo, RecvLatest, SkipLoad,
         SkipStore, SkipFull, RecvChosen, CreateStamp, PushKept, Start, CallUnlock, Unlock,
         UnlockStop, FlushStop, Stop, PushLoad, PushStore, Take, vars, rings, stateVars,
         createVars, RingsOK, Pushers, Threads

LEMMA StepLocks == TypeInv /\ [SourceNext]_vars => LocksOK'
<1> SUFFICES ASSUME TypeInv, [SourceNext]_vars PROVE LocksOK'
  OBVIOUS
<1> USE Constants DEF TypeInv
<1>1. CASE /\ UNCHANGED <<readerLock, fin>>
           /\ (c' \in Polling <=> c \in Polling) /\ (c \in Polling => cs' = cs)
  BY <1>1 DEF LocksOK
<1>2. CASE CreateLock
  BY <1>2 DEF CreateLock, LocksOK, CreateOK, Polling, Pushers
<1>3. CASE RecvEmpty
  BY <1>3 DEF RecvEmpty, LocksOK, CreateOK, Polling
<1>4. CASE RecvFifo
  BY <1>4 DEF RecvFifo, Take, LocksOK, CreateOK, Polling
<1>5. CASE RecvChosen
  BY <1>5 DEF RecvChosen, Take, LocksOK, FinOK, CreateOK, Polling, Pushers
<1>6. CASE PushDropped
  BY <1>6 DEF PushDropped, LocksOK, FinOK, Polling
<1>7. ASSUME NEW w \in held, DropWrap(w) PROVE LocksOK'
  BY <1>7 DEF DropWrap, createVars, LocksOK
<1>8. ASSUME NEW t \in Threads, FinLock(t) PROVE LocksOK'
  BY <1>8 DEF FinLock, createVars, LocksOK, FinOK, Pushers, Finalizer
<1>9. ASSUME NEW t \in Threads, FinSpin(t) PROVE LocksOK'
  BY <1>9 DEF FinSpin, PushLoad, createVars, LocksOK, FinOK, Finalizer
<1>10. ASSUME NEW t \in Threads, FinStore(t) PROVE LocksOK'
  BY <1>10 DEF FinStore, PushStore, createVars, LocksOK, FinOK, Finalizer
<1> QED
  BY <1>1, <1>2, <1>3, <1>4, <1>5, <1>6, <1>7, <1>8, <1>9, <1>10
     DEF SourceNext, Publish, Drain, CreateCall, CreateStep, CreateFlushing, CreateBegin,
         CreateCheck, CreateMode, RecvLatest, SkipLoad, SkipStore, SkipFull, CreateStamp,
         PushKept, CreateDropped, Start, CallUnlock, Unlock, UnlockStop, FlushStop, Stop,
         PushLoad, PushStore, Take, vars, rings, stateVars, createVars, Polling

\* SourceTypeOK: the places and locals of create, of both finalizers and of the state
\* changes stay consistent, and each mutex is held by the call whose place says so, in
\* every order of stop, start and of drops of buffers of ended sessions.
THEOREM SourceTypeCorrect == SourceSpec => []SourceTypeOK
<1>1. TypeInv /\ [SourceNext]_vars => TypeInv'
  BY StepRings, StepState, StepCreate, StepRecv, StepFin, StepLocks DEF TypeInv
<1> QED
  BY <1>1, InitType, TypeInvImplies, PTL DEF SourceSpec

--------------------------------------------------------------------------------
(* Who waits for whom. *)

\* The call waits for no other.
Free(x) == \A y \in Calls : ~WaitsFor(x, y)

\* Whom each call may wait for: the holder of a mutex, which LocksOK places.
LEMMA WaitsAre ==
    ASSUME TypeInv, NEW y \in Calls
    PROVE  /\ WaitsFor("create", y) =>
                \/ y \in Threads /\ c = "lock" /\ fin[y].pc # "lock"
                \/ y = "stream" /\ c = "dropping"
           /\ \A t \in Threads : WaitsFor(t, y) =>
                /\ fin[t].pc = "lock" /\ (t = "stream" => c = "dropping")
                /\ \/ y = "create" /\ c \in Polling
                   \/ y \in Threads /\ fin[y].pc # "lock"
           /\ WaitsFor("app", y) => y = "create"
<1> USE Constants
<1>1. /\ None \notin Calls /\ "app" \notin Pushers /\ "create" \notin Threads
      /\ Pushers = Threads \cup {"create"}
  BY SourceAssumption DEF Calls, Pushers, Threads
<1>2. stateLock = y => y = "create" /\ c = "lock"
  BY <1>1 DEF TypeInv, StateOK
<1>3. ASSUME NEW s \in Sessions, readerLock[s] = y
      PROVE  \/ y = "create" /\ c \in Polling
             \/ y \in Threads /\ fin[y].pc # "lock"
  <2>1. y \in Pushers
    BY <1>1, <1>3 DEF TypeInv, LocksOK
  <2> QED
    BY <1>1, <1>3, <2>1 DEF TypeInv, LocksOK
<1>4. /\ c = "lock" => cs \in Sessions /\ c \notin Polling
      /\ \A t \in Threads : fin[t] # None => fin[t].s \in Sessions
      /\ fin["stream"] # None => c = "dropping"
  BY DEF TypeInv, CreateOK, FinOK, Finalizer, Polling
<1>5. WaitsFor("create", y) =>
        \/ y \in Threads /\ c = "lock" /\ fin[y].pc # "lock"
        \/ y = "stream" /\ c = "dropping"
  BY <1>1, <1>2, <1>3, <1>4 DEF WaitsFor
<1>6. ASSUME NEW t \in Threads, WaitsFor(t, y)
      PROVE  /\ fin[t].pc = "lock" /\ (t = "stream" => c = "dropping")
             /\ \/ y = "create" /\ c \in Polling
                \/ y \in Threads /\ fin[y].pc # "lock"
  <2>1. fin[t] # None /\ fin[t].pc = "lock" /\ readerLock[fin[t].s] = y
    BY <1>1, <1>6 DEF WaitsFor, Pushers
  <2> QED
    BY <1>3, <1>4, <2>1
<1>7. WaitsFor("app", y) => y = "create"
  BY <1>1, <1>2 DEF WaitsFor, Pushers
<1> QED
  BY <1>5, <1>6, <1>7

\* What a finalizer waits for is free: create that polls the reader, or another
\* finalizer past its lock.
LEMMA FinalizerWaits ==
    ASSUME TypeInv, NEW t \in Threads, NEW y \in Calls, WaitsFor(t, y)
    PROVE  Free(y)
<1>1. CASE y = "create" /\ c \in Polling
  BY <1>1, WaitsAre DEF Free, Polling
<1>2. CASE y \in Threads /\ fin[y].pc # "lock"
  BY <1>2, WaitsAre DEF Free
<1> QED
  BY <1>1, <1>2, WaitsAre

\* No four waits of the source's calls follow one another: the state changes wait for
\* create, create for a finalizer, and one of those for what is free.
THEOREM SourceWaitsEndCorrect == SourceSpec => []SourceWaitsEnd
<1>1. ASSUME TypeInv PROVE SourceWaitsEnd
  <2>1. Threads \subseteq Calls /\ Calls = Threads \cup {"create", "app"}
    BY DEF Calls, Pushers, Threads
  <2>2. ASSUME NEW w \in Calls, NEW x \in Calls, WaitsFor(w, x), w # "app" PROVE x # "app"
    BY <1>1, <2>1, <2>2, WaitsAre DEF Threads
  <2>3. ASSUME NEW w \in Calls, NEW x \in Calls, WaitsFor(w, x), w = "create"
        PROVE  x \in Threads
    BY <1>1, <2>3, WaitsAre DEF Threads
  <2>4. ASSUME NEW w \in Calls, NEW x \in Calls, WaitsFor(w, x), w = "app"
        PROVE  x = "create"
    BY <1>1, <2>4, WaitsAre
  <2> SUFFICES ASSUME NEW v \in Calls, NEW w \in Calls, NEW x \in Calls, NEW y \in Calls,
                      WaitsFor(v, w), WaitsFor(w, x), WaitsFor(x, y)
               PROVE  Free(y)
    BY DEF SourceWaitsEnd, Free
  <2>5. w # "app" /\ x # "app"
    BY <2>1, <2>2, <2>4
  <2>6. CASE x \in Threads
    BY <1>1, <2>6, FinalizerWaits
  <2>7. CASE x = "create"
    <3>1. w \in Threads
      BY <2>1, <2>3, <2>5, <2>7, Constants
    <3>2. Free(x)
      BY <1>1, <3>1, FinalizerWaits
    <3> QED
      BY <3>2 DEF Free
  <2> QED
    BY <2>1, <2>5, <2>6, <2>7
<1>2. TypeInv /\ [SourceNext]_vars => TypeInv'
  BY StepRings, StepState, StepCreate, StepRecv, StepFin, StepLocks DEF TypeInv
<1> QED
  BY <1>1, <1>2, InitType, PTL DEF SourceSpec

--------------------------------------------------------------------------------
(* The ready ring and the recycle ring. *)

\* The newest id taken off the ready ring.
Taken == frames - Len(ready)

\* Ids are queued in the order published; those that an attach or a full recycle ring
\* makes nobody's leave the queue with the receive that skipped them.
QueueInv ==
    /\ Len(ready) <= frames /\ lost \subseteq 1 .. frames
    /\ \A i \in 1 .. Len(ready) :
         /\ ready[i] = Taken + i
         /\ ready[i] \in lost <=> c = "take" /\ i \in ccur .. clen - 2

\* Initially nothing is queued.
LEMMA InitQueue == SourceInit => QueueInv
BY DEF SourceInit, QueueInv

\* Only Publish and the receives and attaches change the queue.
LEMMA StepQueue == TypeInv /\ QueueInv /\ [SourceNext]_vars => QueueInv'
<1> SUFFICES ASSUME TypeInv, QueueInv, [SourceNext]_vars PROVE QueueInv'
  OBVIOUS
<1>1. /\ ready \in Seq(Ids) /\ Len(ready) \in Nat /\ frames \in Nat
      /\ ccur \in Nat /\ clen \in Nat /\ Taken \in Nat
      /\ c \in {"skip", "take"} =>
           /\ 1 <= ccur /\ clen <= Len(ready)
           /\ ccur < clen \/ (ccur = 1 /\ clen = 1)
  BY DEF TypeInv, RingsOK, RecvOK, QueueInv, Taken
<1>2. \A i \in 1 .. Len(ready) : ready[i] \in 1 .. frames
  BY <1>1 DEF QueueInv, Taken
<1>3. CASE UNCHANGED <<ready, frames, lost, c, ccur, clen>>
  BY <1>3 DEF QueueInv, Taken
<1>4. CASE UNCHANGED <<ready, frames, lost>> /\ c # "take" /\ c' # "take"
  BY <1>4 DEF QueueInv, Taken
<1>5. CASE Publish
  <2>1. /\ ready' = Append(ready, frames + 1) /\ frames' = frames + 1
        /\ UNCHANGED <<c, ccur, clen, lost>>
    BY <1>5 DEF Publish, createVars
  <2>2. /\ Len(ready') = Len(ready) + 1 /\ ready'[Len(ready) + 1] = frames + 1
        /\ \A i \in 1 .. Len(ready) : ready'[i] = ready[i]
    BY <1>1, <2>1
  <2>3. Taken' = Taken
    BY <1>1, <2>1, <2>2 DEF Taken
  <2>4. frames + 1 = Taken + (Len(ready) + 1) /\ frames + 1 \notin lost
    BY <1>1 DEF Taken, QueueInv
  <2>5. c = "take" => Len(ready) + 1 \notin ccur .. clen - 2
    BY <1>1
  <2>6. ASSUME NEW i \in 1 .. Len(ready')
        PROVE  /\ ready'[i] = Taken' + i
               /\ ready'[i] \in lost' <=> c' = "take" /\ i \in ccur' .. clen' - 2
    <3>1. CASE i = Len(ready) + 1
      BY <2>1, <2>2, <2>3, <2>4, <2>5, <3>1
    <3>2. CASE i \in 1 .. Len(ready)
      BY <2>1, <2>2, <2>3, <3>2 DEF QueueInv
    <3> QED
      BY <1>1, <2>2, <3>1, <3>2
  <2> QED
    BY <1>1, <2>1, <2>2, <2>6 DEF QueueInv
<1>6. CASE RecvFifo \/ RecvChosen
  <2>1. PICK i \in 1 .. Len(ready) :
          /\ Len(ready') = Len(ready) - i
          /\ \A k \in 1 .. Len(ready') : ready'[k] = ready[k + i]
          /\ RecvFifo => i = 1
          /\ RecvChosen => i = IF clen = 1 THEN 1 ELSE clen - 1
    BY <1>6, Received
  <2>2. frames' = frames /\ lost' = lost /\ c' = "stamp"
    BY <1>6 DEF RecvFifo, RecvChosen, Take
  <2>3. c = "take" => i = clen - 1
    BY <1>6, <2>1 DEF RecvFifo, TypeInv, RecvOK
  <2>4. Taken' = Taken + i
    BY <1>1, <2>1, <2>2 DEF Taken
  <2>5. ASSUME NEW k \in 1 .. Len(ready')
        PROVE  ready'[k] = Taken' + k /\ ready'[k] \notin lost'
    <3>1. k + i \in 1 .. Len(ready) /\ ready'[k] = ready[k + i] /\ k \in Nat /\ i \in Nat
      BY <1>1, <2>1
    <3>2. c = "take" => k + i \notin ccur .. clen - 2
      BY <1>1, <2>3, <3>1
    <3> QED
      BY <1>1, <2>2, <2>4, <3>1, <3>2 DEF QueueInv
  <2> QED
    BY <1>1, <2>1, <2>2, <2>5 DEF QueueInv
<1>7. CASE SkipFull
  <2>1. /\ UNCHANGED <<ready, frames, ccur, clen>> /\ c = "skip" /\ c' = "take"
        /\ lost' = lost \cup {ready[i] : i \in ccur .. clen - 2}
    BY <1>7 DEF SkipFull, rings
  <2>2. \A i \in ccur .. clen - 2 : i \in 1 .. Len(ready)
    BY <1>1, <2>1
  <2>3. lost' \subseteq 1 .. frames
    BY <1>2, <2>1, <2>2 DEF QueueInv
  <2>4. ASSUME NEW i \in 1 .. Len(ready)
        PROVE  ready[i] \in lost' <=> i \in ccur .. clen - 2
    BY <1>1, <2>1, <2>2 DEF QueueInv
  <2> QED
    BY <2>1, <2>3, <2>4 DEF QueueInv, Taken
<1>8. CASE Start
  <2>1. /\ Len(ready') = 0 /\ frames' = frames
        /\ lost' = lost \cup {ready[i] : i \in 1 .. Len(ready)}
    BY <1>1, <1>8 DEF Start
  <2>2. lost' \subseteq 1 .. frames
    BY <1>2, <2>1 DEF QueueInv
  <2> QED
    BY <1>1, <2>1, <2>2 DEF QueueInv
<1> QED
  BY <1>3, <1>4, <1>5, <1>6, <1>7, <1>8
     DEF SourceNext, CreateStep, Drain, CreateCall, CreateFlushing, CreateBegin, CreateCheck,
         CreateMode, CreateLock, RecvEmpty, RecvLatest, SkipLoad, SkipStore, CreateStamp,
         PushKept, PushDropped, CreateDropped, DropWrap, FinLock, FinSpin, FinStore,
         CallUnlock, Unlock, UnlockStop, FlushStop, Stop, PushLoad, PushStore, vars, rings,
         stateVars, createVars

\* Positions of the ready ring, and the ids there.
LEMMA QueueFacts ==
    ASSUME TypeInv, QueueInv
    PROVE  /\ Len(ready) \in Nat /\ frames \in Nat /\ frames = Taken + Len(ready)
           /\ Taken \in Nat /\ ccur \in Nat /\ clen \in Nat
           /\ \A i \in 1 .. Len(ready) : ready[i] = Taken + i /\ ready[i] \in Ids
<1>1. /\ ready \in Seq(Ids) /\ Len(ready) \in Nat /\ frames \in Nat
      /\ ccur \in Nat /\ clen \in Nat
  BY DEF TypeInv, RingsOK, RecvOK
<1>2. Taken \in Nat /\ frames = Taken + Len(ready)
  BY <1>1 DEF QueueInv, Taken
<1> QED
  BY <1>1, <1>2 DEF QueueInv

\* While no two sessions push at once the recycle ring has one pusher at most, and the
\* head it loaded is the ring's.
RingInv ==
    /\ rec_tail <= rec_head /\ rec_head <= rec_tail + RecCap
    /\ \A t \in Pushers : Pushing(t) => pos[t] = rec_head /\ rec_head < rec_tail + RecCap
    /\ \A t, u \in Pushers : Pushing(t) /\ Pushing(u) => t = u

\* Initially nobody pushes.
LEMMA InitRing == SourceInit => RingInv
BY Constants DEF SourceInit, RingInv, Pushing

\* Once two sessions have been in a push, the history says so for good.
LEMMA StepClean == [SourceNext]_vars /\ clean' => clean
BY DEF SourceNext, CreateStep, Publish, Drain, CreateCall, CreateFlushing, CreateBegin,
       CreateCheck, CreateMode, CreateLock, RecvEmpty, RecvFifo, RecvLatest, SkipLoad,
       SkipStore, SkipFull, RecvChosen, CreateStamp, PushKept, PushDropped, CreateDropped,
       DropWrap, FinLock, FinSpin, FinStore, Start, CallUnlock, Unlock, UnlockStop,
       FlushStop, Stop, PushLoad, PushStore, Take, vars, rings, stateVars, createVars

\* Whoever is in a push holds the mutex of its session's reader.
LEMMA PusherLocks ==
    ASSUME TypeInv, NEW t \in Pushers, Pushing(t)
    PROVE  SessionOf(t) \in Sessions /\ readerLock[SessionOf(t)] = t
<1>1. CASE t = "create"
  BY <1>1 DEF TypeInv, RecvOK, CreateOK, LocksOK, Polling, SessionOf
<1>2. CASE t \in Threads
  <2>1. t # "create" /\ fin[t] # None /\ fin[t].pc = "store" /\ fin[t] \in Finalizer
    BY <1>2, Constants DEF TypeInv, FinOK
  <2> QED
    BY <1>2, <2>1 DEF TypeInv, LocksOK, SessionOf, Finalizer
<1> QED
  BY <1>1, <1>2 DEF Pushers

\* A push that begins under the mutex of its reader, and leaves the history clean, is
\* the only one.
LEMMA OnlyPusher ==
    ASSUME TypeInv, RingInv, NEW t \in Pushers, ~Pushing(t), PushLoad(t), clean',
           readerLock[SessionOf(t)] = t, UNCHANGED <<rec_head, rec_tail>>
    PROVE  RingInv'
<1>1. ASSUME NEW u \in Pushers, Pushing(u) PROVE FALSE
  <2>1. SessionOf(u) = SessionOf(t)
    BY <1>1 DEF PushLoad
  <2> QED
    BY <1>1, <2>1, PusherLocks
<1>2. /\ rec_head \in Nat /\ rec_tail \in Nat /\ pos \in [Pushers -> Nat \cup {None}]
  BY DEF TypeInv, RingsOK
<1>3. pos'[t] = rec_head /\ \A u \in Pushers : u # t => pos'[u] = None
  BY <1>1, <1>2 DEF PushLoad, Pushing
<1>4. rec_head < rec_tail + RecCap
  BY <1>2, Constants DEF PushLoad, Room
<1> QED
  BY <1>3, <1>4 DEF RingInv, Pushing

\* A push that ends moves the head it loaded on by one.
LEMMA PushEnds ==
    ASSUME TypeInv, RingInv, NEW t \in Pushers, Pushing(t), NEW id, PushStore(t, id)
    PROVE  RingInv' /\ rec_head' = rec_head + 1
<1>1. /\ rec_head \in Nat /\ rec_tail \in Nat /\ pos \in [Pushers -> Nat \cup {None}]
  BY DEF TypeInv, RingsOK
<1>2. pos[t] = rec_head /\ rec_head < rec_tail + RecCap
  BY DEF RingInv
<1>3. rec_head' = rec_head + 1 /\ rec_tail' = rec_tail /\ \A u \in Pushers : pos'[u] = None
  BY <1>1, <1>2 DEF PushStore, RingInv, Pushing
<1> QED
  BY <1>1, <1>2, <1>3, Constants DEF RingInv, Pushing

\* While clean, the recycle ring stays consistent.
LEMMA StepRing == TypeInv /\ RingInv /\ [SourceNext]_vars /\ clean' => RingInv'
<1> SUFFICES ASSUME TypeInv, RingInv, [SourceNext]_vars, clean' PROVE RingInv'
  OBVIOUS
<1>1. CASE UNCHANGED <<rec_head, rec_tail, pos>>
  BY <1>1 DEF RingInv, Pushing
<1>2. CASE Drain
  <2>1. rec_head \in Nat /\ rec_tail \in Nat
    BY DEF TypeInv, RingsOK
  <2>2. rec_head # rec_tail /\ rec_tail' = rec_tail + 1 /\ UNCHANGED <<rec_head, pos>>
    BY <1>2 DEF Drain
  <2> QED
    BY <2>1, <2>2, Constants DEF RingInv, Pushing
<1>3. CASE SkipLoad
  <2>1. /\ PushLoad("create") /\ ~Pushing("create") /\ UNCHANGED <<rec_head, rec_tail>>
        /\ "create" \in Pushers
    BY <1>3 DEF SkipLoad, rings, Pushers
  <2>2. readerLock[SessionOf("create")] = "create"
    BY <1>3 DEF SkipLoad, TypeInv, CreateOK, LocksOK, Polling, SessionOf
  <2> QED
    BY <2>1, <2>2, OnlyPusher
<1>4. CASE SkipStore
  <2>1. Pushing("create") /\ PushStore("create", ready[ccur]) /\ "create" \in Pushers
    BY <1>4 DEF SkipStore, Pushers
  <2> QED
    BY <2>1, PushEnds
<1>5. ASSUME NEW t \in Threads, FinSpin(t) PROVE RingInv'
  <2>1. /\ PushLoad(t) /\ ~Pushing(t) /\ UNCHANGED <<rec_head, rec_tail>>
        /\ t \in Pushers /\ t # "create"
    BY <1>5, Constants DEF FinSpin, rings, Pushers, TypeInv, FinOK
  <2>2. readerLock[SessionOf(t)] = t
    BY <1>5, <2>1 DEF FinSpin, TypeInv, FinOK, LocksOK, SessionOf, Finalizer
  <2> QED
    BY <2>1, <2>2, OnlyPusher
<1>6. ASSUME NEW t \in Threads, FinStore(t) PROVE RingInv'
  <2>1. Pushing(t) /\ PushStore(t, fin[t].id) /\ t \in Pushers
    BY <1>6 DEF FinStore, Pushers, TypeInv, FinOK
  <2> QED
    BY <2>1, PushEnds
<1> QED
  BY <1>1, <1>2, <1>3, <1>4, <1>5, <1>6
     DEF SourceNext, CreateStep, Publish, CreateCall, CreateFlushing, CreateBegin,
         CreateCheck, CreateMode, CreateLock, RecvEmpty, RecvFifo, RecvLatest, SkipFull,
         RecvChosen, CreateStamp, PushKept, PushDropped, CreateDropped, DropWrap, FinLock,
         Start, CallUnlock, Unlock, UnlockStop, FlushStop, Stop, Take, vars, rings,
         stateVars, createVars

--------------------------------------------------------------------------------
(* Who gives an id back, or has. *)

\* Ids queued that no receive has passed over.
Waiting == Taken + (IF c \in {"skip", "take"} THEN ccur ELSE 1) .. frames

\* Ids nobody recycles: skipped by an attach, or dropped on a full recycle ring.
Gone == {i \in lost : i <= Taken}
Live == (1 .. frames) \ Gone

\* Places of all ids at once: a triple of kind, place and id for each.
ReadyTokens == {<<"ready", i, i>> : i \in Waiting}
HeldTokens  == {<<"held", w, w.id>> : w \in held}
FinTokens   == {<<"fin", t, fin[t].id>> : t \in {x \in Threads : fin[x] # None}}
HandTokens  == {<<"create", i, i>> : i \in {cid} \ {0}}
RingTokens  == {<<"ring", n, recycle[n % RecCap]>> :
                  n \in {m \in rec_tail .. rec_head - 1 : recycle[m % RecCap] # 0}}
FreedTokens == {t \in {<<"freed", n, i>> : n \in Nat \ {0}, i \in Ids} : t[2] <= freed[t[3]]}

Tokens == ReadyTokens \cup HeldTokens \cup FinTokens \cup HandTokens \cup RingTokens
            \cup FreedTokens

\* Every id that is not gone has one token, and nothing else has.
OneToken ==
    /\ \A t \in Tokens : t[3] \in Live
    /\ \A i \in Live : \E t \in Tokens : t[3] = i
    /\ \A t, u \in Tokens : t[3] = u[3] => t = u

SourceInv == QueueInv /\ (clean => RingInv /\ OneToken)

\* Kinds of tokens differ.
LEMMA Kinds ==
    /\ \A t \in ReadyTokens : t[1] = "ready"
    /\ \A t \in HeldTokens : t[1] = "held"
    /\ \A t \in FinTokens : t[1] = "fin"
    /\ \A t \in HandTokens : t[1] = "create"
    /\ \A t \in RingTokens : t[1] = "ring"
    /\ \A t \in FreedTokens : t[1] = "freed"
BY DEF ReadyTokens, HeldTokens, FinTokens, HandTokens, RingTokens, FreedTokens

\* A step that leaves every token and every live id alone.
LEMMA TokensStay ==
    ASSUME OneToken, Tokens' = Tokens, Live' = Live
    PROVE  OneToken'
BY DEF OneToken

\* A step after which token u is for the id that t was for.
LEMMA TokenMoves ==
    ASSUME OneToken, NEW t \in Tokens, NEW u, u[3] = t[3],
           Tokens' = (Tokens \ {t}) \cup {u}, Live' = Live
    PROVE  OneToken'
BY DEF OneToken

\* A step after which the queued ids D are gone, with their tokens.
LEMMA TokensGo ==
    ASSUME OneToken, NEW D, \A i \in D : <<"ready", i, i>> \in Tokens,
           Tokens' = Tokens \ {<<"ready", i, i>> : i \in D}, Live' = Live \ D
    PROVE  OneToken'
<1>1. \A t \in Tokens : t[3] \in D => t = <<"ready", t[3], t[3]>>
  BY DEF OneToken
<1>2. \A t \in Tokens' : t \in Tokens /\ t[3] \notin D
  BY <1>1
<1>3. \A t \in Tokens : t[3] \notin D => t \in Tokens'
  OBVIOUS
<1> QED
  BY <1>2, <1>3 DEF OneToken

\* Initially nobody has an id.
LEMMA InitToken == SourceInit => OneToken
<1> SUFFICES ASSUME SourceInit PROVE OneToken
  OBVIOUS
<1>1. Waiting = {} /\ Live = {}
  BY DEF SourceInit, Waiting, Taken, Live
<1>2. \A n \in Int : n % RecCap \in 0 .. RecCap - 1
  BY Constants
<1>3. \A n \in Nat : recycle[n % RecCap] = 0
  BY <1>2 DEF SourceInit
<1>4. RingTokens = {}
  BY <1>3, Constants DEF SourceInit, RingTokens
<1>5. FreedTokens = {}
  <2>1. \A i \in Ids : freed[i] = 0
    BY DEF SourceInit
  <2> QED
    BY <2>1 DEF FreedTokens
<1>6. ReadyTokens = {} /\ HeldTokens = {} /\ FinTokens = {} /\ HandTokens = {}
  BY <1>1 DEF SourceInit, ReadyTokens, HeldTokens, FinTokens, HandTokens
<1> QED
  BY <1>1, <1>4, <1>5, <1>6 DEF OneToken, Tokens

\* Positions less than a ring apart have different slots.
LEMMA SlotsDiffer ==
    ASSUME NEW a \in Nat, NEW b \in Nat, NEW k \in Nat \ {0}, a < b, b < a + k
    PROVE  a % k # b % k
<1> DEFINE p == a \div k
           q == b \div k
<1>1. p \in Int /\ q \in Int /\ a = k * p + (a % k) /\ b = k * q + (b % k)
  OBVIOUS
<1> SUFFICES ASSUME a % k = b % k PROVE FALSE
  OBVIOUS
<1> HIDE DEF p, q
<1>2. b - a = k * (q - p)
  BY <1>1
<1>3. CASE q - p <= 0
  <2>1. k * (q - p) <= 0
    BY <1>1, <1>3
  <2> QED
    BY <1>2, <2>1
<1>4. CASE q - p >= 1
  <2>1. k * (q - p) >= k
    BY <1>1, <1>4
  <2> QED
    BY <1>2, <2>1
<1> QED
  BY <1>1, <1>3, <1>4

\* The recycle ring gains what a push stores: its slot held nothing still to be drained.
LEMMA RingGains ==
    ASSUME TypeInv, RingInv, NEW t \in Pushers, Pushing(t), NEW id \in Ids, PushStore(t, id)
    PROVE  RingTokens' = RingTokens \cup {<<"ring", rec_head, id>>}
<1>1. /\ rec_head \in Nat /\ rec_tail \in Nat /\ RecCap \in Nat \ {0}
      /\ recycle \in [0 .. RecCap - 1 -> {0} \cup Ids]
  BY Constants DEF TypeInv, RingsOK
<1>2. /\ pos[t] = rec_head /\ rec_tail <= rec_head /\ rec_head < rec_tail + RecCap
  BY DEF RingInv
<1>3. /\ rec_head % RecCap \in 0 .. RecCap - 1 /\ id # 0
      /\ recycle' = [recycle EXCEPT ![rec_head % RecCap] = id]
      /\ rec_head' = rec_head + 1 /\ rec_tail' = rec_tail
  BY <1>1, <1>2 DEF PushStore, Ids
<1>4. recycle'[rec_head % RecCap] = id
  BY <1>1, <1>3
<1>5. ASSUME NEW n \in rec_tail .. rec_head - 1
      PROVE  recycle'[n % RecCap] = recycle[n % RecCap]
  <2>1. n \in Nat /\ n < rec_head /\ rec_head < n + RecCap
    BY <1>1, <1>2
  <2>2. n % RecCap # rec_head % RecCap
    BY <1>1, <2>1, SlotsDiffer
  <2>3. n % RecCap \in 0 .. RecCap - 1
    BY <1>1, <2>1
  <2> QED
    BY <1>1, <1>3, <2>2, <2>3
<1>6. rec_tail' .. rec_head' - 1 = (rec_tail .. rec_head - 1) \cup {rec_head}
  BY <1>1, <1>2, <1>3
<1> DEFINE N == {m \in rec_tail .. rec_head - 1 : recycle[m % RecCap] # 0}
           M == {m \in rec_tail' .. rec_head' - 1 : recycle'[m % RecCap] # 0}
<1>7. M = N \cup {rec_head}
  BY <1>3, <1>4, <1>5, <1>6
<1>8. \A n \in N : recycle'[n % RecCap] = recycle[n % RecCap]
  BY <1>5
<1>9. RingTokens = {<<"ring", n, recycle[n % RecCap]>> : n \in N}
  BY DEF RingTokens
<1>10. RingTokens' = {<<"ring", n, recycle'[n % RecCap]>> : n \in M}
  BY DEF RingTokens
<1> HIDE DEF N, M
<1> QED
  BY <1>4, <1>7, <1>8, <1>9, <1>10

\* Every step moves a token, or none, or makes queued ids nobody's.
LEMMA StepToken ==
    TypeInv /\ QueueInv /\ RingInv /\ OneToken /\ [SourceNext]_vars => OneToken'
<1> SUFFICES ASSUME TypeInv, QueueInv, RingInv, OneToken, [SourceNext]_vars PROVE OneToken'
  OBVIOUS
<1>1. /\ Len(ready) \in Nat /\ frames \in Nat /\ frames = Taken + Len(ready) /\ Taken \in Nat
      /\ ccur \in Nat /\ clen \in Nat
      /\ \A i \in 1 .. Len(ready) : ready[i] = Taken + i /\ ready[i] \in Ids
  BY QueueFacts
<1>2. ASSUME UNCHANGED <<ReadyTokens, HeldTokens, FinTokens, HandTokens, RingTokens,
                         FreedTokens, Live>>
      PROVE  OneToken'
  BY <1>2, TokensStay DEF Tokens
<1>3. CASE UNCHANGED <<ready, frames, recycle, rec_head, rec_tail, freed, ccur, cid, held,
                       fin, lost>> /\ (c' = c \/ {c, c'} \cap {"skip", "take"} = {})
  <2>1. Taken' = Taken /\ Waiting' = Waiting /\ Live' = Live
    BY <1>3 DEF Taken, Waiting, Live, Gone
  <2> QED
    BY <1>2, <1>3, <2>1 DEF ReadyTokens, HeldTokens, FinTokens, HandTokens, RingTokens,
                            FreedTokens
<1>4. CASE RecvLatest \/ SkipFull
  <2>1. /\ UNCHANGED <<ready, frames, recycle, rec_head, rec_tail, freed, cid, held, fin>>
        /\ Taken' = Taken
    BY <1>4 DEF RecvLatest, SkipFull, rings, Taken
  <2>2. Waiting' = Waiting
    BY <1>4, <2>1 DEF RecvLatest, SkipFull, Waiting
  <2>3. \A i \in lost' : i \in lost \/ i > Taken
    <3>1. CASE RecvLatest
      BY <3>1 DEF RecvLatest
    <3>2. CASE SkipFull
      <4>1. \A i \in ccur .. clen - 2 : i \in 1 .. Len(ready)
        BY <1>1, <3>2 DEF SkipFull, TypeInv, RecvOK
      <4>2. \A i \in 1 .. Len(ready) : ready[i] > Taken
        BY <1>1
      <4> QED
        BY <3>2, <4>1, <4>2 DEF SkipFull
    <3> QED
      BY <1>4, <3>1, <3>2
  <2>4. lost \subseteq lost' /\ lost \subseteq Nat /\ lost' \subseteq Nat
    BY <1>4, StepRings DEF RecvLatest, SkipFull, TypeInv, RingsOK, Ids
  <2>5. Gone' = Gone
    <3>1. \A i \in lost' : i <= Taken => i \in lost
      BY <1>1, <2>3, <2>4
    <3> QED
      BY <2>1, <2>4, <3>1 DEF Gone
  <2> QED
    BY <1>2, <2>1, <2>2, <2>5 DEF ReadyTokens, HeldTokens, FinTokens, HandTokens, RingTokens,
                                  FreedTokens, Live
<1>5. CASE Publish
  <2> DEFINE u == <<"ready", frames + 1, frames + 1>>
  <2>1. /\ frames' = frames + 1 /\ Len(ready') = Len(ready) + 1
        /\ UNCHANGED <<recycle, rec_head, rec_tail, freed, c, ccur, cid, held, fin, lost>>
    BY <1>5 DEF Publish, createVars, TypeInv, RingsOK
  <2>2. Taken' = Taken
    BY <1>1, <2>1 DEF Taken
  <2>3. Gone' = Gone /\ Live' = Live \cup {frames + 1}
    BY <1>1, <2>1, <2>2 DEF Live, Gone, QueueInv
  <2>4. Waiting' = Waiting \cup {frames + 1}
    BY <1>1, <2>1, <2>2 DEF Waiting, TypeInv, RecvOK
  <2>5. ReadyTokens' = ReadyTokens \cup {u}
    BY <2>4 DEF ReadyTokens
  <2>6. Tokens' = Tokens \cup {u}
    BY <2>1, <2>5 DEF Tokens, HeldTokens, FinTokens, HandTokens, RingTokens, FreedTokens
  <2>7. frames + 1 \notin Live /\ u[3] = frames + 1
    BY <1>1 DEF Live
  <2> HIDE DEF u
  <2> QED
    BY <2>3, <2>6, <2>7 DEF OneToken
<1>6. CASE Drain
  <2> DEFINE i == recycle[rec_tail % RecCap]
             t == <<"ring", rec_tail, i>>
             u == <<"freed", freed[i] + 1, i>>
  <2>1. /\ rec_head \in Nat /\ rec_tail \in Nat /\ rec_tail < rec_head
        /\ rec_tail' = rec_tail + 1 /\ freed' = [freed EXCEPT ![i] = @ + 1]
        /\ UNCHANGED <<ready, frames, recycle, rec_head, c, ccur, cid, held, fin, lost>>
    BY <1>6 DEF Drain, TypeInv, RingsOK, RingInv, createVars
  <2>2. /\ i \in {0} \cup Ids /\ freed \in [{0} \cup Ids -> Nat]
        /\ recycle \in [0 .. RecCap - 1 -> {0} \cup Ids]
    <3>1. rec_tail % RecCap \in 0 .. RecCap - 1
      BY <2>1, Constants
    <3> QED
      BY <3>1 DEF TypeInv, RingsOK
  <2>3. UNCHANGED <<ReadyTokens, HeldTokens, FinTokens, HandTokens>> /\ Live' = Live
    BY <2>1 DEF Taken, Waiting, Live, Gone, ReadyTokens, HeldTokens, FinTokens, HandTokens
  <2>4. rec_tail .. rec_head - 1 = {rec_tail} \cup (rec_tail' .. rec_head' - 1)
        /\ rec_tail \notin rec_tail' .. rec_head' - 1
    BY <2>1
  <2>5. CASE i = 0
    <3>1. RingTokens' = RingTokens
      BY <2>1, <2>4, <2>5 DEF RingTokens
    <3>2. \A k \in Ids : freed'[k] = freed[k]
      BY <2>1, <2>2, <2>5 DEF Ids
    <3>3. FreedTokens' = FreedTokens
      BY <3>2 DEF FreedTokens
    <3> QED
      BY <1>2, <2>3, <3>1, <3>3
  <2>6. CASE i # 0
    <3>1. t \in RingTokens /\ RingTokens' = RingTokens \ {t}
      BY <2>1, <2>4, <2>6 DEF RingTokens
    <3>2. i \in Ids /\ freed[i] \in Nat /\ freed'[i] = freed[i] + 1
      BY <2>1, <2>2, <2>6
    <3>3. \A k \in Ids : k # i => freed'[k] = freed[k] /\ freed[k] \in Nat
      BY <2>1, <2>2
    <3>4. FreedTokens' = FreedTokens \cup {u}
      <4>1. u \in FreedTokens'
        BY <3>2 DEF FreedTokens
      <4>2. ASSUME NEW n \in Nat \ {0}, NEW k \in Ids
            PROVE  <<"freed", n, k>> \in FreedTokens' <=>
                     <<"freed", n, k>> \in FreedTokens \/ <<"freed", n, k>> = u
        BY <3>2, <3>3 DEF FreedTokens
      <4>3. \A x \in FreedTokens \cup FreedTokens' :
              \E n \in Nat \ {0}, k \in Ids : x = <<"freed", n, k>>
        BY DEF FreedTokens
      <4> HIDE DEF u
      <4> QED
        BY <4>1, <4>2, <4>3
    <3>5. t[3] = u[3] /\ t[1] = "ring" /\ u[1] = "freed"
      OBVIOUS
    <3> HIDE DEF t, u
    <3>6. Tokens' = (Tokens \ {t}) \cup {u}
      BY <2>3, <3>1, <3>4, <3>5, Kinds DEF Tokens
    <3> QED
      BY <2>3, <3>1, <3>5, <3>6, TokenMoves DEF Tokens
  <2> QED
    BY <2>5, <2>6
<1>7. CASE RecvFifo \/ RecvChosen
  <2>1. PICK i \in 1 .. Len(ready) :
          /\ cid' = ready[i] /\ Len(ready') = Len(ready) - i
          /\ RecvFifo => i = 1
          /\ RecvChosen => i = IF clen = 1 THEN 1 ELSE clen - 1
    BY <1>7, Received
  <2> DEFINE id == Taken + i
             D == Waiting \ (id .. frames)
             t == <<"ready", id, id>>
             u == <<"create", id, id>>
  <2>2. /\ UNCHANGED <<frames, recycle, rec_head, rec_tail, freed, held, fin, lost>>
        /\ c' = "stamp" /\ cid = 0 /\ c \in {"recv", "skip", "take"}
    BY <1>7 DEF RecvFifo, RecvChosen, Take, TypeInv, CreateOK
  <2>3. id \in 1 .. frames /\ id # 0 /\ cid' = id /\ Taken' = id
    BY <1>1, <2>1, <2>2 DEF Taken
  <2>4. Waiting' = id + 1 .. frames
    BY <2>2, <2>3 DEF Waiting
  <2>5. /\ id \in Waiting
        /\ c = "take" => ccur < i /\ i = clen - 1 /\ D = Taken + ccur .. Taken + i - 1
        /\ c # "take" => D = {}
    BY <1>1, <1>7, <2>1, <2>2 DEF Waiting, RecvFifo, RecvChosen, TypeInv, RecvOK
  <2>6. Waiting = D \cup {id} \cup Waiting' /\ D \cap Waiting' = {} /\ id \notin D
    <3>1. id .. frames \subseteq Waiting
      BY <1>1, <2>3, <2>5 DEF Waiting
    <3>2. \A a, b \in Nat : a <= b => a .. b = {a} \cup (a + 1 .. b)
      OBVIOUS
    <3>3. id \in Nat /\ id <= frames
      BY <1>1, <2>3
    <3>4. id .. frames = {id} \cup Waiting'
      BY <1>1, <2>4, <3>2, <3>3
    <3>5. id \notin Waiting'
      BY <2>4, <3>3
    <3>6. Waiting = D \cup (id .. frames) /\ D \cap (id .. frames) = {}
      BY <3>1
    <3> QED
      BY <3>4, <3>5, <3>6
  <2>7. lost \subseteq Nat /\ \A k \in 1 .. i : Taken + k \in lost <=> Taken + k \in D
    <3>1. ASSUME NEW k \in 1 .. i
          PROVE  Taken + k \in lost <=> c = "take" /\ k \in ccur .. clen - 2
      <4>1. k \in 1 .. Len(ready)
        BY <1>1
      <4>2. ready[k] = Taken + k
        BY <1>1, <4>1
      <4> QED
        BY <4>1, <4>2 DEF QueueInv
    <3>2. \A k \in 1 .. i : Taken + k \in D <=> c = "take" /\ k \in ccur .. clen - 2
      <4> HIDE DEF D, id
      <4>1. CASE c = "take"
        <5>1. Taken \in Nat /\ ccur \in Int /\ clen - 2 = i - 1 /\ i \in Int
              /\ D = Taken + ccur .. Taken + i - 1
          BY <1>1, <2>1, <2>5, <4>1 DEF TypeInv, RecvOK
        <5> QED
          BY <4>1, <5>1
      <4>2. CASE c # "take"
        BY <2>5, <4>2
      <4> QED
        BY <4>1, <4>2
    <3> QED
      BY <3>1, <3>2 DEF QueueInv
  <2> HIDE DEF D
  <2>8. Gone' = Gone \cup D
    <3>1. \A j \in lost : j <= id => j <= Taken \/ \E k \in 1 .. i : j = Taken + k
      <4>1. ASSUME NEW j \in lost, j <= id, ~(j <= Taken)
            PROVE  j - Taken \in 1 .. i /\ j = Taken + (j - Taken)
        BY <1>1, <2>1, <2>7, <4>1
      <4> QED
        BY <4>1
    <3>2. \A j \in D : \E k \in 1 .. i : j = Taken + k
      <4>1. ASSUME NEW j \in D PROVE j - Taken \in 1 .. i /\ j = Taken + (j - Taken)
        BY <1>1, <2>1, <2>5, <4>1 DEF TypeInv, RecvOK
      <4> QED
        BY <4>1
    <3>3. ASSUME NEW j \in D PROVE j \in lost /\ j <= id
      <4>1. PICK k \in 1 .. i : j = Taken + k
        BY <3>2
      <4>2. Taken + k \in D /\ Taken + k <= id
        BY <1>1, <2>1, <4>1
      <4> QED
        BY <2>7, <4>1, <4>2
    <3>4. \A j \in lost : j <= Taken => j <= id
      BY <1>1, <2>1, <2>7
    <3> QED
      BY <2>2, <2>3, <2>7, <3>1, <3>3, <3>4 DEF Gone
  <2>9. Live' = Live \ D
    BY <2>2, <2>8 DEF Live
  <2>10. /\ ReadyTokens = ReadyTokens' \cup {t} \cup {<<"ready", k, k>> : k \in D}
         /\ \A k \in D : <<"ready", k, k>> \notin ReadyTokens' \cup {t}
         /\ t \notin ReadyTokens'
    BY <2>4, <2>6, <2>3 DEF ReadyTokens
  <2>11. HandTokens = {} /\ HandTokens' = {u}
    BY <2>2, <2>3 DEF HandTokens
  <2>12. UNCHANGED <<HeldTokens, FinTokens, RingTokens, FreedTokens>>
    BY <2>2 DEF HeldTokens, FinTokens, RingTokens, FreedTokens
  <2>13. t[3] = id /\ u[3] = id /\ t[1] = "ready" /\ u[1] = "create"
    OBVIOUS
  <2>14. t \in Tokens /\ \A k \in D : <<"ready", k, k>> \in Tokens
    BY <2>10 DEF Tokens
  <2> HIDE DEF t, u, id
  <2>15. ASSUME NEW x
         PROVE  x \in Tokens' <=>
                  \/ x \in Tokens /\ x # t /\ x \notin {<<"ready", k, k>> : k \in D}
                  \/ x = u
    <3>1. CASE x[1] = "ready"
      BY <2>10, <2>11, <2>12, <2>13, <3>1, Kinds DEF Tokens
    <3>2. CASE x[1] # "ready"
      <4>1. x \notin ReadyTokens /\ x \notin ReadyTokens' /\ x # t
            /\ x \notin {<<"ready", k, k>> : k \in D}
        BY <2>10, <2>13, <3>2, Kinds
      <4> QED
        BY <2>11, <2>12, <4>1 DEF Tokens
    <3> QED
      BY <3>1, <3>2
  <2>16. \A x \in Tokens : x[3] \in D => x = <<"ready", x[3], x[3]>>
    BY <2>14 DEF OneToken
  <2>17. id \notin D
    BY <2>6
  <2>18. \A x \in Tokens' : x = u \/ (x \in Tokens /\ x # t /\ x[3] \notin D)
    BY <2>15, <2>16
  <2>19. \A x \in Tokens : x = t \/ x[3] \in D \/ x \in Tokens'
    BY <2>15
  <2> QED
    BY <2>9, <2>13, <2>14, <2>15, <2>17, <2>18, <2>19 DEF OneToken
<1>8. CASE SkipStore
  <2> DEFINE id == ready[ccur]
             t == <<"ready", id, id>>
             u == <<"ring", rec_head, id>>
  <2>1. /\ Pushing("create") /\ PushStore("create", id) /\ "create" \in Pushers
        /\ ccur \in 1 .. Len(ready) /\ id \in Ids /\ id = Taken + ccur
        /\ c = "skip" /\ c' = c /\ ccur' = ccur + 1
        /\ UNCHANGED <<ready, frames, freed, cid, held, fin, lost>>
    BY <1>1, <1>8, Queued DEF SkipStore, PushStore, Pushers
  <2>2. Taken' = Taken /\ Live' = Live
    BY <2>1 DEF Taken, Live, Gone
  <2>3. id \in Waiting /\ Waiting' = Waiting \ {id}
    BY <1>1, <2>1, <2>2 DEF Waiting
  <2>4. t \in ReadyTokens /\ ReadyTokens' = ReadyTokens \ {t}
    BY <2>3 DEF ReadyTokens
  <2>5. RingTokens' = RingTokens \cup {u}
    BY <2>1, RingGains
  <2>6. UNCHANGED <<HeldTokens, FinTokens, HandTokens, FreedTokens>>
    BY <2>1 DEF HeldTokens, FinTokens, HandTokens, FreedTokens
  <2>7. t[3] = u[3] /\ t[1] = "ready" /\ u[1] = "ring"
    OBVIOUS
  <2> HIDE DEF t, u
  <2>8. Tokens' = (Tokens \ {t}) \cup {u}
    BY <2>4, <2>5, <2>6, <2>7, Kinds DEF Tokens
  <2> QED
    BY <2>2, <2>4, <2>7, <2>8, TokenMoves DEF Tokens
<1>9. CASE PushKept
  <2> DEFINE w == [s |-> cs, id |-> cid]
             t == <<"create", cid, cid>>
             u == <<"held", w, cid>>
  <2>1. /\ cid # 0 /\ cid' = 0 /\ held' = held \cup {w} /\ c = "push" /\ c' = "idle"
        /\ UNCHANGED <<ready, frames, recycle, rec_head, rec_tail, freed, fin, lost>>
    BY <1>9 DEF PushKept, rings, TypeInv, CreateOK
  <2>2. Taken' = Taken /\ Waiting' = Waiting /\ Live' = Live
    BY <2>1 DEF Taken, Waiting, Live, Gone
  <2>3. HandTokens = {t} /\ HandTokens' = {}
    BY <2>1 DEF HandTokens
  <2>4. HeldTokens' = HeldTokens \cup {u}
    BY <2>1 DEF HeldTokens
  <2>5. UNCHANGED <<ReadyTokens, FinTokens, RingTokens, FreedTokens>>
    BY <2>1, <2>2 DEF ReadyTokens, FinTokens, RingTokens, FreedTokens
  <2>6. t[3] = u[3] /\ t[1] = "create" /\ u[1] = "held"
    OBVIOUS
  <2> HIDE DEF t, u
  <2>7. Tokens' = (Tokens \ {t}) \cup {u}
    BY <2>3, <2>4, <2>5, <2>6, Kinds DEF Tokens
  <2> QED
    BY <2>2, <2>3, <2>6, <2>7, TokenMoves DEF Tokens
<1>10. CASE PushDropped
  <2> DEFINE t == <<"create", cid, cid>>
             u == <<"fin", "stream", cid>>
  <2>1. /\ cid # 0 /\ cid' = 0 /\ c = "push" /\ c' = "dropping" /\ cs \in Sessions
        /\ cid \in Ids
        /\ fin' = [fin EXCEPT !["stream"] = [pc |-> "lock", s |-> cs, id |-> cid]]
        /\ UNCHANGED <<ready, frames, recycle, rec_head, rec_tail, freed, held, lost>>
    BY <1>10 DEF PushDropped, rings, TypeInv, CreateOK
  <2>2. Taken' = Taken /\ Waiting' = Waiting /\ Live' = Live
    BY <2>1 DEF Taken, Waiting, Live, Gone
  <2>3. HandTokens = {t} /\ HandTokens' = {}
    BY <2>1 DEF HandTokens
  <2>4. /\ fin["stream"] = None /\ fin'["stream"] # None /\ fin'["stream"].id = cid
        /\ "stream" \in Threads
        /\ \A x \in Threads : x # "stream" => fin'[x] = fin[x]
    <3>1. [pc |-> "lock", s |-> cs, id |-> cid] \in Finalizer
      BY <2>1 DEF Finalizer
    <3> QED
      BY <2>1, <3>1, Constants DEF TypeInv, FinOK, Threads
  <2>5. FinTokens' = FinTokens \cup {u}
    BY <2>4 DEF FinTokens
  <2>6. UNCHANGED <<ReadyTokens, HeldTokens, RingTokens, FreedTokens>>
    BY <2>1, <2>2 DEF ReadyTokens, HeldTokens, RingTokens, FreedTokens
  <2>7. t[3] = u[3] /\ t[1] = "create" /\ u[1] = "fin"
    OBVIOUS
  <2> HIDE DEF t, u
  <2>8. Tokens' = (Tokens \ {t}) \cup {u}
    BY <2>3, <2>5, <2>6, <2>7, Kinds DEF Tokens
  <2> QED
    BY <2>2, <2>3, <2>7, <2>8, TokenMoves DEF Tokens
<1>11. ASSUME NEW w \in held, DropWrap(w) PROVE OneToken'
  <2> DEFINE t == <<"held", w, w.id>>
             u == <<"fin", "down", w.id>>
  <2>1. /\ held' = held \ {w} /\ w \in [s : Sessions, id : Ids] /\ fin["down"] = None
        /\ fin' = [fin EXCEPT !["down"] = [pc |-> "lock", s |-> w.s, id |-> w.id]]
        /\ UNCHANGED <<ready, frames, recycle, rec_head, rec_tail, freed, c, ccur, cid, lost>>
    BY <1>11 DEF DropWrap, rings, createVars, TypeInv, RingsOK
  <2>2. Taken' = Taken /\ Waiting' = Waiting /\ Live' = Live
    BY <2>1 DEF Taken, Waiting, Live, Gone
  <2>3. t \in HeldTokens /\ HeldTokens' = HeldTokens \ {t}
    BY <2>1 DEF HeldTokens
  <2>4. /\ fin'["down"] # None /\ fin'["down"].id = w.id /\ "down" \in Threads
        /\ \A x \in Threads : x # "down" => fin'[x] = fin[x]
    <3>1. [pc |-> "lock", s |-> w.s, id |-> w.id] \in Finalizer
      BY <2>1 DEF Finalizer
    <3> QED
      BY <2>1, <3>1, Constants DEF TypeInv, FinOK, Threads
  <2>5. FinTokens' = FinTokens \cup {u}
    BY <2>1, <2>4 DEF FinTokens
  <2>6. UNCHANGED <<ReadyTokens, HandTokens, RingTokens, FreedTokens>>
    BY <2>1, <2>2 DEF ReadyTokens, HandTokens, RingTokens, FreedTokens
  <2>7. t[3] = u[3] /\ t[1] = "held" /\ u[1] = "fin"
    OBVIOUS
  <2> HIDE DEF t, u
  <2>8. Tokens' = (Tokens \ {t}) \cup {u}
    BY <2>3, <2>5, <2>6, <2>7, Kinds DEF Tokens
  <2> QED
    BY <2>2, <2>3, <2>7, <2>8, TokenMoves DEF Tokens
<1>12. ASSUME NEW t \in Threads, FinLock(t) \/ FinSpin(t) PROVE OneToken'
  <2>1. /\ UNCHANGED <<ready, frames, recycle, rec_head, rec_tail, freed, c, ccur, cid,
                       held, lost>>
        /\ fin[t] # None /\ fin[t] \in Finalizer
        /\ \E p \in {"spin", "store"} : fin' = [fin EXCEPT ![t].pc = p]
    BY <1>12 DEF FinLock, FinSpin, rings, createVars, TypeInv, FinOK
  <2>2. /\ fin'[t] \in Finalizer /\ fin'[t].id = fin[t].id
        /\ \A x \in Threads : x # t => fin'[x] = fin[x]
    BY <2>1 DEF TypeInv, FinOK, Finalizer
  <2>3. FinTokens' = FinTokens
    BY <2>1, <2>2, Constants DEF FinTokens
  <2>4. Taken' = Taken /\ Waiting' = Waiting /\ Live' = Live
    BY <2>1 DEF Taken, Waiting, Live, Gone
  <2> QED
    BY <1>2, <2>1, <2>3, <2>4 DEF ReadyTokens, HeldTokens, HandTokens, RingTokens, FreedTokens
<1>13. ASSUME NEW y \in Threads, FinStore(y) PROVE OneToken'
  <2> DEFINE id == fin[y].id
             t == <<"fin", y, id>>
             u == <<"ring", rec_head, id>>
  <2>1. /\ Pushing(y) /\ PushStore(y, id) /\ y \in Pushers /\ id \in Ids /\ fin[y] # None
        /\ fin' = [fin EXCEPT ![y] = None]
        /\ UNCHANGED <<ready, frames, freed, c, ccur, cid, held, lost>>
    BY <1>13 DEF FinStore, PushStore, createVars, Pushers, TypeInv, FinOK, Finalizer
  <2>2. Taken' = Taken /\ Waiting' = Waiting /\ Live' = Live
    BY <2>1 DEF Taken, Waiting, Live, Gone
  <2>3. fin'[y] = None /\ \A x \in Threads : x # y => fin'[x] = fin[x]
    BY <2>1 DEF TypeInv, FinOK
  <2>4. t \in FinTokens /\ FinTokens' = FinTokens \ {t}
    BY <2>1, <2>3 DEF FinTokens
  <2>5. RingTokens' = RingTokens \cup {u}
    BY <2>1, RingGains
  <2>6. UNCHANGED <<ReadyTokens, HeldTokens, HandTokens, FreedTokens>>
    BY <2>1, <2>2 DEF ReadyTokens, HeldTokens, HandTokens, FreedTokens
  <2>7. t[3] = u[3] /\ t[1] = "fin" /\ u[1] = "ring"
    OBVIOUS
  <2> HIDE DEF t, u
  <2>8. Tokens' = (Tokens \ {t}) \cup {u}
    BY <2>4, <2>5, <2>6, <2>7, Kinds DEF Tokens
  <2> QED
    BY <2>2, <2>4, <2>7, <2>8, TokenMoves DEF Tokens
<1>14. CASE Start
  <2>1. /\ Len(ready') = 0 /\ c = "idle" /\ c' = "idle"
        /\ lost' = lost \cup {ready[i] : i \in 1 .. Len(ready)}
        /\ UNCHANGED <<frames, recycle, rec_head, rec_tail, freed, cid, held, fin>>
    BY <1>1, <1>14 DEF Start, createVars, TypeInv, StateOK, RingsOK
  <2>2. Taken' = frames /\ Waiting = Taken + 1 .. frames /\ Waiting' = {}
    BY <1>1, <2>1 DEF Taken, Waiting
  <2>3. {ready[i] : i \in 1 .. Len(ready)} = Waiting
    <3>1. \A k \in Waiting : k - Taken \in 1 .. Len(ready) /\ k = ready[k - Taken]
      BY <1>1, <2>2
    <3>2. \A i \in 1 .. Len(ready) : ready[i] \in Waiting
      BY <1>1, <2>2
    <3> QED
      BY <3>1, <3>2
  <2>4. lost \cap Waiting = {}
    BY <2>1, <2>3 DEF QueueInv
  <2>5. Live' = Live \ Waiting
    BY <1>1, <2>1, <2>2, <2>3, <2>4 DEF Live, Gone, QueueInv
  <2>6. ReadyTokens' = {} /\ ReadyTokens = {<<"ready", k, k>> : k \in Waiting}
    BY <2>2 DEF ReadyTokens
  <2>7. UNCHANGED <<HeldTokens, FinTokens, HandTokens, RingTokens, FreedTokens>>
    BY <2>1 DEF HeldTokens, FinTokens, HandTokens, RingTokens, FreedTokens
  <2>8. Tokens' = Tokens \ ReadyTokens
    BY <2>6, <2>7, Kinds DEF Tokens
  <2>9. \A k \in Waiting : <<"ready", k, k>> \in Tokens
    BY <2>6 DEF Tokens
  <2> QED
    BY <2>5, <2>6, <2>8, <2>9, TokensGo
<1> QED
  BY <1>3, <1>4, <1>5, <1>6, <1>7, <1>8, <1>9, <1>10, <1>11, <1>12, <1>13, <1>14
     DEF SourceNext, CreateStep, CreateCall, CreateFlushing, CreateBegin, CreateCheck,
         CreateMode, CreateLock, RecvEmpty, SkipLoad, CreateStamp, CreateDropped, CallUnlock,
         Unlock, UnlockStop, FlushStop, Stop, PushLoad, TypeInv, CreateOK,
         vars, rings, stateVars, createVars

\* RecycledOnce, from the tokens.
LEMMA TokensCount == TypeInv /\ SourceInv => RecycledOnce
<1> SUFFICES ASSUME TypeInv, QueueInv, OneToken, NEW id \in 1 .. frames
             PROVE  Cardinality(Places(id)) =
                      IF id \in lost /\ id \notin {ready[i] : i \in DOMAIN ready} THEN 0 ELSE 1
  BY DEF SourceInv, RecycledOnce
<1> DEFINE PlaceOf(t) == IF t[1] = "ready" THEN <<"ready", t[3] - Taken>>
                         ELSE IF t[1] = "create" THEN <<"create", c>> ELSE <<t[1], t[2]>>
           Of == {t \in Tokens : t[3] = id}
<1>1. /\ ready \in Seq(Ids) /\ DOMAIN ready = 1 .. Len(ready) /\ Len(ready) \in Nat
      /\ frames \in Nat /\ Len(ready) <= frames /\ id \in Ids /\ id # 0
      /\ Taken \in Nat /\ frames = Taken + Len(ready) /\ ccur \in Nat
      /\ c \in {"skip", "take"} => 1 <= ccur
      /\ \A i \in 1 .. Len(ready) : ready[i] = Taken + i
  <2>1. /\ Len(ready) \in Nat /\ frames \in Nat /\ frames = Taken + Len(ready)
        /\ Taken \in Nat /\ ccur \in Nat
        /\ \A i \in 1 .. Len(ready) : ready[i] = Taken + i
    BY QueueFacts
  <2>2. ready \in Seq(Ids) /\ DOMAIN ready = 1 .. Len(ready)
    BY DEF TypeInv, RingsOK
  <2>3. id \in Ids /\ id # 0
    <3>1. frames \in 0 .. MaxFrames /\ MaxFrames \in Nat
      BY Constants DEF TypeInv, RingsOK
    <3> QED
      BY <3>1 DEF Ids
  <2>4. c \in {"skip", "take"} => 1 <= ccur
    BY DEF TypeInv, RecvOK
  <2> QED
    BY <2>1, <2>2, <2>3, <2>4
<1>2. id \in Live <=> ~(id \in lost /\ id \notin {ready[i] : i \in DOMAIN ready})
  <2>1. id \in {ready[i] : i \in DOMAIN ready} <=> id > Taken
    <3>1. id > Taken => id - Taken \in 1 .. Len(ready) /\ id = Taken + (id - Taken)
      BY <1>1
    <3>2. \A i \in 1 .. Len(ready) : Taken + i > Taken
      BY <1>1
    <3> QED
      BY <1>1, <3>1, <3>2
  <2> QED
    BY <1>1, <2>1 DEF Live, Gone
<1>3. Places(id) = {PlaceOf(t) : t \in Of}
  <2>1. ASSUME NEW x \in Places(id) PROVE \E t \in Of : x = PlaceOf(t)
    <3>1. CASE \E i \in DOMAIN ready : /\ x = <<"ready", i>> /\ ready[i] = id
                                       /\ ~(c \in {"skip", "take"} /\ i < ccur)
      <4>1. PICK i \in 1 .. Len(ready) : /\ x = <<"ready", i>> /\ ready[i] = id
                                         /\ ~(c \in {"skip", "take"} /\ i < ccur)
        BY <1>1, <3>1
      <4>2. id \in Waiting /\ i = id - Taken
        BY <1>1, <4>1 DEF Waiting
      <4>3. <<"ready", id, id>> \in Of
        BY <4>2 DEF Tokens, ReadyTokens
      <4> QED
        BY <4>1, <4>2, <4>3
    <3>2. CASE \E w \in held : x = <<"held", w>> /\ w.id = id
      <4>1. PICK w \in held : x = <<"held", w>> /\ w.id = id
        BY <3>2
      <4>2. <<"held", w, id>> \in Of
        BY <4>1 DEF Tokens, HeldTokens
      <4> QED
        BY <4>1, <4>2
    <3>3. CASE \E t \in Threads : x = <<"fin", t>> /\ fin[t] # None /\ fin[t].id = id
      <4>1. PICK t \in Threads : x = <<"fin", t>> /\ fin[t] # None /\ fin[t].id = id
        BY <3>3
      <4>2. <<"fin", t, id>> \in Of
        BY <4>1 DEF Tokens, FinTokens
      <4> QED
        BY <4>1, <4>2
    <3>4. CASE x = <<"create", c>> /\ cid = id
      <4>1. <<"create", id, id>> \in Of
        BY <1>1, <3>4 DEF Tokens, HandTokens
      <4> QED
        BY <3>4, <4>1
    <3>5. CASE \E n \in rec_tail .. rec_head - 1 :
                 x = <<"ring", n>> /\ recycle[n % RecCap] = id
      <4>1. PICK n \in rec_tail .. rec_head - 1 :
                 x = <<"ring", n>> /\ recycle[n % RecCap] = id
        BY <3>5
      <4>2. <<"ring", n, id>> \in Of
        BY <1>1, <4>1 DEF Tokens, RingTokens
      <4> QED
        BY <4>1, <4>2
    <3>6. CASE \E n \in 1 .. freed[id] : x = <<"freed", n>>
      <4>1. PICK n \in 1 .. freed[id] : x = <<"freed", n>>
        BY <3>6
      <4>2. n \in Nat \ {0} /\ n <= freed[id]
        BY <1>1 DEF TypeInv, RingsOK
      <4>3. <<"freed", n, id>> \in Of
        BY <1>1, <4>2 DEF Tokens, FreedTokens
      <4> QED
        BY <4>1, <4>3
    <3> QED
      BY <3>1, <3>2, <3>3, <3>4, <3>5, <3>6 DEF Places
  <2>2. ASSUME NEW t \in Of PROVE PlaceOf(t) \in Places(id)
    <3>1. CASE t \in ReadyTokens
      <4>1. id \in Waiting /\ t = <<"ready", id, id>>
        BY <3>1 DEF ReadyTokens
      <4>2. /\ id - Taken \in DOMAIN ready /\ ready[id - Taken] = id
            /\ ~(c \in {"skip", "take"} /\ id - Taken < ccur)
        BY <1>1, <4>1 DEF Waiting
      <4> QED
        BY <4>1, <4>2 DEF Places
    <3>2. CASE t \in HeldTokens
      BY <3>2 DEF HeldTokens, Places
    <3>3. CASE t \in FinTokens
      BY <3>3 DEF FinTokens, Places
    <3>4. CASE t \in HandTokens
      BY <3>4 DEF HandTokens, Places
    <3>5. CASE t \in RingTokens
      BY <3>5 DEF RingTokens, Places
    <3>6. CASE t \in FreedTokens
      <4>1. PICK n \in Nat \ {0} : t = <<"freed", n, id>> /\ n <= freed[id]
        BY <3>6 DEF FreedTokens
      <4>2. n \in 1 .. freed[id]
        BY <1>1, <4>1 DEF TypeInv, RingsOK
      <4> QED
        BY <4>1, <4>2 DEF Places
    <3> QED
      BY <3>1, <3>2, <3>3, <3>4, <3>5, <3>6 DEF Tokens
  <2> QED
    BY <2>1, <2>2
<1> HIDE DEF PlaceOf
<1>4. CASE id \in Live
  <2>1. PICK t \in Of : Of = {t}
    BY <1>4 DEF OneToken
  <2>2. Places(id) = {PlaceOf(t)}
    BY <1>3, <2>1
  <2> QED
    BY <1>2, <1>4, <2>2, FS_Singleton
<1>5. CASE id \notin Live
  <2>1. Places(id) = {}
    BY <1>3, <1>5 DEF OneToken
  <2> QED
    BY <1>2, <1>5, <2>1, FS_EmptySet
<1> QED
  BY <1>4, <1>5

\* RecycledOnce: a frame that was not skipped is in one place, and freed once, across
\* stops and starts and buffers that outlive their session, until two sessions' Readers
\* are in a push at once.
THEOREM RecycledOnceCorrect == SourceSpec => []RecycledOnce
<1>1. SourceInit => SourceInv
  BY InitQueue, InitRing, InitToken DEF SourceInv
<1>2. TypeInv /\ SourceInv /\ [SourceNext]_vars => SourceInv'
  BY StepQueue, StepClean, StepRing, StepToken DEF SourceInv
<1>3. TypeInv /\ [SourceNext]_vars => TypeInv'
  BY StepRings, StepState, StepCreate, StepRecv, StepFin, StepLocks DEF TypeInv
<1> QED
  BY <1>1, <1>2, <1>3, InitType, TokensCount, PTL DEF SourceSpec

================================================================================
