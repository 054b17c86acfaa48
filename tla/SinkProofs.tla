-------------------------------- MODULE SinkProofs ------------------------------
(***************************************************************************)
(* For every set of memories, number of blocks, ring capacity and number   *)
(* of sessions: who holds which mutex of the sink, and, in a session that  *)
(* is clean, whose each lease is.                                          *)
(***************************************************************************)
EXTENDS Sink, SequenceTheorems, TLAPS

\* SinkTypeOK by owner of the state, with what it lacks to be inductive: where a call
\* under way has which locals, and that the memory of the buffer in render stays.
WriterOK ==
    /\ DOMAIN live = Sessions
    /\ \A s \in Sessions :
         /\ DOMAIN live[s] \subseteq Ids
         /\ \A id \in DOMAIN live[s] : live[s][id] \in Ptrs
    /\ next_id \in [Sessions -> Ids]
    /\ ring \in Seq(Ids) /\ Len(ring) <= ReadyCap
    /\ back \in SUBSET Ids
    /\ clean \in [Sessions -> BOOLEAN]

TableOK ==
    /\ DOMAIN pending = Sessions
    /\ \A s \in Sessions :
         /\ DOMAIN pending[s] \subseteq Ptrs
         /\ \A p \in DOMAIN pending[s] : pending[s][p] \in Ids
    /\ up = "release" => mem[um].ptr \in DOMAIN pending[mem[um].s]

StateOK ==
    /\ cur \in {0} \cup Sessions /\ starts \in 0 .. MaxStarts
    /\ unlocked \in BOOLEAN /\ flushing \in BOOLEAN

MemsOK ==
    /\ mem \in [Mems -> Leased \cup {None}]
    /\ sent \subseteq {m \in Mems : mem[m] # None}
    /\ nego \in {0} \cup Sessions
    /\ um \in Mems \cup {None} /\ big \in BOOLEAN
    /\ up \in {"idle", "alloc", "lease", "dropping", "release"}
    /\ up = "idle" => um = None
    /\ up # "idle" => um \in Mems
    /\ up \in {"alloc", "lease"} => nego # 0 /\ mem[um] = None
    /\ up \in {"dropping", "release"} => mem[um] # None
    /\ buf \in Buffers \cup {NoBuffer}
    /\ buf.mem # None => mem[buf.mem] # None /\ um # buf.mem

RenderOK ==
    /\ r \in {"idle", "lock", "mark", "copy", "fast", "alloc", "push", "sleep"}
    /\ rs \in {0} \cup Sessions /\ rlease \in Nat
    /\ r \notin {"idle", "lock"} => rs # 0
    /\ r = "idle" => buf = NoBuffer
    /\ r = "mark" => buf.mem # None /\ mem[buf.mem].s = rs
    /\ r \in {"fast", "push"} => rlease # 0

LocksOK ==
    /\ stateLock \in {None, "render", "app"}
    /\ trackerLock \in [Sessions -> {None, "render", "up"}]
    /\ writerLock \in [Sessions -> {None, "render", "up"}]
    /\ LocksHeld

\* Of a session's values (live ids L, next id n, ready ring q, recycle ring b, table P,
\* lease X in render) and its memories A of which U are not sent, with values M: each
\* live lease has one owner, and the table has the unsent memories' leases.
Owned(L, n, q, b, P, X, A, U, M) ==
    /\ \A id \in L : id < n
    /\ L = Range(q) \cup b \cup X \cup {M[m].id : m \in U}
    /\ \A i, j \in DOMAIN q : q[i] = q[j] => i = j
    /\ \A m, k \in U : M[m].id = M[k].id => m = k
    /\ Range(q) \cap b = {} /\ Range(q) \cap X = {} /\ b \cap X = {}
    /\ \A m \in U : M[m].id \notin Range(q) \cup b \cup X
    /\ \A m, k \in A : M[m].ptr = M[k].ptr => m = k
    /\ DOMAIN P = {M[m].ptr : m \in U}
    /\ \A m \in U : P[M[m].ptr] = M[m].id

MemsOf(M, s)      == {m \in Mems : M[m] # None /\ M[m].s = s}
UnsentOf(M, S, s) == {m \in MemsOf(M, s) : m \notin S}
Published(place, session, lease, s) ==
    IF place \in {"fast", "push"} /\ session = s THEN {lease} ELSE {}

LeasesInv ==
    \A s \in Sessions : clean[s] =>
        Owned(DOMAIN live[s], next_id[s], RingOf(s), BackOf(s), pending[s],
              Published(r, rs, rlease, s), MemsOf(mem, s), UnsentOf(mem, sent, s), mem)

\* The buffer in render: unsent until the fast path has marked it, and then its own
\* lease is the one being published.
BufferInv ==
    /\ r \in {"lock", "mark", "copy", "alloc", "sleep"} => buf.mem \notin sent
    /\ r \in {"fast", "push"} /\ buf.mem \in sent /\ clean[rs] =>
         mem[buf.mem].s = rs /\ mem[buf.mem].id = rlease

TypeInv == WriterOK /\ TableOK /\ StateOK /\ MemsOK /\ RenderOK /\ LocksOK

LEMMA Constants ==
    /\ Blocks \in Nat /\ ReadyCap \in Nat \ {0} /\ MaxStarts \in Nat /\ MaxStarts >= 1
    /\ None \notin Mems /\ None \notin Nat /\ None \notin Leased
    /\ None # "render" /\ None # "up" /\ None # "app"
    /\ 0 \notin Sessions /\ Sessions \subseteq Nat /\ Ptrs \subseteq Nat
BY SinkAssumption DEF Leased, Sessions, Ptrs, Ids

\* The initial state has nothing to say of leases and locks.
LEMMA InitInv == SinkInit => TypeInv /\ LeasesInv /\ BufferInv
<1> SUFFICES ASSUME SinkInit PROVE TypeInv /\ LeasesInv /\ BufferInv
  OBVIOUS
<1>1. WriterOK /\ TableOK
  BY Constants DEF SinkInit, WriterOK, TableOK, Ids
<1>2. StateOK
  <2>1. unlocked \in BOOLEAN /\ flushing \in BOOLEAN
    BY DEF SinkInit
  <2> QED
    BY <2>1, Constants DEF SinkInit, StateOK
<1>3. NoBuffer.mem = None
  BY DEF NoBuffer
<1>4. MemsOK /\ RenderOK
  BY <1>3, Constants DEF SinkInit, MemsOK, RenderOK
<1>5. LocksOK
  BY Constants DEF SinkInit, LocksOK, LocksHeld
<1>6. LeasesInv
  BY Constants DEF SinkInit, LeasesInv, Owned, MemsOf, UnsentOf, Published, Range, RingOf, BackOf
<1>7. BufferInv
  BY Constants DEF SinkInit, BufferInv
<1> QED
  BY <1>1, <1>2, <1>4, <1>5, <1>6, <1>7 DEF TypeInv

--------------------------------------------------------------------------------
(* Types. *)

\* The writer's part of a step: one of its own operations on one session, or none.
WriterOp ==
    \/ UNCHANGED writerVars
    \/ \E s \in Sessions, p \in Ptrs : Grant(s, p)
    \/ \E s \in Sessions, large \in BOOLEAN : DropOldest(s, large) \/ ResetArena(s, large)
    \/ \E s \in Sessions : \E id \in Ids :
         FreeLease(s, id) /\ UNCHANGED <<next_id, ring, back, clean>>
    \/ RenderPush
    \/ Consume \/ Start
    \/ \E s \in Sessions : GcDrain(s)

\* The session and lease a step of render or upstream names are some.
LEMMA StepOperates == TypeInv /\ SinkNext => WriterOp
<1> SUFFICES ASSUME TypeInv, SinkNext PROVE WriterOp
  OBVIOUS
<1>1. CASE RenderGrant
  <2>1. rs \in Sessions
    BY <1>1, Constants DEF TypeInv, RenderOK, RenderGrant
  <2> QED
    BY <2>1, <1>1 DEF RenderGrant, WriterOp
<1>2. CASE RenderDrop \/ RenderReset
  <2>1. rs \in Sessions
    BY <1>2, Constants DEF TypeInv, RenderOK, RenderDrop, RenderReset
  <2>2. (buf.kind = "large") \in BOOLEAN
    OBVIOUS
  <2> QED
    BY <2>1, <2>2, <1>2 DEF RenderDrop, RenderReset, WriterOp
<1>3. CASE UpGrant
  <2>1. nego \in Sessions
    BY <1>3 DEF TypeInv, MemsOK, UpGrant
  <2> QED
    BY <2>1, <1>3 DEF UpGrant, WriterOp
<1>4. CASE UpDropOldest \/ UpReset \/ UpExhausted
  <2>1. nego \in Sessions /\ big \in BOOLEAN
    BY <1>4 DEF TypeInv, MemsOK, UpDropOldest, UpReset, UpExhausted
  <2> QED
    BY <2>1, <1>4 DEF UpDropOldest, UpReset, UpExhausted, WriterOp
<1>5. CASE UpRelease
  <2>1. mem[um] \in Leased
    BY <1>5 DEF TypeInv, MemsOK, UpRelease
  <2>2. mem[um].s \in Sessions
    BY <2>1 DEF Leased
  <2>3. pending[mem[um].s][mem[um].ptr] \in Ids
    BY <2>2, <1>5 DEF UpRelease, TypeInv, TableOK
  <2> QED
    BY <2>2, <2>3, <1>5 DEF UpRelease, WriterOp
<1> QED
  BY <1>1, <1>2, <1>3, <1>4, <1>5
     DEF WriterOp, SinkNext, RenderStep, UpStep, RenderCall, RenderLock, RenderFlushing,
         RenderMark, RenderFastWriter, RenderCopyWriter, RenderWake, ProposeAllocation,
         UpAlloc, UpWriter, UpDrop, UpDropNothing, UpDropTracker, GcCheck, CallUnlock, Unlock,
         UnlockStop, FlushStop, Stop, StopJoined, writerVars

LEMMA WriterStep == TypeInv /\ SinkNext => WriterOK'
<1> SUFFICES ASSUME TypeInv, SinkNext PROVE WriterOK'
  OBVIOUS
<1> USE Constants
<1>1. WriterOK /\ WriterOp
  BY StepOperates DEF TypeInv
<1>2. CASE UNCHANGED writerVars
  BY <1>1, <1>2 DEF WriterOK, writerVars
<1>3. ASSUME NEW s \in Sessions, NEW p \in Ptrs, Grant(s, p) PROVE WriterOK'
  <2>1. next_id[s] \in Ids /\ next_id[s] + 1 \in Ids
    BY <1>1 DEF WriterOK, Ids
  <2>2. next_id' \in [Sessions -> Ids] /\ clean' \in [Sessions -> BOOLEAN]
    BY <2>1, <1>1, <1>3 DEF Grant, WriterOK
  <2> QED
    BY <2>1, <2>2, <1>1, <1>3 DEF Grant, With, WriterOK
<1>4. ASSUME NEW s \in Sessions, NEW large \in BOOLEAN, DropOldest(s, large) PROVE WriterOK'
  <2>1. Tail(ring) \in Seq(Ids) /\ Len(Tail(ring)) <= ReadyCap
    BY <1>1, <1>4 DEF WriterOK, DropOldest
  <2>2. clean' \in [Sessions -> BOOLEAN]
    BY <1>1, <1>4 DEF WriterOK, DropOldest
  <2> QED
    BY <2>1, <2>2, <1>1, <1>4 DEF DropOldest, Without, WriterOK
<1>5. ASSUME NEW s \in Sessions, NEW large \in BOOLEAN, ResetArena(s, large) PROVE WriterOK'
  <2>1. clean' \in [Sessions -> BOOLEAN]
    BY <1>1, <1>5 DEF WriterOK, ResetArena
  <2> QED
    BY <2>1, <1>1, <1>5 DEF ResetArena, WriterOK, Ids
<1>6. ASSUME NEW s \in Sessions, NEW id \in Ids, FreeLease(s, id),
             UNCHANGED <<next_id, ring, back, clean>>
      PROVE  WriterOK'
  BY <1>1, <1>6 DEF FreeLease, Without, WriterOK
<1>7. CASE RenderPush
  <2>1. rs \in Sessions /\ rlease \in Ids
    BY <1>7 DEF TypeInv, RenderOK, RenderPush, Ids
  <2>2. Append(ring, rlease) \in Seq(Ids) /\ Len(Append(ring, rlease)) <= ReadyCap
    BY <2>1, <1>1, <1>7 DEF WriterOK, RenderPush, RingFull
  <2> QED
    BY <2>1, <2>2, <1>1, <1>7 DEF RenderPush, WriterOK
<1>8. ASSUME NEW s \in Sessions, GcDrain(s) PROVE WriterOK'
  BY <1>1, <1>8 DEF GcDrain, WriterOK
<1>9. CASE Consume
  <2>1. Tail(ring) \in Seq(Ids) /\ Len(Tail(ring)) <= ReadyCap /\ Head(ring) \in Ids
    BY <1>1, <1>9 DEF WriterOK, Consume
  <2> QED
    BY <2>1, <1>1, <1>9 DEF Consume, WriterOK
<1>10. CASE Start
  <2>1. clean' \in [Sessions -> BOOLEAN] /\ ring' = <<>> /\ back' = {}
    BY <1>1, <1>10 DEF WriterOK, Start
  <2> QED
    BY <2>1, <1>1, <1>10 DEF Start, WriterOK
<1> QED
  BY <1>1, <1>2, <1>3, <1>4, <1>5, <1>6, <1>7, <1>8, <1>9, <1>10 DEF WriterOp

\* The entry a release has found stays: the tracker is locked.
LEMMA TableStep == TypeInv /\ SinkNext => TableOK'
<1> SUFFICES ASSUME TypeInv, SinkNext PROVE TableOK'
  OBVIOUS
<1> USE Constants
<1>1. TableOK
  BY DEF TypeInv
<1>2. CASE UNCHANGED <<pending, mem, up, um>>
  BY <1>1, <1>2 DEF TableOK
<1>3. CASE RenderMark
  <2>1. rs \in Sessions
    BY <1>3 DEF TypeInv, RenderOK, RenderMark
  <2>2. trackerLock[rs] = None /\ UNCHANGED <<mem, up, um>>
    BY <1>3 DEF RenderMark, upVars
  <2>3. \/ UNCHANGED pending
        \/ \E p : pending' = [pending EXCEPT ![rs] = Without(pending[rs], p)]
    BY <1>3 DEF RenderMark, Unmark
  <2>4. up = "release" => mem[um].s # rs /\ mem[um].s \in Sessions
    <3>1. up = "release" => mem[um].s \in Sessions
      BY DEF TypeInv, MemsOK, Leased
    <3>2. up = "release" => trackerLock[mem[um].s] = "up"
      BY <3>1 DEF TypeInv, LocksOK, LocksHeld
    <3> QED
      BY <2>2, <3>1, <3>2
  <2>5. CASE UNCHANGED pending
    BY <2>2, <2>5, <1>1 DEF TableOK
  <2>6. ASSUME NEW p, pending' = [pending EXCEPT ![rs] = Without(pending[rs], p)]
        PROVE  TableOK'
    <3>1. DOMAIN pending' = Sessions
      BY <2>6, <1>1 DEF TableOK
    <3>2. ASSUME NEW s \in Sessions
          PROVE  /\ DOMAIN pending'[s] \subseteq DOMAIN pending[s]
                 /\ \A q \in DOMAIN pending'[s] : pending'[s][q] = pending[s][q]
                 /\ s # rs => pending'[s] = pending[s]
      BY <2>6, <1>1 DEF TableOK, Without
    <3>3. up' = "release" => mem'[um'].ptr \in DOMAIN pending'[mem'[um'].s]
      BY <3>2, <2>2, <2>4, <1>1 DEF TableOK
    <3>4. ASSUME NEW s \in Sessions
          PROVE  /\ DOMAIN pending'[s] \subseteq Ptrs
                 /\ \A q \in DOMAIN pending'[s] : pending'[s][q] \in Ids
      BY <3>2, <1>1 DEF TableOK
    <3> QED
      BY <3>1, <3>3, <3>4 DEF TableOK
  <2> QED
    BY <2>3, <2>5, <2>6
<1>4. CASE UpGrant
  <2>1. nego \in Sessions /\ next_id[nego] \in Ids
    BY <1>4 DEF TypeInv, MemsOK, UpGrant, WriterOK
  <2>2. up' = "idle"
    BY <1>4 DEF UpGrant
  <2>3. PICK p \in Ptrs : pending' = [pending EXCEPT ![nego] = With(@, p, next_id[nego])]
    BY <1>4 DEF UpGrant
  <2> QED
    BY <2>1, <2>2, <2>3, <1>1 DEF TableOK, With
<1>5. CASE UpRelease
  <2>1. up' = "idle"
    BY <1>5 DEF UpRelease
  <2>2. mem[um].s \in Sessions
    BY <1>5 DEF TypeInv, MemsOK, Leased, UpRelease
  <2>3. pending' = [pending EXCEPT ![mem[um].s] = Without(@, mem[um].ptr)]
    BY <1>5 DEF UpRelease
  <2> QED
    BY <2>1, <2>2, <2>3, <1>1 DEF TableOK, Without
<1>6. CASE UpDropTracker
  <2>1. UNCHANGED <<pending, mem, um>> /\ mem[um].ptr \in DOMAIN pending[mem[um].s]
    BY <1>6 DEF UpDropTracker, trackVars
  <2> QED
    BY <2>1, <1>1 DEF TableOK
<1>7. CASE up' # "release" /\ UNCHANGED pending
  BY <1>1, <1>7 DEF TableOK
<1> QED
  BY <1>2, <1>3, <1>4, <1>5, <1>6, <1>7
     DEF SinkNext, RenderStep, UpStep, RenderCall, RenderLock, RenderFlushing,
         RenderFastWriter, RenderCopyWriter, RenderGrant, RenderDrop, RenderReset, RenderWake,
         RenderPush, ProposeAllocation, UpAlloc, UpWriter, UpDropOldest, UpReset, UpExhausted,
         UpDrop,
         UpDropNothing, GcDrain, GcCheck, Consume, Start, CallUnlock, Unlock, UnlockStop,
         FlushStop, Stop, StopJoined, trackVars, upVars

LEMMA StateStep == TypeInv /\ SinkNext => StateOK'
<1> SUFFICES ASSUME TypeInv, SinkNext PROVE StateOK'
  OBVIOUS
<1>1. StateOK /\ MaxStarts \in Nat
  BY Constants DEF TypeInv
<1>2. unlocked' \in {unlocked, TRUE, FALSE} /\ flushing' \in {flushing, TRUE, FALSE}
  <2>1. ASSUME NEW b \in Buffers, RenderCall(b)
        PROVE  UNCHANGED unlocked /\ flushing' \in BOOLEAN
    BY <2>1 DEF RenderCall
  <2> QED
    BY <2>1
       DEF SinkNext, RenderStep, UpStep, RenderLock, RenderFlushing, RenderMark,
           RenderFastWriter, RenderCopyWriter, RenderGrant, RenderDrop, RenderReset,
           RenderWake, RenderPush, ProposeAllocation, UpAlloc, UpWriter, UpDropOldest,
           UpReset, UpExhausted, UpGrant, UpDrop, UpDropNothing, UpDropTracker, UpRelease,
           GcDrain, GcCheck, Consume, Start, CallUnlock, Unlock, UnlockStop, FlushStop, Stop, StopJoined,
           stateVars
<1>3. unlocked' \in BOOLEAN /\ flushing' \in BOOLEAN
  BY <1>1, <1>2 DEF StateOK
<1>4. CASE UNCHANGED <<cur, starts>>
  BY <1>1, <1>3, <1>4 DEF StateOK
<1>5. CASE Start
  <2>1. starts \in Nat /\ starts < MaxStarts /\ starts' = starts + 1 /\ cur' = starts + 1
    BY <1>1, <1>5 DEF StateOK, Start
  <2>2. cur' \in Sessions /\ starts' \in 0 .. MaxStarts
    BY <2>1, <1>1 DEF Sessions
  <2> QED
    BY <2>2, <1>3 DEF StateOK
<1>6. CASE StopJoined
  <2>1. cur' = 0 /\ starts' = starts
    BY <1>6 DEF StopJoined
  <2> QED
    BY <2>1, <1>1, <1>3 DEF StateOK
<1> QED
  BY <1>4, <1>5, <1>6
     DEF SinkNext, RenderStep, UpStep, RenderCall, RenderLock, RenderFlushing, RenderMark,
           RenderFastWriter, RenderCopyWriter, RenderGrant, RenderDrop, RenderReset,
           RenderWake, RenderPush, ProposeAllocation, UpAlloc, UpWriter, UpDropOldest,
           UpReset, UpExhausted, UpGrant, UpDrop, UpDropNothing, UpDropTracker, UpRelease,
           GcDrain, GcCheck, Consume, CallUnlock, Unlock, UnlockStop, FlushStop, Stop,
           stateVars

\* A buffer's memory is one of upstream's, or there is none.
LEMMA BufferFields ==
    ASSUME NEW b \in Buffers
    PROVE  /\ b.mem \in Mems \cup {None}
           /\ b.kind \in {"whole", "part", "foreign", "large"}
           /\ b.kind \in {"whole", "part"} <=> b.mem # None
BY Constants DEF Buffers

LEMMA MemsStep == TypeInv /\ SinkNext => MemsOK'
<1> SUFFICES ASSUME TypeInv, SinkNext PROVE MemsOK'
  OBVIOUS
<1> USE Constants
<1>1. MemsOK /\ NoBuffer.mem = None
  BY DEF TypeInv, NoBuffer
<1>2. CASE UNCHANGED <<mem, sent, nego, um, up, big, buf>>
  BY <1>1, <1>2 DEF MemsOK
<1>3. ASSUME NEW b \in Buffers, RenderCall(b) PROVE MemsOK'
  <2>1. /\ buf' = b /\ UNCHANGED <<mem, sent, nego, um, up, big>>
        /\ b.kind \in {"whole", "part"} => mem[b.mem] # None /\ um # b.mem
    BY <1>3 DEF RenderCall, trackVars, upVars
  <2>2. b.mem # None => mem[b.mem] # None /\ um # b.mem
    BY <2>1, BufferFields
  <2> QED
    BY <2>1, <2>2, <1>1 DEF MemsOK
<1>4. CASE buf' = NoBuffer /\ UNCHANGED <<mem, sent, nego, um, up, big>>
  BY <1>1, <1>4 DEF MemsOK
<1>5. CASE RenderMark
  <2>1. UNCHANGED <<mem, nego, um, up, big, buf>> /\ (sent' = sent \/ sent' = sent \cup {buf.mem})
    BY <1>5 DEF RenderMark, upVars
  <2>2. buf.mem \in Mems /\ mem[buf.mem] # None
    BY <1>1, <1>5, BufferFields DEF MemsOK, TypeInv, RenderOK, RenderMark
  <2> QED
    BY <2>1, <2>2, <1>1 DEF MemsOK
<1>6. CASE ProposeAllocation
  BY <1>1, <1>6 DEF MemsOK, ProposeAllocation, TypeInv, StateOK, trackVars, renderVars
<1>7. ASSUME NEW m \in Mems, NEW large \in BOOLEAN, UpAlloc(m, large) PROVE MemsOK'
  BY <1>1, <1>7 DEF MemsOK, UpAlloc, trackVars, renderVars
<1>8. CASE UpWriter
  BY <1>1, <1>8 DEF MemsOK, UpWriter, trackVars, renderVars
<1>9. CASE UpGrant
  <2>1. /\ UNCHANGED <<sent, nego, big, buf>> /\ up' = "idle" /\ um' = None
        /\ mem[um] = None /\ um \in Mems /\ nego \in Sessions
    BY <1>1, <1>9 DEF MemsOK, UpGrant, renderVars
  <2>2. PICK p \in Ptrs :
           mem' = [mem EXCEPT ![um] = [s |-> nego, ptr |-> p, id |-> next_id[nego]]]
    BY <1>9 DEF UpGrant
  <2>3. [s |-> nego, ptr |-> p, id |-> next_id[nego]] \in Leased
    BY <2>1 DEF Leased, TypeInv, WriterOK
  <2>4. mem' \in [Mems -> Leased \cup {None}] /\ \A m \in Mems : mem[m] # None => mem'[m] # None
    BY <2>1, <2>2, <2>3, <1>1 DEF MemsOK
  <2>5. buf.mem \in Mems \cup {None}
    BY <1>1, BufferFields DEF MemsOK
  <2> QED
    BY <2>1, <2>4, <2>5, <1>1 DEF MemsOK
<1>10. ASSUME NEW m \in Mems, UpDrop(m) PROVE MemsOK'
  BY <1>1, <1>10 DEF MemsOK, UpDrop, trackVars, renderVars
<1>11. CASE UpDropTracker
  BY <1>1, <1>11 DEF MemsOK, UpDropTracker, trackVars, renderVars
<1>12. CASE UpDropNothing \/ UpRelease
  <2>1. /\ UNCHANGED <<nego, big, buf>> /\ up' = "idle" /\ um' = None
        /\ mem' = [mem EXCEPT ![um] = None] /\ sent' = sent \ {um}
        /\ um # None /\ um # buf.mem
    BY <1>1, <1>12 DEF MemsOK, UpDropNothing, UpRelease, renderVars
  <2>2. buf.mem \in Mems \cup {None}
    BY <1>1, BufferFields DEF MemsOK
  <2> QED
    BY <2>1, <2>2, <1>1 DEF MemsOK
<1>13. CASE UpExhausted
  <2>1. /\ UNCHANGED <<mem, sent, nego, buf>> /\ up' = "idle" /\ um' = None /\ big' = FALSE
    BY <1>13 DEF UpExhausted, renderVars, trackVars
  <2>2. buf.mem # None => mem[buf.mem] # None /\ um' # buf.mem
    BY <2>1, <1>1 DEF MemsOK
  <2> QED
    BY <2>1, <2>2, <1>1 DEF MemsOK
<1> QED
  BY <1>2, <1>3, <1>4, <1>5, <1>6, <1>7, <1>8, <1>9, <1>10, <1>11, <1>12, <1>13
     DEF SinkNext, RenderStep, UpStep, RenderLock, RenderFlushing, RenderFastWriter,
         RenderCopyWriter, RenderGrant, RenderDrop, RenderReset, RenderWake, RenderPush,
         UpDropOldest, UpReset, GcDrain, GcCheck, Consume, Start, CallUnlock, Unlock,
         UnlockStop, FlushStop, Stop, StopJoined, trackVars, upVars, renderVars

\* The memory of the buffer in render is not dropped under it.
LEMMA BufferMemStays ==
    TypeInv /\ SinkNext /\ buf.mem # None => buf.mem \in Mems /\ mem'[buf.mem] = mem[buf.mem]
<1> SUFFICES ASSUME TypeInv, SinkNext, buf.mem # None
             PROVE  buf.mem \in Mems /\ mem'[buf.mem] = mem[buf.mem]
  OBVIOUS
<1>1. NoBuffer.mem = None
  BY DEF NoBuffer
<1>2. MemsOK /\ buf.mem \in Mems /\ um # buf.mem
  BY <1>1, BufferFields DEF TypeInv, MemsOK
<1>3. CASE UpGrant
  <2>1. PICK v : mem' = [mem EXCEPT ![um] = v]
    BY <1>3 DEF UpGrant
  <2> QED
    BY <2>1, <1>2 DEF MemsOK
<1>4. CASE UpDropNothing \/ UpRelease
  BY <1>2, <1>4 DEF MemsOK, UpDropNothing, UpRelease
<1>5. CASE UNCHANGED mem
  BY <1>2, <1>5
<1> QED
  BY <1>3, <1>4, <1>5
     DEF SinkNext, RenderStep, UpStep, RenderCall, RenderLock, RenderFlushing, RenderMark,
         RenderFastWriter, RenderCopyWriter, RenderGrant, RenderDrop, RenderReset, RenderWake,
         RenderPush, ProposeAllocation, UpAlloc, UpWriter, UpDropOldest, UpReset, UpExhausted,
         UpDrop,
         UpDropTracker, GcDrain, GcCheck, Consume, Start, CallUnlock, Unlock, UnlockStop,
         FlushStop, Stop, StopJoined, trackVars

LEMMA RenderPlaceStep == TypeInv /\ SinkNext => RenderOK'
<1> SUFFICES ASSUME TypeInv, SinkNext PROVE RenderOK'
  OBVIOUS
<1> USE Constants
<1>1. RenderOK /\ (buf.mem # None => mem'[buf.mem] = mem[buf.mem])
  BY BufferMemStays DEF TypeInv
<1>2. CASE UNCHANGED renderVars
  BY <1>1, <1>2 DEF RenderOK, renderVars
<1>3. ASSUME NEW b \in Buffers, RenderCall(b) PROVE RenderOK'
  BY <1>1, <1>3 DEF RenderOK, RenderCall
<1>4. CASE RenderLock
  <2>1. /\ rs' = cur /\ cur \in Sessions /\ UNCHANGED <<buf, rlease, mem>>
        /\ r' = IF FromAllocator(buf, cur) THEN "mark" ELSE "copy"
    BY <1>4 DEF RenderLock, TypeInv, StateOK, trackVars
  <2>2. FromAllocator(buf, cur) => buf.mem # None /\ mem[buf.mem].s = cur
    <3>1. buf \in Buffers \/ buf = NoBuffer
      BY DEF TypeInv, MemsOK
    <3>2. NoBuffer.kind = "none"
      BY DEF NoBuffer
    <3> QED
      BY <3>1, <3>2, BufferFields DEF FromAllocator
  <2> QED
    BY <2>1, <2>2, <1>1 DEF RenderOK
<1>5. CASE RenderFlushing \/ RenderWake \/ RenderFastWriter \/ RenderCopyWriter
  BY <1>1, <1>5 DEF RenderOK, RenderFlushing, RenderWake, RenderFastWriter, RenderCopyWriter
<1>6. CASE RenderMark
  <2>1. /\ r = "mark" /\ UNCHANGED <<buf, rs>> /\ r' \in {"fast", "copy"}
        /\ r' = "copy" => rlease' = rlease
        /\ r' = "fast" => /\ mem[buf.mem].ptr \in DOMAIN pending[rs]
                          /\ rlease' = pending[rs][mem[buf.mem].ptr]
    BY <1>6 DEF RenderMark, Found
  <2>2. rs \in Sessions
    BY <2>1, <1>1 DEF RenderOK
  <2>3. r' = "fast" => rlease' \in Ids
    BY <2>1, <2>2 DEF TypeInv, TableOK
  <2> QED
    BY <2>1, <2>2, <2>3, <1>1 DEF RenderOK, Ids
<1>7. CASE RenderGrant
  <2>1. r = "alloc" /\ r' = "push" /\ rlease' = next_id[rs] /\ UNCHANGED <<rs, buf>>
    BY <1>7 DEF RenderGrant
  <2>2. rlease' \in Ids
    BY <2>1, <1>1 DEF RenderOK, TypeInv, WriterOK
  <2> QED
    BY <2>1, <2>2, <1>1 DEF RenderOK, Ids
<1>8. CASE RenderReset
  BY <1>1, <1>8 DEF RenderOK, RenderReset
<1>9. CASE RenderPush
  BY <1>1, <1>9 DEF RenderOK, RenderPush
<1> QED
  BY <1>2, <1>3, <1>4, <1>5, <1>6, <1>7, <1>8, <1>9
     DEF SinkNext, RenderStep, UpStep, RenderDrop, ProposeAllocation, UpAlloc, UpWriter,
         UpDropOldest, UpReset, UpExhausted, UpGrant, UpDrop, UpDropNothing, UpDropTracker,
         UpRelease,
         GcDrain, GcCheck, Consume, Start, CallUnlock, Unlock, UnlockStop, FlushStop, Stop,
         StopJoined

\* A lock is taken free, and let go by the call that has it.
LEMMA LocksStep == TypeInv /\ SinkNext => LocksOK'
<1> SUFFICES ASSUME TypeInv, SinkNext PROVE LocksOK'
  OBVIOUS
<1> USE Constants
<1>1. LocksOK
  BY DEF TypeInv
<1>2. CASE UNCHANGED <<locks, r, rs, app, up, nego, um, mem>>
  BY <1>1, <1>2 DEF LocksOK, LocksHeld, locks
<1>3. CASE UNCHANGED <<locks, rs, app, up, nego, um, mem>> /\ r \in {"idle", "lock"}
             /\ r' \in {"idle", "lock"}
  BY <1>1, <1>3 DEF LocksOK, LocksHeld, locks
<1>4. CASE RenderLock
  <2>1. /\ UNCHANGED <<trackerLock, writerLock, app, up, nego, um, mem>> /\ r = "lock"
        /\ r' \in {"mark", "copy"} /\ stateLock = None /\ stateLock' = "render"
    BY <1>4 DEF RenderLock, stateVars, upVars, trackVars
  <2> QED
    BY <2>1, <1>1 DEF LocksOK, LocksHeld
<1>5. CASE RenderMark
  <2>1. /\ UNCHANGED <<stateLock, writerLock, rs, app, up, nego, um, mem>> /\ r = "mark"
        /\ trackerLock[rs] = None
        /\ \/ r' = "copy" /\ UNCHANGED trackerLock
           \/ r' = "fast" /\ trackerLock' = [trackerLock EXCEPT ![rs] = "render"]
    BY <1>5 DEF RenderMark, stateVars, upVars
  <2>2. rs \in Sessions
    BY <2>1 DEF TypeInv, RenderOK
  <2> QED
    BY <2>1, <2>2, <1>1 DEF LocksOK, LocksHeld
<1>6. CASE RenderFastWriter \/ RenderCopyWriter
  <2>1. /\ UNCHANGED <<stateLock, trackerLock, rs, app, up, nego, um, mem>>
        /\ writerLock[rs] = None /\ writerLock' = [writerLock EXCEPT ![rs] = "render"]
        /\ \/ r = "fast" /\ r' = "push"
           \/ r = "copy" /\ r' = "alloc"
    BY <1>6 DEF RenderFastWriter, RenderCopyWriter, stateVars, upVars, trackVars
  <2>2. rs \in Sessions
    BY <2>1 DEF TypeInv, RenderOK
  <2> QED
    BY <2>1, <2>2, <1>1 DEF LocksOK, LocksHeld
<1>7. CASE RenderGrant \/ RenderReset
  <2>1. /\ UNCHANGED <<trackerLock, writerLock, rs, app, up, nego, um, mem>>
        /\ r = "alloc"
        /\ \/ r' \in {"push", "alloc"} /\ UNCHANGED stateLock
           \/ r' = "sleep" /\ stateLock' = None
    BY <1>7 DEF RenderGrant, RenderReset, locks, stateVars, upVars, trackVars
  <2>2. CASE r' \in {"push", "alloc"} /\ UNCHANGED stateLock
    BY <2>1, <2>2, <1>1 DEF LocksOK, LocksHeld
  <2>3. CASE r' = "sleep" /\ stateLock' = None
    BY <2>1, <2>3, <1>1 DEF LocksOK, LocksHeld
  <2> QED
    BY <2>1, <2>2, <2>3
<1>8. CASE RenderWake
  <2>1. /\ UNCHANGED <<stateLock, trackerLock, app, up, nego, um, mem>>
        /\ r = "sleep" /\ r' = "lock" /\ rs' = 0
        /\ writerLock' = [writerLock EXCEPT ![rs] = None]
    BY <1>8 DEF RenderWake, stateVars, upVars, trackVars
  <2>2. writerLock' \in [Sessions -> {None, "render", "up"}]
    BY <2>1, <1>1 DEF LocksOK
  <2> QED
    BY <2>1, <2>2, <1>1 DEF LocksOK, LocksHeld
<1>9. CASE RenderPush
  <2>1. /\ UNCHANGED <<app, up, nego, um, mem>>
        /\ r = "push" /\ r' = "idle" /\ rs' = 0 /\ stateLock' = None
        /\ writerLock' = [writerLock EXCEPT ![rs] = None]
        /\ trackerLock' = [s \in Sessions |->
                              IF trackerLock[s] = "render" THEN None ELSE trackerLock[s]]
    BY <1>9 DEF RenderPush, stateVars, upVars, trackVars
  <2> QED
    BY <2>1, <1>1 DEF LocksOK, LocksHeld
<1>10. CASE ProposeAllocation
  <2>1. UNCHANGED <<locks, r, rs, app, up, um, mem>> /\ up = "idle"
    BY <1>10 DEF ProposeAllocation, renderVars, stateVars, trackVars
  <2> QED
    BY <2>1, <1>1 DEF LocksOK, LocksHeld, locks
<1>11. ASSUME NEW m \in Mems, NEW large \in BOOLEAN, UpAlloc(m, large) PROVE LocksOK'
  <2>1. /\ UNCHANGED <<stateLock, writerLock, r, rs, app, nego, mem>>
        /\ up = "idle" /\ up' = "alloc" /\ nego # 0
        /\ trackerLock[nego] = None /\ trackerLock' = [trackerLock EXCEPT ![nego] = "up"]
    BY <1>11 DEF UpAlloc, renderVars, stateVars, trackVars
  <2>2. nego \in Sessions
    BY <2>1 DEF TypeInv, MemsOK
  <2> QED
    BY <2>1, <2>2, <1>1 DEF LocksOK, LocksHeld
<1>12. CASE UpWriter
  <2>1. /\ UNCHANGED <<stateLock, trackerLock, r, rs, app, nego, um, mem>>
        /\ up = "alloc" /\ up' = "lease"
        /\ writerLock[nego] = None /\ writerLock' = [writerLock EXCEPT ![nego] = "up"]
    BY <1>12 DEF UpWriter, renderVars, stateVars, trackVars
  <2>2. nego \in Sessions
    BY <2>1 DEF TypeInv, MemsOK
  <2> QED
    BY <2>1, <2>2, <1>1 DEF LocksOK, LocksHeld
<1>13. CASE UpGrant \/ UpExhausted
  <2>1. /\ UNCHANGED <<stateLock, r, rs, app, nego>>
        /\ up = "lease" /\ up' = "idle"
        /\ trackerLock' = [trackerLock EXCEPT ![nego] = None]
        /\ writerLock' = [writerLock EXCEPT ![nego] = None]
    BY <1>13 DEF UpGrant, UpExhausted, Grant, ResetArena, renderVars, stateVars
  <2>2. nego \in Sessions
    BY <2>1 DEF TypeInv, MemsOK
  <2> QED
    BY <2>1, <2>2, <1>1 DEF LocksOK, LocksHeld
<1>14. ASSUME NEW m \in Mems, UpDrop(m) PROVE LocksOK'
  <2>1. UNCHANGED <<locks, r, rs, app, nego, mem>> /\ up = "idle" /\ up' = "dropping"
    BY <1>14 DEF UpDrop, renderVars, stateVars, trackVars
  <2> QED
    BY <2>1, <1>1 DEF LocksOK, LocksHeld, locks
<1>15. CASE UpDropNothing
  <2>1. UNCHANGED <<locks, r, rs, app, nego>> /\ up = "dropping" /\ up' = "idle"
    BY <1>15 DEF UpDropNothing, renderVars, stateVars
  <2> QED
    BY <2>1, <1>1 DEF LocksOK, LocksHeld, locks
<1>16. CASE UpDropTracker
  <2>1. /\ UNCHANGED <<stateLock, writerLock, r, rs, app, nego, um, mem>>
        /\ up = "dropping" /\ up' = "release" /\ trackerLock[mem[um].s] = None
        /\ trackerLock' = [trackerLock EXCEPT ![mem[um].s] = "up"]
    BY <1>16 DEF UpDropTracker, renderVars, stateVars, trackVars
  <2>2. mem[um].s \in Sessions
    BY <2>1 DEF TypeInv, MemsOK, Leased
  <2> QED
    BY <2>1, <2>2, <1>1 DEF LocksOK, LocksHeld
<1>17. CASE UpRelease
  <2>1. /\ UNCHANGED <<stateLock, writerLock, r, rs, app, nego>>
        /\ up = "release" /\ up' = "idle"
        /\ trackerLock' = [trackerLock EXCEPT ![mem[um].s] = None]
    BY <1>17 DEF UpRelease, renderVars, stateVars
  <2>2. PICK o \in Sessions : o = mem[um].s
    BY <2>1 DEF TypeInv, MemsOK, Leased
  <2>3. trackerLock' = [trackerLock EXCEPT ![o] = None]
    BY <2>1, <2>2
  <2>4. \A s \in Sessions : trackerLock'[s] = IF s = o THEN None ELSE trackerLock[s]
    BY <2>3, <1>1 DEF LocksOK
  <2>5. \A s \in Sessions : trackerLock'[s] # "up"
    BY <2>1, <2>2, <2>4, <1>1 DEF LocksOK, LocksHeld
  <2>6. \A s \in Sessions : trackerLock'[s] \in {None, trackerLock[s]}
    BY <2>4
  <2>7. trackerLock' \in [Sessions -> {None, "render", "up"}]
    BY <2>3, <1>1 DEF LocksOK
  <2>8. r = "fast" => rs # o
    BY <2>1, <2>2, <1>1 DEF LocksOK, LocksHeld
  <2>9. r = "fast" => trackerLock'[rs] = "render"
    BY <2>4, <2>8, <1>1 DEF TypeInv, RenderOK, LocksOK, LocksHeld
  <2> QED
    BY <2>1, <2>5, <2>6, <2>7, <2>9, <1>1 DEF LocksOK, LocksHeld
<1>18. CASE UNCHANGED <<locks, r, rs, up, nego, um, mem>> /\ app # "join" /\ app' # "join"
  BY <1>1, <1>18 DEF LocksOK, LocksHeld, locks
<1>19. CASE Stop \/ StopJoined
  <2>1. /\ UNCHANGED <<trackerLock, writerLock, r, rs, up, nego, um, mem>>
        /\ \/ stateLock = None /\ stateLock' = "app" /\ app' = "join"
           \/ app = "join" /\ stateLock' = None /\ app' = "ready"
    BY <1>19 DEF Stop, StopJoined, renderVars, upVars, trackVars
  <2> QED
    BY <2>1, <1>1 DEF LocksOK, LocksHeld
<1>20. CASE Start \/ CallUnlock \/ Unlock \/ UnlockStop \/ FlushStop
  BY <1>18, <1>20
     DEF Start, CallUnlock, Unlock, UnlockStop, FlushStop, renderVars, upVars, trackVars
<1>21. ASSUME NEW b \in Buffers, RenderCall(b) PROVE LocksOK'
  BY <1>3, <1>21 DEF RenderCall, upVars, trackVars
<1>22. CASE RenderFlushing
  BY <1>3, <1>22 DEF RenderFlushing, upVars, trackVars, stateVars
<1> QED
  BY <1>2, <1>4, <1>5, <1>6, <1>7, <1>8, <1>9, <1>10, <1>11, <1>12, <1>13, <1>14, <1>15,
     <1>16, <1>17, <1>19, <1>20, <1>21, <1>22
     DEF SinkNext, RenderStep, UpStep, RenderDrop, UpDropOldest, UpReset, GcDrain, GcCheck,
         Consume, trackVars, upVars, renderVars, stateVars

\* One step, or none, keeps the types and the locks.
LEMMA StepType == TypeInv /\ [SinkNext]_vars => TypeInv'
<1> SUFFICES ASSUME TypeInv, [SinkNext]_vars PROVE TypeInv'
  OBVIOUS
<1>1. CASE SinkNext
  BY <1>1, WriterStep, TableStep, StateStep, MemsStep, RenderPlaceStep, LocksStep DEF TypeInv
<1>2. CASE UNCHANGED vars
  BY <1>2 DEF TypeInv, WriterOK, TableOK, StateOK, MemsOK, RenderOK, LocksOK, LocksHeld, vars,
              locks, writerVars, trackVars, renderVars, upVars, stateVars
<1> QED
  BY <1>1, <1>2

\* The state, the tables and the queues of the sink keep their types, and each mutex is
\* held by the call whose place says so, over any number of sessions and memories.
THEOREM SinkTypeCorrect == SinkSpec => []SinkTypeOK
<1>1. TypeInv => SinkTypeOK
  BY DEF TypeInv, WriterOK, TableOK, StateOK, MemsOK, LocksOK, SinkTypeOK, Leased
<1> QED
  BY <1>1, InitInv, StepType, PTL DEF SinkSpec

--------------------------------------------------------------------------------
(* Who waits for whom. *)

\* The state changes: a session runs between start() and stop(), is the latest, and alone
\* has a GC thread; and from unlock_stop() on render is out of the way.
SessionOK ==
    /\ app \in {"ready", "playing", "unlock", "unlocked", "flushed", "join"}
    /\ gc \in [Sessions -> {"none", "loop", "lock", "done"}]
    /\ gc_stop \in [Sessions -> BOOLEAN]
    /\ app = "ready" => cur = 0
    /\ app # "ready" => cur = starts /\ cur \in Sessions /\ gc[cur] \in {"loop", "lock", "done"}
    /\ \A s \in Sessions : gc[s] \in {"loop", "lock"} => s = cur
    /\ app = "join" => gc_stop[cur]
    /\ app \in {"ready", "flushed", "join"} => flushing /\ r = "idle"
    /\ r \notin {"idle", "lock"} => rs = starts

LEMMA InitSession == SinkInit => SessionOK
BY Constants DEF SinkInit, SessionOK

LEMMA SessionStep == TypeInv /\ SessionOK /\ [SinkNext]_vars => SessionOK'
<1> SUFFICES ASSUME TypeInv, SessionOK, [SinkNext]_vars PROVE SessionOK'
  OBVIOUS
<1> USE Constants
<1>1. CASE UNCHANGED <<stateVars, r, rs>>
  BY <1>1 DEF SessionOK, stateVars
<1>2. ASSUME NEW b \in Buffers, RenderCall(b) PROVE SessionOK'
  <2>1. ~flushing /\ r' = "lock" /\ UNCHANGED <<app, cur, starts, gc, gc_stop>>
    BY <1>2 DEF RenderCall
  <2> QED
    BY <2>1 DEF SessionOK
<1>3. CASE RenderLock
  <2>1. r = "lock" /\ cur # 0 /\ rs' = cur /\ UNCHANGED <<app, cur, starts, gc, gc_stop, flushing>>
    BY <1>3 DEF RenderLock, stateVars
  <2> QED
    BY <2>1 DEF SessionOK
<1>4. CASE RenderStep /\ ~RenderLock
  <2>1. /\ r # "idle" /\ UNCHANGED <<app, cur, starts, gc, gc_stop, flushing>>
        /\ r' \in {"idle", "lock"} \/ (r \notin {"idle", "lock"} /\ rs' = rs)
    BY <1>4 DEF RenderStep, RenderFlushing, RenderMark, RenderFastWriter, RenderCopyWriter,
                RenderGrant, RenderDrop, RenderReset, RenderWake, RenderPush, stateVars,
                renderVars
  <2> QED
    BY <2>1 DEF SessionOK
<1>5. ASSUME NEW s \in Sessions, GcCheck(s) \/ GcDrain(s) PROVE SessionOK'
  <2>1. /\ gc[s] \in {"loop", "lock"}
        /\ UNCHANGED <<app, cur, starts, gc_stop, flushing, r, rs>>
        /\ \E place \in {"loop", "lock", "done"} : gc' = [gc EXCEPT ![s] = place]
    BY <1>5 DEF GcCheck, GcDrain, renderVars
  <2>2. PICK place \in {"loop", "lock", "done"} : gc' = [gc EXCEPT ![s] = place]
    BY <2>1
  <2>3. /\ gc' \in [Sessions -> {"none", "loop", "lock", "done"}] /\ s = cur
        /\ \A t \in Sessions : gc'[t] = IF t = s THEN place ELSE gc[t]
    BY <2>1, <2>2 DEF SessionOK
  <2> QED
    BY <2>1, <2>3 DEF SessionOK
<1>6. CASE Start
  <2>1. /\ app = "ready" /\ starts < MaxStarts /\ cur' = starts + 1 /\ starts' = starts + 1
        /\ app' = "playing" /\ gc' = [gc EXCEPT ![starts + 1] = "loop"]
        /\ UNCHANGED <<gc_stop, r, rs>>
    BY <1>6 DEF Start, renderVars
  <2>2. starts + 1 \in Sessions
    BY <2>1 DEF TypeInv, StateOK, Sessions
  <2>3. \A s \in Sessions : gc[s] \notin {"loop", "lock"}
    BY <2>1 DEF SessionOK
  <2> QED
    BY <2>1, <2>2, <2>3 DEF SessionOK
<1>7. CASE CallUnlock \/ Unlock
  <2>1. /\ app \in {"playing", "unlock"} /\ app' \in {"unlock", "unlocked"}
        /\ UNCHANGED <<cur, starts, gc, gc_stop, r, rs>>
    BY <1>7 DEF CallUnlock, Unlock, renderVars
  <2> QED
    BY <2>1 DEF SessionOK
<1>8. CASE UnlockStop \/ FlushStop
  <2>1. /\ app \in {"unlocked", "flushed"} /\ UNCHANGED <<cur, starts, gc, gc_stop, r, rs>>
        /\ \/ r = "idle" /\ flushing' = TRUE /\ app' = "flushed"
           \/ app' = "playing"
    BY <1>8 DEF UnlockStop, FlushStop, renderVars
  <2> QED
    BY <2>1 DEF SessionOK
<1>9. CASE Stop
  <2>1. /\ app = "flushed" /\ app' = "join" /\ gc_stop' = [gc_stop EXCEPT ![cur] = TRUE]
        /\ UNCHANGED <<cur, starts, gc, flushing, r, rs>>
    BY <1>9 DEF Stop, renderVars
  <2> QED
    BY <2>1 DEF SessionOK
<1>10. CASE StopJoined
  <2>1. /\ app = "join" /\ app' = "ready" /\ cur' = 0 /\ gc[cur] = "done"
        /\ UNCHANGED <<starts, gc, gc_stop, flushing, r, rs>>
    BY <1>10 DEF StopJoined, renderVars
  <2>2. \A s \in Sessions : gc[s] \notin {"loop", "lock"}
    BY <2>1 DEF SessionOK
  <2> QED
    BY <2>1, <2>2 DEF SessionOK
<1> QED
  BY <1>1, <1>2, <1>3, <1>4, <1>5, <1>6, <1>7, <1>8, <1>9, <1>10
     DEF SinkNext, UpStep, ProposeAllocation, UpAlloc, UpWriter, UpDropOldest, UpReset,
         UpExhausted, UpGrant, UpDrop, UpDropNothing, UpDropTracker, UpRelease, Consume,
         vars, renderVars

\* The call waits for no other.
Free(x) == \A y \in Calls : ~WaitsFor(x, y)

\* Whom each call may wait for: the holder of a mutex, which LocksHeld places.
LEMMA WaitsAre ==
    ASSUME TypeInv, SessionOK, NEW y \in Calls
    PROVE  /\ WaitsFor("render", y) =>
                y = "up" /\ up \in {"alloc", "lease", "release"} /\ r \in {"mark", "fast", "copy"}
           /\ WaitsFor("up", y) =>
                /\ up # "lease"
                /\ \/ y = "app" /\ app = "join" /\ up = "idle"
                   \/ y = "render" /\ r \in {"mark", "fast", "copy"}
                        /\ up \notin {"alloc", "lease", "release"}
                   \/ y = "render" /\ r \in {"alloc", "push", "sleep"}
           /\ WaitsFor("app", y) =>
                \/ y = "render" /\ app # "join"
                \/ y = "gc" /\ app = "join"
                \/ y = "up" /\ app = "join" /\ up = "lease"
           /\ WaitsFor("gc", y) =>
                \/ y = "render" /\ r \in {"alloc", "push", "sleep"} /\ app # "join"
                \/ y = "up" /\ up = "lease"
<1> USE Constants
<1>1. LocksHeld /\ stateLock \in {None, "render", "app"} /\ None \notin Calls
  BY SinkAssumption DEF TypeInv, LocksOK, Calls
<1>2. \A s \in Sessions : {trackerLock[s], writerLock[s]} \subseteq {None, "render", "up"}
  BY DEF TypeInv, LocksOK
<1>3. /\ r \in {"mark", "fast", "copy"} => rs \in Sessions
      /\ nego # 0 => nego \in Sessions
      /\ up = "alloc" => nego \in Sessions
      /\ up \in {"dropping", "release"} => mem[um].s \in Sessions
      /\ app = "join" => cur \in Sessions /\ r = "idle"
  BY DEF TypeInv, RenderOK, MemsOK, Leased, SessionOK
<1>4. stateLock = y => \/ y = "render" /\ r \in {"mark", "fast", "copy", "alloc", "push"}
                       \/ y = "app" /\ app = "join"
  <2>1. /\ stateLock = "render" => r \in {"mark", "fast", "copy", "alloc", "push"}
        /\ stateLock = "app" => app = "join"
    BY <1>1 DEF LocksHeld
  <2>2. stateLock = y => stateLock \in {"render", "app"}
    BY <1>1
  <2> QED
    BY <2>1, <2>2
<1>5. ASSUME NEW s \in Sessions, trackerLock[s] = y
      PROVE  \/ y = "render" /\ r \in {"fast", "push"}
             \/ y = "up" /\ up \in {"alloc", "lease", "release"}
  BY <1>1, <1>2, <1>5 DEF LocksHeld
<1>6. ASSUME NEW s \in Sessions, writerLock[s] = y
      PROVE  \/ y = "render" /\ r \in {"alloc", "push", "sleep"}
             \/ y = "up" /\ up = "lease"
  BY <1>1, <1>2, <1>6 DEF LocksHeld
<1>7. WaitsFor("render", y) =>
        y = "up" /\ up \in {"alloc", "lease", "release"} /\ r \in {"mark", "fast", "copy"}
  BY <1>3, <1>4, <1>5, <1>6 DEF WaitsFor
<1>8. WaitsFor("up", y) =>
        /\ up # "lease"
        /\ \/ y = "app" /\ app = "join" /\ up = "idle"
           \/ y = "render" /\ r \in {"mark", "fast", "copy"}
                /\ up \notin {"alloc", "lease", "release"}
           \/ y = "render" /\ r \in {"alloc", "push", "sleep"}
  BY <1>3, <1>4, <1>5, <1>6 DEF WaitsFor
<1>9. WaitsFor("app", y) =>
        \/ y = "render" /\ app # "join"
        \/ y = "gc" /\ app = "join"
        \/ y = "up" /\ app = "join" /\ up = "lease"
  BY <1>3, <1>4, <1>6 DEF WaitsFor, Joining
<1>10. WaitsFor("gc", y) =>
         \/ y = "render" /\ r \in {"alloc", "push", "sleep"} /\ app # "join"
         \/ y = "up" /\ up = "lease"
  <2>1. cur # 0 => cur \in Sessions
    BY DEF TypeInv, StateOK
  <2> QED
    BY <2>1, <1>3, <1>6 DEF WaitsFor
<1> QED
  BY <1>7, <1>8, <1>9, <1>10

\* After two waits comes a call that is free: upstream with a lease under way or behind
\* render, render behind upstream or the GC thread, or a GC thread that stop() joins with no
\* lease under way.
LEMMA TwoWaits ==
    ASSUME TypeInv, SessionOK, NEW x \in Calls, NEW y \in Calls, NEW z \in Calls,
           WaitsFor(x, y), WaitsFor(y, z)
    PROVE  Free(z)
<1>1. y = "app" => app = "join" /\ up = "idle"
  BY WaitsAre DEF Calls
<1>2. z # "app"
  BY <1>1, WaitsAre DEF Calls
<1>3. CASE z = "up"
  <2>1. up = "lease" \/ (up \in {"alloc", "release"} /\ r \in {"mark", "fast", "copy"})
    BY <1>3, WaitsAre DEF Calls
  <2> QED
    BY <1>3, <2>1, WaitsAre DEF Free
<1>4. CASE z = "render"
  <2>1. y \in {"up", "gc"}
    BY <1>1, <1>4, WaitsAre DEF Calls
  <2>2. \/ r \in {"mark", "fast", "copy"} /\ up \notin {"alloc", "lease", "release"}
        \/ r \in {"alloc", "push", "sleep"}
    BY <1>4, <2>1, WaitsAre
  <2> QED
    BY <1>4, <2>2, WaitsAre DEF Free
<1>5. CASE z = "gc"
  <2>1. y = "app"
    BY <1>5, WaitsAre DEF Calls
  <2> QED
    BY <1>1, <1>5, <2>1, WaitsAre DEF Free
<1> QED
  BY <1>2, <1>3, <1>4, <1>5 DEF Calls

\* No three waits of the sink's calls follow one another.
THEOREM SinkWaitsEndCorrect == SinkSpec => []SinkWaitsEnd
<1>1. ASSUME TypeInv, SessionOK PROVE SinkWaitsEnd
  <2>1. app = "join" => gc[cur] \in {"loop", "lock", "done"} /\ gc_stop[cur]
    BY <1>1 DEF SessionOK
  <2> QED
    BY <1>1, <2>1, TwoWaits DEF SinkWaitsEnd, Free
<1> QED
  BY <1>1, InitInv, InitSession, StepType, SessionStep, PTL DEF SinkSpec

--------------------------------------------------------------------------------
(* Leases: what each operation does to their owners. *)

Distinct(q) == \A i, j \in DOMAIN q : q[i] = q[j] => i = j

LEMMA AppendFacts ==
    ASSUME NEW q \in Seq(Ids), NEW x \in Ids, x \notin Range(q), Distinct(q)
    PROVE  /\ Range(Append(q, x)) = Range(q) \cup {x}
           /\ Distinct(Append(q, x))
<1>1. /\ DOMAIN Append(q, x) = 1 .. Len(q) + 1 /\ DOMAIN q = 1 .. Len(q) /\ Len(q) \in Nat
      /\ \A i \in 1 .. Len(q) : Append(q, x)[i] = q[i]
      /\ Append(q, x)[Len(q) + 1] = x
  OBVIOUS
<1> QED
  BY <1>1 DEF Range, Distinct

LEMMA TailFacts ==
    ASSUME NEW q \in Seq(Ids), q # <<>>, Distinct(q)
    PROVE  /\ Range(q) = Range(Tail(q)) \cup {Head(q)}
           /\ Head(q) \notin Range(Tail(q)) /\ Head(q) \in Ids
           /\ Distinct(Tail(q))
<1>1. /\ DOMAIN q = 1 .. Len(q) /\ Len(q) \in Nat \ {0} /\ DOMAIN Tail(q) = 1 .. Len(q) - 1
      /\ \A i \in 1 .. Len(q) - 1 : Tail(q)[i] = q[i + 1]
      /\ Head(q) = q[1] /\ q[1] \in Ids
  OBVIOUS
<1>2. Range(Tail(q)) = {q[i] : i \in 2 .. Len(q)}
  <2>1. \A i \in 2 .. Len(q) : i - 1 \in 1 .. Len(q) - 1 /\ Tail(q)[i - 1] = q[i]
    BY <1>1
  <2>2. \A i \in 1 .. Len(q) - 1 : i + 1 \in 2 .. Len(q)
    BY <1>1
  <2>3. ASSUME NEW x \in Range(Tail(q)) PROVE x \in {q[i] : i \in 2 .. Len(q)}
    <3>1. PICK i \in 1 .. Len(q) - 1 : x = Tail(q)[i]
      BY <1>1 DEF Range
    <3> QED
      BY <3>1, <1>1, <2>2
  <2>4. ASSUME NEW i \in 2 .. Len(q) PROVE q[i] \in Range(Tail(q))
    <3>1. i - 1 \in DOMAIN Tail(q) /\ Tail(q)[i - 1] = q[i]
      BY <1>1, <2>1
    <3> QED
      BY <3>1 DEF Range
  <2> QED
    BY <2>3, <2>4
<1>3. 1 .. Len(q) = (2 .. Len(q)) \cup {1}
  BY <1>1
<1>4. Distinct(Tail(q))
  <2> SUFFICES ASSUME NEW i \in 1 .. Len(q) - 1, NEW j \in 1 .. Len(q) - 1,
                      Tail(q)[i] = Tail(q)[j]
               PROVE  i = j
    BY <1>1 DEF Distinct
  <2>1. i + 1 = j + 1
    BY <1>1 DEF Distinct
  <2> QED
    BY <2>1
<1>5. Range(q) = Range(Tail(q)) \cup {Head(q)}
  <2>1. Range(q) = {q[i] : i \in 1 .. Len(q)}
    BY <1>1 DEF Range
  <2>2. ASSUME NEW x PROVE x \in Range(q) <=> x \in Range(Tail(q)) \/ x = q[1]
    BY <1>2, <1>3, <2>1
  <2> QED
    BY <1>1, <2>2
<1>6. \A i \in 2 .. Len(q) : q[i] # q[1]
  BY <1>1 DEF Distinct
<1>7. Head(q) \notin Range(Tail(q))
  BY <1>1, <1>2, <1>6
<1> QED
  BY <1>1, <1>4, <1>5, <1>7

\* A block granted to render.
LEMMA OwnedGrantRender ==
    ASSUME NEW L, NEW n \in Ids, NEW q, NEW b, NEW P, NEW A, NEW U, NEW M,
           L \subseteq Ids, Owned(L, n, q, b, P, {}, A, U, M)
    PROVE  Owned(L \cup {n}, n + 1, q, b, P, {n}, A, U, M)
<1>1. n \notin L /\ \A id \in L \cup {n} : id < n + 1
  BY DEF Owned, Ids
<1> QED
  BY <1>1 DEF Owned

\* A block granted to an upstream memory m, with an entry in the table.
LEMMA OwnedGrantMemory ==
    ASSUME NEW L, NEW n \in Ids, NEW q, NEW b, NEW P, NEW X, NEW A, NEW U, NEW M, NEW N,
           NEW m, NEW p, NEW n1, n1 = n + 1,
           L \subseteq Ids, U \subseteq A, m \notin A,
           \A k \in A : N[k] = M[k] /\ M[k].ptr # p,
           N[m].ptr = p, N[m].id = n,
           Owned(L, n, q, b, P, X, A, U, M)
    PROVE  Owned(L \cup {n}, n1, q, b, With(P, p, n), X, A \cup {m}, U \cup {m}, N)
<1>1. n \notin L /\ \A id \in L \cup {n} : id < n1
  BY DEF Owned, Ids
<1>2. {N[k].id : k \in U \cup {m}} = {M[k].id : k \in U} \cup {n}
  OBVIOUS
<1>3. {N[k].ptr : k \in U \cup {m}} = {M[k].ptr : k \in U} \cup {p}
  OBVIOUS
<1>4. \A k \in U : M[k].id \in L
  BY DEF Owned
<1>5. /\ \A k, j \in U \cup {m} : N[k].id = N[j].id => k = j
      /\ \A k, j \in A \cup {m} : N[k].ptr = N[j].ptr => k = j
  BY <1>1, <1>4 DEF Owned
<1>6. /\ DOMAIN With(P, p, n) = {N[k].ptr : k \in U \cup {m}}
      /\ \A k \in U \cup {m} : With(P, p, n)[N[k].ptr] = N[k].id
  BY <1>3 DEF Owned, With
<1>7. /\ L \cup {n} = Range(q) \cup b \cup X \cup {N[k].id : k \in U \cup {m}}
      /\ \A k \in U \cup {m} : N[k].id \notin Range(q) \cup b \cup X
  BY <1>1, <1>2 DEF Owned
<1> QED
  BY <1>1, <1>5, <1>6, <1>7 DEF Owned

\* The oldest queued frame dropped, or taken by the consumer.
LEMMA OwnedTail ==
    ASSUME NEW L, NEW n, NEW q \in Seq(Ids), NEW b, NEW P, NEW X, NEW A, NEW U, NEW M,
           q # <<>>, Owned(L, n, q, b, P, X, A, U, M)
    PROVE  /\ Owned(L \ {Head(q)}, n, Tail(q), b, P, X, A, U, M)
           /\ Owned(L, n, Tail(q), b \cup {Head(q)}, P, X, A, U, M)
<1>1. /\ Range(q) = Range(Tail(q)) \cup {Head(q)}
      /\ Head(q) \notin Range(Tail(q)) /\ Distinct(Tail(q))
  BY TailFacts DEF Owned, Distinct
<1> QED
  BY <1>1 DEF Owned, Distinct

\* The recycle ring drained.
LEMMA OwnedDrain ==
    ASSUME NEW L, NEW n, NEW q, NEW b, NEW P, NEW X, NEW A, NEW U, NEW M,
           Owned(L, n, q, b, P, X, A, U, M)
    PROVE  Owned(L \ b, n, q, {}, P, X, A, U, M)
BY DEF Owned

\* The lease of render queued.
LEMMA OwnedPush ==
    ASSUME NEW L, NEW n, NEW q \in Seq(Ids), NEW b, NEW P, NEW x \in Ids, NEW A, NEW U, NEW M,
           Owned(L, n, q, b, P, {x}, A, U, M)
    PROVE  Owned(L, n, Append(q, x), b, P, {}, A, U, M)
<1>1. Range(Append(q, x)) = Range(q) \cup {x} /\ Distinct(Append(q, x))
  BY AppendFacts DEF Owned, Distinct
<1> QED
  BY <1>1 DEF Owned, Distinct

\* A memory marked: its lease is render's.
LEMMA OwnedMark ==
    ASSUME NEW L, NEW n, NEW q, NEW b, NEW P, NEW A, NEW U, NEW M, NEW m \in U,
           U \subseteq A, Owned(L, n, q, b, P, {}, A, U, M)
    PROVE  Owned(L, n, q, b, Without(P, M[m].ptr), {M[m].id}, A, U \ {m}, M)
<1>1. /\ {M[k].id : k \in U} = {M[k].id : k \in U \ {m}} \cup {M[m].id}
      /\ {M[k].ptr : k \in U} = {M[k].ptr : k \in U \ {m}} \cup {M[m].ptr}
  OBVIOUS
<1>2. \A k \in U \ {m} : M[k].id # M[m].id /\ M[k].ptr # M[m].ptr
  BY DEF Owned
<1> QED
  BY <1>1, <1>2 DEF Owned, Without

\* An unsent memory dropped: its lease is freed and its entry goes.
LEMMA OwnedRelease ==
    ASSUME NEW L, NEW n, NEW q, NEW b, NEW P, NEW X, NEW A, NEW U, NEW M, NEW N, NEW m \in U,
           U \subseteq A, \A k \in A \ {m} : N[k] = M[k],
           Owned(L, n, q, b, P, X, A, U, M)
    PROVE  Owned(L \ {M[m].id}, n, q, b, Without(P, M[m].ptr), X, A \ {m}, U \ {m}, N)
<1>1. /\ {M[k].id : k \in U} = {N[k].id : k \in U \ {m}} \cup {M[m].id}
      /\ {M[k].ptr : k \in U} = {N[k].ptr : k \in U \ {m}} \cup {M[m].ptr}
  OBVIOUS
<1>2. \A k \in U \ {m} : M[k].id # M[m].id /\ M[k].ptr # M[m].ptr
  BY DEF Owned
<1> QED
  BY <1>1, <1>2 DEF Owned, Without

\* A sent memory dropped: it has neither.
LEMMA OwnedForget ==
    ASSUME NEW L, NEW n, NEW q, NEW b, NEW P, NEW X, NEW A, NEW B, NEW U, NEW M, NEW N,
           U \subseteq B, B \subseteq A, \A k \in B : N[k] = M[k],
           Owned(L, n, q, b, P, X, A, U, M)
    PROVE  Owned(L, n, q, b, P, X, B, U, N)
<1>1. /\ {M[k].id : k \in U} = {N[k].id : k \in U}
      /\ {M[k].ptr : k \in U} = {N[k].ptr : k \in U}
  OBVIOUS
<1> QED
  BY <1>1 DEF Owned

\* No step makes a session clean.
LEMMA StaysUnclean == TypeInv /\ SinkNext => \A s \in Sessions : clean'[s] => clean[s]
<1> SUFFICES ASSUME TypeInv, SinkNext PROVE \A s \in Sessions : clean'[s] => clean[s]
  OBVIOUS
<1>1. WriterOp /\ clean \in [Sessions -> BOOLEAN]
  BY StepOperates DEF TypeInv, WriterOK
<1>2. ASSUME NEW t \in Sessions, NEW p \in Ptrs, Grant(t, p)
      PROVE  \A s \in Sessions : clean'[s] => clean[s]
  <2>1. clean' = [clean EXCEPT ![t] = clean[t] /\ ~InUse(t, p)]
    BY <1>2 DEF Grant
  <2> QED
    BY <2>1, <1>1
<1>3. ASSUME NEW t \in Sessions, NEW large \in BOOLEAN, ResetArena(t, large)
      PROVE  \A s \in Sessions : clean'[s] => clean[s]
  BY <1>3 DEF ResetArena
<1>4. ASSUME NEW t \in Sessions, NEW large \in BOOLEAN, DropOldest(t, large)
      PROVE  \A s \in Sessions : clean'[s] => clean[s]
  BY <1>4 DEF DropOldest
<1>5. CASE Start
  BY <1>5 DEF Start
<1>6. CASE UNCHANGED clean
  BY <1>6
<1> QED
  BY <1>1, <1>2, <1>3, <1>4, <1>5, <1>6
     DEF WriterOp, writerVars, RenderPush, GcDrain, Consume

LEMMA LeasesStep == TypeInv /\ SessionOK /\ BufferInv /\ LeasesInv /\ SinkNext => LeasesInv'
<1> SUFFICES ASSUME TypeInv, SessionOK, BufferInv, LeasesInv, SinkNext,
                    NEW z \in Sessions, clean'[z]
             PROVE  Owned(DOMAIN live'[z], next_id'[z], RingOf(z)', BackOf(z)', pending'[z],
                          Published(r', rs', rlease', z), MemsOf(mem', z),
                          UnsentOf(mem', sent', z), mem')
  BY DEF LeasesInv
<1> USE Constants
<1> DEFINE L == DOMAIN live[z]
           X == Published(r, rs, rlease, z)
           A == MemsOf(mem, z)
           U == UnsentOf(mem, sent, z)
           Kept == Owned(DOMAIN live'[z], next_id'[z], RingOf(z)', BackOf(z)', pending'[z],
                         Published(r', rs', rlease', z), MemsOf(mem', z),
                         UnsentOf(mem', sent', z), mem')
           SameWriter == /\ DOMAIN live'[z] = L /\ next_id'[z] = next_id[z]
                         /\ RingOf(z)' = RingOf(z) /\ BackOf(z)' = BackOf(z)
           SameTable == /\ pending'[z] = pending[z] /\ \A m \in A : mem'[m] = mem[m]
                        /\ MemsOf(mem', z) = A /\ UnsentOf(mem', sent', z) = U
           SameRender == Published(r', rs', rlease', z) = X
<1>1. clean[z]
  BY StaysUnclean
<1>2. Owned(L, next_id[z], RingOf(z), BackOf(z), pending[z], X, A, U, mem)
  BY <1>1 DEF LeasesInv
<1>3. /\ L \subseteq Ids /\ next_id[z] \in Ids /\ starts \in Nat
      /\ U \subseteq A /\ A \subseteq Mems /\ DOMAIN live = Sessions /\ DOMAIN next_id = Sessions
      /\ RingOf(z) \in Seq(Ids) /\ BackOf(z) \subseteq Ids /\ DOMAIN pending = Sessions
      /\ DOMAIN clean = Sessions /\ DOMAIN mem = Mems
  BY DEF TypeInv, WriterOK, TableOK, StateOK, MemsOK, UnsentOf, MemsOf, RingOf, BackOf
<1>4. ASSUME SameWriter, SameTable, SameRender PROVE Kept
  <2> HIDE DEF L, X, A, U
  <2>1. Owned(L, next_id[z], RingOf(z), BackOf(z), pending[z], X, A, U, mem')
    BY <1>2, <1>3, <1>4, OwnedForget
  <2> QED
    BY <2>1, <1>4 DEF L
<1>5. UNCHANGED trackVars => SameTable
  BY DEF trackVars
<1>6. UNCHANGED <<writerVars, starts>> => SameWriter
  BY DEF writerVars, RingOf, BackOf
<1>7. ASSUME \/ UNCHANGED renderVars
             \/ r \notin {"fast", "push"} /\ r' \notin {"fast", "push"}
             \/ r = "fast" /\ r' = "push" /\ UNCHANGED <<rs, rlease>>
      PROVE  SameRender
  BY <1>7 DEF renderVars, Published
<1>8. CASE RenderMark
  <2>1. /\ r = "mark" /\ UNCHANGED <<writerVars, mem, rs, starts>> /\ rs \in Sessions
        /\ buf.mem \in A \/ rs # z
        /\ buf.mem \notin sent /\ SameWriter
    BY <1>6, <1>8, BufferFields
       DEF RenderMark, TypeInv, RenderOK, MemsOK, NoBuffer, BufferInv, MemsOf, stateVars
  <2>2. CASE r' = "copy"
    <3>1. SameTable /\ SameRender
      BY <2>1, <2>2, <1>5, <1>7, <1>8 DEF RenderMark, trackVars
    <3> QED
      BY <3>1, <2>1, <1>4
  <2>3. CASE r' # "copy"
    <3>1. /\ r' = "fast" /\ rs' = rs /\ mem' = mem
          /\ rlease' = pending[rs][mem[buf.mem].ptr]
          /\ pending' = [pending EXCEPT ![rs] = Without(pending[rs], mem[buf.mem].ptr)]
          /\ sent' = sent \cup {buf.mem}
      BY <2>1, <2>3, <1>8 DEF RenderMark, Unmark
    <3>2. CASE rs # z
      <4>1. buf.mem \notin A
        BY <3>2, <1>8 DEF RenderMark, MemsOf, TypeInv, RenderOK
      <4>2. SameTable
        BY <3>1, <3>2, <4>1, <1>3 DEF UnsentOf, MemsOf
      <4>3. SameRender
        BY <3>1, <3>2, <2>1 DEF Published
      <4> QED
        BY <4>2, <4>3, <2>1, <1>4
    <3>3. CASE rs = z
      <4>1. buf.mem \in U
        BY <3>3, <2>1 DEF UnsentOf
      <4>2. X = {}
        BY <2>1 DEF Published
      <4>3. Owned(L, next_id[z], RingOf(z), BackOf(z), Without(pending[z], mem[buf.mem].ptr),
                  {mem[buf.mem].id}, A, U \ {buf.mem}, mem)
        <5> HIDE DEF L, A, U, X
        <5> QED
          BY <4>1, <4>2, <1>2, <1>3, OwnedMark
      <4>4. rlease' = mem[buf.mem].id
        <5> HIDE DEF U
        <5> QED
          BY <3>1, <3>3, <4>1, <1>2 DEF Owned
      <4>5. /\ Published(r', rs', rlease', z) = {mem[buf.mem].id}
            /\ MemsOf(mem', z) = A /\ UnsentOf(mem', sent', z) = U \ {buf.mem}
            /\ pending'[z] = Without(pending[z], mem[buf.mem].ptr)
        BY <3>1, <3>3, <4>4, <1>3 DEF Published, UnsentOf
      <4> QED
        BY <4>3, <4>5, <3>1, <2>1
    <3> QED
      BY <3>2, <3>3
  <2> QED
    BY <2>2, <2>3
<1>9. CASE RenderGrant
  <2>1. /\ r = "alloc" /\ r' = "push" /\ rs' = rs /\ rlease' = next_id[rs] /\ SameTable
        /\ UNCHANGED starts
    BY <1>5, <1>9 DEF RenderGrant, stateVars
  <2>2. PICK p \in Ptrs : Grant(rs, p)
    BY <1>9 DEF RenderGrant
  <2>3. CASE rs # z
    <3>1. SameWriter /\ SameRender
      BY <2>1, <2>2, <2>3, <1>3 DEF Grant, Published, RingOf, BackOf
    <3> QED
      BY <3>1, <2>1, <1>4
  <2>4. CASE rs = z
    <3>1. /\ DOMAIN live'[z] = L \cup {next_id[z]} /\ next_id'[z] = next_id[z] + 1
          /\ RingOf(z)' = RingOf(z) /\ BackOf(z)' = BackOf(z)
      BY <2>1, <2>2, <2>4, <1>3 DEF Grant, With, RingOf, BackOf
    <3>2. X = {} /\ Published(r', rs', rlease', z) = {next_id[z]}
      BY <2>1, <2>4 DEF Published
    <3>3. Owned(L \cup {next_id[z]}, next_id[z] + 1, RingOf(z), BackOf(z), pending[z],
                {next_id[z]}, A, U, mem)
      <4> HIDE DEF L, A, U, X
      <4> QED
        BY <3>2, <1>2, <1>3, OwnedGrantRender
    <3> HIDE DEF L, A, U, X
    <3>4. Owned(L \cup {next_id[z]}, next_id[z] + 1, RingOf(z), BackOf(z), pending[z],
                {next_id[z]}, A, U, mem')
      BY <3>3, <1>3, <2>1, OwnedForget
    <3> QED
      BY <3>1, <3>2, <3>4, <2>1
  <2> QED
    BY <2>3, <2>4
<1>10. ASSUME NEW t \in Sessions, NEW large \in BOOLEAN, DropOldest(t, large),
              SameTable, SameRender, UNCHANGED starts
       PROVE  Kept
  <2>1. CASE z # t \/ z # starts
    <3>1. z = t => t # starts /\ Head(ring) \notin L
      BY <2>1, <1>10 DEF DropOldest
    <3>2. z # t => z # starts \/ t = starts
      BY <1>10 DEF DropOldest
    <3>3. DOMAIN live'[z] = L
      BY <3>1, <1>3, <1>10 DEF DropOldest, Without
    <3>4. z # starts
      BY <2>1, <3>2
    <3>5. SameWriter
      BY <3>3, <3>4, <1>10 DEF DropOldest, RingOf, BackOf
    <3> QED
      BY <3>5, <1>4, <1>10
  <2>2. CASE z = t /\ z = starts
    <3>1. /\ DOMAIN live'[z] = L \ {Head(RingOf(z))} /\ next_id'[z] = next_id[z]
          /\ RingOf(z)' = Tail(RingOf(z)) /\ BackOf(z)' = BackOf(z) /\ RingOf(z) # <<>>
      BY <2>2, <1>3, <1>10 DEF DropOldest, Without, RingOf, BackOf
    <3> HIDE DEF L, A, U, X
    <3>2. Owned(L \ {Head(RingOf(z))}, next_id[z], Tail(RingOf(z)), BackOf(z), pending[z], X, A, U,
                mem)
      BY <3>1, <1>2, <1>3, OwnedTail
    <3>3. Owned(L \ {Head(RingOf(z))}, next_id[z], Tail(RingOf(z)), BackOf(z), pending[z], X, A, U,
                mem')
      BY <3>2, <1>3, <1>10, OwnedForget
    <3> QED
      BY <3>1, <3>3, <1>10
  <2> QED
    BY <2>1, <2>2
<1>11. ASSUME NEW t \in Sessions, NEW large \in BOOLEAN, ResetArena(t, large),
              SameTable, SameRender, UNCHANGED starts
       PROVE  Kept
  <2>1. t # z /\ (z = starts => back = {}) /\ back' = {} /\ UNCHANGED ring
    BY <1>11 DEF ResetArena
  <2>2. live'[z] = live[z] /\ next_id'[z] = next_id[z]
    BY <2>1, <1>3, <1>11 DEF ResetArena
  <2>3. SameWriter
    BY <2>1, <2>2, <1>11 DEF RingOf, BackOf
  <2> QED
    BY <2>3, <1>4, <1>11
<1>12. CASE RenderDrop \/ RenderReset
  <2>1. rs \in Sessions /\ (buf.kind = "large") \in BOOLEAN
    BY <1>12 DEF TypeInv, RenderOK, RenderDrop, RenderReset
  <2>2. SameTable /\ SameRender /\ UNCHANGED starts
    BY <1>5, <1>7, <1>12 DEF RenderDrop, RenderReset, stateVars
  <2> QED
    BY <2>1, <2>2, <1>10, <1>11, <1>12 DEF RenderDrop, RenderReset
<1>13. CASE UpDropOldest \/ UpReset \/ UpExhausted
  <2>1. nego \in Sessions /\ big \in BOOLEAN
    BY <1>13 DEF TypeInv, MemsOK, UpDropOldest, UpReset, UpExhausted
  <2>2. SameTable /\ SameRender /\ UNCHANGED starts
    BY <1>5, <1>7, <1>13 DEF UpDropOldest, UpReset, UpExhausted, stateVars
  <2>3. DropOldest(nego, big) \/ ResetArena(nego, FALSE) \/ ResetArena(nego, TRUE)
    BY <1>13 DEF UpDropOldest, UpReset, UpExhausted
  <2> QED
    BY <2>1, <2>2, <2>3, <1>10, <1>11
<1>14. CASE RenderPush
  <2>1. /\ r = "push" /\ r' = "idle" /\ rs \in Sessions /\ rlease \in Ids /\ SameTable
        /\ UNCHANGED <<live, next_id, back, starts>> /\ rs = starts
        /\ ring' = Append(ring, rlease)
    BY <1>5, <1>14 DEF RenderPush, TypeInv, RenderOK, SessionOK, Ids, stateVars
  <2>2. CASE rs # z
    <3>1. SameWriter /\ SameRender
      BY <2>1, <2>2, <1>3 DEF Published, RingOf, BackOf
    <3> QED
      BY <3>1, <2>1, <1>4
  <2>3. CASE rs = z
    <3>1. /\ RingOf(z)' = Append(RingOf(z), rlease) /\ BackOf(z)' = BackOf(z) /\ X = {rlease}
          /\ Published(r', rs', rlease', z) = {}
      BY <2>1, <2>3, <1>3 DEF Published, RingOf, BackOf
    <3> HIDE DEF A, U, X
    <3>2. Owned(L, next_id[z], Append(RingOf(z), rlease), BackOf(z), pending[z], {}, A, U, mem)
      <4> HIDE DEF L
      <4> QED
        BY <3>1, <2>1, <1>2, <1>3, OwnedPush
    <3>3. Owned(L, next_id[z], Append(RingOf(z), rlease), BackOf(z), pending[z], {}, A, U, mem')
      <4> HIDE DEF L
      <4> QED
        BY <3>2, <2>1, <1>3, OwnedForget
    <3> QED
      BY <3>1, <3>3, <2>1
  <2> QED
    BY <2>2, <2>3
<1>15. CASE UpGrant
  <2>1. /\ SameRender /\ nego \in Sessions /\ um \in Mems /\ mem[um] = None /\ sent' = sent
        /\ um \notin sent /\ um \notin A /\ UNCHANGED starts
    BY <1>7, <1>15 DEF UpGrant, TypeInv, MemsOK, MemsOf, stateVars
  <2>2. PICK p \in Ptrs :
          /\ Grant(nego, p)
          /\ pending' = [pending EXCEPT ![nego] = With(@, p, next_id[nego])]
          /\ mem' = [mem EXCEPT ![um] = [s |-> nego, ptr |-> p, id |-> next_id[nego]]]
    BY <1>15 DEF UpGrant
  <2>3. [s |-> nego, ptr |-> p, id |-> next_id[nego]] # None
    BY <2>1 DEF Leased, TypeInv, WriterOK
  <2>4. \A m \in Mems \ {um} : mem'[m] = mem[m]
    BY <2>2, <1>3
  <2>5. mem'[um] # None /\ mem'[um].s = nego /\ mem'[um].ptr = p /\ mem'[um].id = next_id[nego]
    BY <2>1, <2>2, <2>3, <1>3
  <2>6. \A m \in A : mem'[m] = mem[m]
    BY <2>1, <2>4, <1>3
  <2>7. CASE nego # z
    <3>1. MemsOf(mem', z) = A
      BY <2>1, <2>4, <2>5, <2>7 DEF MemsOf
    <3>2. UnsentOf(mem', sent', z) = U
      BY <3>1, <2>1 DEF UnsentOf
    <3>3. SameTable
      BY <3>1, <3>2, <2>2, <2>6, <2>7, <1>3
    <3>4. SameWriter
      BY <2>1, <2>2, <2>7, <1>3 DEF Grant, RingOf, BackOf
    <3> QED
      BY <3>3, <3>4, <2>1, <1>4
  <2>8. CASE nego = z
    <3>1. MemsOf(mem', z) = A \cup {um}
      BY <2>1, <2>4, <2>5, <2>8 DEF MemsOf
    <3>2. UnsentOf(mem', sent', z) = U \cup {um}
      BY <3>1, <2>1 DEF UnsentOf
    <3>3. /\ DOMAIN live'[z] = L \cup {next_id[z]} /\ next_id'[z] = next_id[z] + 1
          /\ RingOf(z)' = RingOf(z) /\ BackOf(z)' = BackOf(z)
          /\ pending'[z] = With(pending[z], p, next_id[z])
      <4>1. DOMAIN With(live[z], next_id[z], p) = L \cup {next_id[z]}
        BY DEF With
      <4> QED
        BY <4>1, <2>1, <2>2, <2>8, <1>3 DEF Grant, RingOf, BackOf
    <3>4. \A m \in A : mem[m].ptr # p
      <4>1. ~InUse(z, p)
        BY <2>2, <2>8, <1>3 DEF Grant
      <4> QED
        BY <4>1 DEF InUse, MemsOf
    <3>5. mem'[um].ptr = p /\ mem'[um].id = next_id[z]
      BY <2>5, <2>8
    <3> HIDE DEF L, A, U, X
    <3>6. Owned(L \cup {next_id[z]}, next_id'[z], RingOf(z), BackOf(z),
                With(pending[z], p, next_id[z]), X, A \cup {um}, U \cup {um}, mem')
      <4> DEFINE n == next_id[z]
                 n1 == next_id'[z]
                 q == RingOf(z)
                 b == BackOf(z)
                 P == pending[z]
                 M == mem
                 N == mem'
      <4>1. n \in Ids /\ L \subseteq Ids /\ um \notin A /\ U \subseteq A
        BY <2>1, <1>2, <1>3, <2>8
      <4>2. \A k \in A : N[k] = M[k] /\ M[k].ptr # p
        BY <3>4, <2>1, <2>6
      <4>3. Owned(L, n, q, b, P, X, A, U, M)
        BY <1>2, <1>3
      <4>4. n1 = n + 1 /\ N[um].ptr = p /\ N[um].id = n
        BY <3>3, <3>5
      <4> HIDE DEF n, n1, q, b, P, M, N
      <4>5. Owned(L \cup {n}, n1, q, b, With(P, p, n), X, A \cup {um}, U \cup {um}, N)
        BY <4>1, <4>2, <4>3, <4>4, OwnedGrantMemory
      <4> QED
        BY <4>5 DEF n, n1, q, b, P, M, N
    <3> QED
      BY <3>1, <3>2, <3>3, <3>6, <2>1
  <2> QED
    BY <2>7, <2>8
<1>16. CASE UpDropNothing \/ UpRelease
  <2>1. /\ SameRender /\ um \in Mems /\ mem[um] \in Leased /\ mem' = [mem EXCEPT ![um] = None]
        /\ sent' = sent \ {um} /\ UNCHANGED starts
    BY <1>7, <1>16 DEF UpDropNothing, UpRelease, TypeInv, MemsOK, stateVars
  <2>2. mem[um].s \in Sessions
    BY <2>1 DEF Leased
  <2>3. mem'[um] = None /\ \A m \in Mems \ {um} : mem'[m] = mem[m]
    BY <2>1, <1>3
  <2>4. MemsOf(mem', z) = A \ {um}
    BY <2>3 DEF MemsOf
  <2>5. UnsentOf(mem', sent', z) = U \ {um}
    BY <2>4, <2>1 DEF UnsentOf
  <2>6. \A m \in A \ {um} : mem'[m] = mem[m]
    BY <2>3, <1>3
  <2>7. CASE mem[um].s # z
    <3>1. um \notin A /\ um \notin U
      BY <2>7 DEF UnsentOf, MemsOf
    <3>2. SameTable
      <4>1. pending'[z] = pending[z]
        BY <2>2, <2>7, <1>3, <1>16 DEF UpDropNothing, UpRelease
      <4> QED
        BY <4>1, <3>1, <2>4, <2>5, <2>6
    <3>3. SameWriter
      BY <2>1, <2>2, <2>7, <1>3, <1>16
         DEF UpDropNothing, UpRelease, FreeLease, writerVars, RingOf, BackOf
    <3> QED
      BY <3>2, <3>3, <2>1, <1>4
  <2>8. CASE mem[um].s = z
    <3>1. um \in A
      BY <2>1, <2>8 DEF MemsOf
    <3>2. um \in U <=> mem[um].ptr \in DOMAIN pending[z]
      <4>1. um \in U => mem[um].ptr \in DOMAIN pending[z]
        <5> HIDE DEF U
        <5> QED
          BY <1>2 DEF Owned
      <4>2. ASSUME mem[um].ptr \in DOMAIN pending[z] PROVE um \in U
        <5> HIDE DEF U, A
        <5>1. PICK m \in U : mem[m].ptr = mem[um].ptr
          BY <4>2, <1>2 DEF Owned
        <5>2. m = um
          BY <5>1, <3>1, <1>2, <1>3 DEF Owned
        <5> QED
          BY <5>1, <5>2
      <4> QED
        BY <4>1, <4>2
    <3>3. CASE UpDropNothing
      <4>1. um \notin U /\ SameWriter /\ pending' = pending
        BY <3>2, <3>3, <2>1, <2>8, <1>6 DEF UpDropNothing
      <4>2. U \ {um} = U /\ U \subseteq A \ {um}
        BY <4>1, <1>3
      <4> HIDE DEF L, A, U, X
      <4>3. Owned(L, next_id[z], RingOf(z), BackOf(z), pending[z], X, A \ {um}, U, mem')
        BY <4>2, <2>6, <1>2, <1>3, OwnedForget
      <4> QED
        BY <4>1, <4>2, <4>3, <2>1, <2>4, <2>5 DEF L
    <3>4. CASE UpRelease
      <4>1. /\ live' = [live EXCEPT ![z] = Without(@, pending[z][mem[um].ptr])]
            /\ pending' = [pending EXCEPT ![z] = Without(@, mem[um].ptr)]
            /\ UNCHANGED next_id /\ RingOf(z)' = RingOf(z) /\ BackOf(z)' = BackOf(z)
        BY <3>4, <2>1, <2>8 DEF UpRelease, FreeLease, RingOf, BackOf
      <4>2. um \in U
        BY <3>2, <3>4, <2>8 DEF TypeInv, TableOK, UpRelease
      <4>3. pending[z][mem[um].ptr] = mem[um].id
        <5> HIDE DEF U
        <5> QED
          BY <4>2, <1>2 DEF Owned
      <4>4. /\ DOMAIN live'[z] = L \ {mem[um].id}
            /\ pending'[z] = Without(pending[z], mem[um].ptr)
        BY <4>1, <4>3, <1>3 DEF Without
      <4> HIDE DEF L, A, U, X
      <4>5. Owned(L \ {mem[um].id}, next_id[z], RingOf(z), BackOf(z),
                  Without(pending[z], mem[um].ptr), X, A \ {um}, U \ {um}, mem')
        BY <4>2, <2>6, <1>2, <1>3, OwnedRelease
      <4> QED
        BY <4>1, <4>4, <4>5, <2>1, <2>4, <2>5
    <3> QED
      BY <3>3, <3>4, <1>16
  <2> QED
    BY <2>7, <2>8
<1>17. ASSUME NEW t \in Sessions, GcDrain(t) PROVE Kept
  <2>1. SameTable /\ SameRender /\ UNCHANGED <<starts, ring, next_id>> /\ back' = {}
    BY <1>5, <1>7, <1>17 DEF GcDrain
  <2>2. t = starts
    BY <1>17 DEF GcDrain, SessionOK
  <2>3. CASE t # z
    <3>1. SameWriter
      BY <2>1, <2>2, <2>3, <1>3, <1>17 DEF GcDrain, RingOf, BackOf
    <3> QED
      BY <3>1, <2>1, <1>4
  <2>4. CASE t = z
    <3>1. /\ DOMAIN live'[z] = L \ BackOf(z) /\ BackOf(z)' = {}
          /\ RingOf(z)' = RingOf(z) /\ next_id'[z] = next_id[z]
      BY <2>1, <2>2, <2>4, <1>3, <1>17 DEF GcDrain, RingOf, BackOf
    <3> HIDE DEF L, A, U, X
    <3>2. Owned(L \ BackOf(z), next_id[z], RingOf(z), {}, pending[z], X, A, U, mem)
      BY <1>2, OwnedDrain
    <3>3. Owned(L \ BackOf(z), next_id[z], RingOf(z), {}, pending[z], X, A, U, mem')
      BY <3>2, <2>1, <1>3, OwnedForget
    <3> QED
      BY <3>1, <3>3, <2>1
  <2> QED
    BY <2>3, <2>4
<1>18. CASE Consume
  <2>1. /\ SameTable /\ SameRender /\ UNCHANGED <<starts, live, next_id>> /\ ring # <<>>
        /\ ring' = Tail(ring) /\ back' = back \cup {Head(ring)}
    BY <1>5, <1>7, <1>18 DEF Consume, stateVars
  <2>2. CASE z # starts
    <3>1. SameWriter
      BY <2>1, <2>2 DEF RingOf, BackOf
    <3> QED
      BY <3>1, <2>1, <1>4
  <2>3. CASE z = starts
    <3>1. /\ live'[z] = live[z] /\ BackOf(z)' = BackOf(z) \cup {Head(RingOf(z))}
          /\ RingOf(z)' = Tail(RingOf(z)) /\ next_id'[z] = next_id[z] /\ RingOf(z) # <<>>
      BY <2>1, <2>3 DEF RingOf, BackOf
    <3> HIDE DEF A, U, X
    <3>2. Owned(L, next_id[z], Tail(RingOf(z)), BackOf(z) \cup {Head(RingOf(z))}, pending[z],
                X, A, U, mem)
      <4> HIDE DEF L
      <4> QED
        BY <3>1, <1>2, <1>3, OwnedTail
    <3>3. Owned(L, next_id[z], Tail(RingOf(z)), BackOf(z) \cup {Head(RingOf(z))}, pending[z],
                X, A, U, mem')
      <4> HIDE DEF L
      <4> QED
        BY <3>2, <2>1, <1>3, OwnedForget
    <3> QED
      BY <3>1, <3>3, <2>1
  <2> QED
    BY <2>2, <2>3
<1>19. CASE Start
  <2>1. /\ SameTable /\ SameRender /\ UNCHANGED <<live, next_id>> /\ ring' = <<>> /\ back' = {}
        /\ starts' = starts + 1 /\ (z = starts => ring = <<>> /\ back = {})
    BY <1>5, <1>7, <1>19 DEF Start
  <2>2. SameWriter
    BY <2>1, <1>3 DEF RingOf, BackOf
  <2> QED
    BY <2>1, <2>2, <1>4
<1>20. CASE UNCHANGED <<writerVars, starts>> /\ UNCHANGED trackVars
            /\ \/ UNCHANGED renderVars
               \/ r \notin {"fast", "push"} /\ r' \notin {"fast", "push"}
               \/ r = "fast" /\ r' = "push" /\ UNCHANGED <<rs, rlease>>
  BY <1>4, <1>5, <1>6, <1>7, <1>20
<1> HIDE DEF SameWriter, SameTable, SameRender
<1>21. CASE \/ RenderLock \/ RenderFlushing \/ RenderFastWriter \/ RenderCopyWriter
           \/ RenderWake \/ \E b \in Buffers : RenderCall(b)
  BY <1>20, <1>21
     DEF RenderLock, RenderFlushing, RenderFastWriter, RenderCopyWriter, RenderWake, RenderCall,
         stateVars
<1>22. CASE \/ ProposeAllocation \/ UpWriter \/ UpDropTracker
           \/ \E m \in Mems : UpDrop(m) \/ \E large \in BOOLEAN : UpAlloc(m, large)
  BY <1>20, <1>22 DEF ProposeAllocation, UpWriter, UpDropTracker, UpAlloc, UpDrop, stateVars
<1>23. CASE \/ CallUnlock \/ Unlock \/ UnlockStop \/ FlushStop \/ Stop \/ StopJoined
           \/ \E s \in Sessions : GcCheck(s)
  BY <1>20, <1>23 DEF CallUnlock, Unlock, UnlockStop, FlushStop, Stop, StopJoined, GcCheck
<1> QED
  BY <1>8, <1>9, <1>12, <1>13, <1>14, <1>15, <1>16, <1>17, <1>18, <1>19, <1>21, <1>22, <1>23
     DEF SinkNext, RenderStep, UpStep

\* A memory render has marked is still the one it was: its lease is the one published.
LEMMA BufferStep == TypeInv /\ BufferInv /\ LeasesInv /\ SinkNext => BufferInv'
<1> SUFFICES ASSUME TypeInv, BufferInv, LeasesInv, SinkNext PROVE BufferInv'
  OBVIOUS
<1> USE Constants
<1>1. /\ buf.mem \in Mems \cup {None} /\ None \notin sent
      /\ buf.mem # None => mem'[buf.mem] = mem[buf.mem]
      /\ r \in {"fast", "push"} => rs \in Sessions /\ (clean'[rs] => clean[rs])
  BY BufferMemStays, StaysUnclean DEF TypeInv, MemsOK, RenderOK
<1>2. CASE sent' \subseteq sent /\ r' = r /\ UNCHANGED <<buf, rs, rlease>>
            /\ (buf.mem \in sent => buf.mem \in sent')
  BY <1>1, <1>2 DEF BufferInv
<1>3. CASE /\ r \in {"lock", "mark", "copy", "alloc", "sleep"}
           /\ r' \in {"lock", "mark", "copy", "alloc", "sleep", "push", "idle"}
           /\ r' # "idle" => buf' = buf
           /\ UNCHANGED sent
  BY <1>3 DEF BufferInv
<1>4. ASSUME NEW b \in Buffers, RenderCall(b) PROVE BufferInv'
  <2>1. r' = "lock" /\ buf' = b /\ UNCHANGED sent /\ (b.mem # None => b.mem \notin sent)
    BY <1>4, BufferFields DEF RenderCall, trackVars
  <2> QED
    BY <2>1, <1>1 DEF BufferInv
<1>5. CASE RenderMark
  <2>1. /\ r = "mark" /\ rs \in Sessions /\ UNCHANGED <<buf, rs, mem, clean>>
        /\ buf.mem \in Mems /\ mem[buf.mem] # None /\ mem[buf.mem].s = rs /\ buf.mem \notin sent
    BY <1>1, <1>5 DEF RenderMark, writerVars, TypeInv, RenderOK, MemsOK, BufferInv
  <2>2. CASE r' = "copy"
    <3>1. UNCHANGED sent
      BY <2>2, <1>5 DEF RenderMark
    <3> QED
      BY <3>1, <2>1, <2>2, <1>3
  <2>3. CASE r' # "copy"
    <3>1. r' = "fast" /\ rlease' = pending[rs][mem[buf.mem].ptr]
      BY <2>3, <1>5 DEF RenderMark
    <3>2. clean[rs] => pending[rs][mem[buf.mem].ptr] = mem[buf.mem].id
      <4>1. buf.mem \in UnsentOf(mem, sent, rs)
        BY <2>1 DEF UnsentOf, MemsOf
      <4>2. clean[rs] =>
              Owned(DOMAIN live[rs], next_id[rs], RingOf(rs), BackOf(rs), pending[rs],
                    Published(r, rs, rlease, rs), MemsOf(mem, rs),
                    UnsentOf(mem, sent, rs), mem)
        BY <2>1 DEF LeasesInv
      <4> QED
        BY <4>1, <4>2 DEF Owned
    <3> QED
      BY <3>1, <3>2, <2>1 DEF BufferInv
  <2> QED
    BY <2>2, <2>3
<1>6. CASE RenderFastWriter
  <2>1. r = "fast" /\ r' = "push" /\ UNCHANGED <<buf, rs, rlease, sent, mem, clean>>
    BY <1>6 DEF RenderFastWriter, writerVars, trackVars
  <2> QED
    BY <2>1 DEF BufferInv
<1>7. CASE RenderPush
  BY <1>7 DEF RenderPush, BufferInv
<1>8. CASE UpDropNothing \/ UpRelease
  <2>1. UNCHANGED renderVars /\ sent' = sent \ {um} /\ (buf.mem # None => um # buf.mem)
    BY <1>8 DEF UpDropNothing, UpRelease, TypeInv, MemsOK
  <2> QED
    BY <2>1, <1>1, <1>2 DEF renderVars
<1>9. CASE UNCHANGED renderVars /\ UNCHANGED sent
  BY <1>2, <1>9 DEF renderVars
<1>10. CASE RenderLock \/ RenderFlushing \/ RenderCopyWriter \/ RenderGrant \/ RenderReset
            \/ RenderWake
  BY <1>3, <1>10
     DEF RenderLock, RenderFlushing, RenderCopyWriter, RenderGrant, RenderReset, RenderWake,
         trackVars
<1>11. CASE \/ RenderDrop \/ ProposeAllocation \/ UpWriter \/ UpDropOldest \/ UpReset
            \/ UpExhausted \/ UpGrant \/ UpDropTracker
            \/ \E m \in Mems : UpDrop(m) \/ \E large \in BOOLEAN : UpAlloc(m, large)
  BY <1>9, <1>11
     DEF RenderDrop, ProposeAllocation, UpWriter, UpDropOldest, UpReset, UpExhausted, UpGrant,
         UpDropTracker, UpAlloc, UpDrop, trackVars
<1>12. CASE \/ Start \/ CallUnlock \/ Unlock \/ UnlockStop \/ FlushStop \/ Stop \/ StopJoined
            \/ Consume \/ \E t \in Sessions : GcCheck(t) \/ GcDrain(t)
  BY <1>9, <1>12
     DEF Start, CallUnlock, Unlock, UnlockStop, FlushStop, Stop, StopJoined, GcCheck, GcDrain,
         Consume, trackVars
<1> QED
  BY <1>4, <1>5, <1>6, <1>7, <1>8, <1>10, <1>11, <1>12 DEF SinkNext, RenderStep, UpStep

LEMMA StepInv ==
    TypeInv /\ SessionOK /\ BufferInv /\ LeasesInv /\ [SinkNext]_vars =>
        TypeInv' /\ BufferInv' /\ LeasesInv'
<1> SUFFICES ASSUME TypeInv, SessionOK, BufferInv, LeasesInv, [SinkNext]_vars
             PROVE  BufferInv' /\ LeasesInv'
  BY StepType
<1>1. CASE SinkNext
  BY <1>1, BufferStep, LeasesStep
<1>2. CASE UNCHANGED vars
  BY <1>2 DEF BufferInv, LeasesInv, vars, writerVars, trackVars, renderVars, stateVars, RingOf,
              BackOf
<1> QED
  BY <1>1, <1>2

\* Owners and OwnedId in the terms of Owned.
LEMMA OwnersAre ==
    ASSUME TypeInv, NEW s \in Sessions, NEW o \in Owners(s)
    PROVE  \/ \E i \in DOMAIN RingOf(s) : o = <<"ring", i>> /\ OwnedId(s, o) = RingOf(s)[i]
           \/ \E id \in BackOf(s) : o = <<"back", id>> /\ OwnedId(s, o) = id
           \/ \E m \in UnsentOf(mem, sent, s) : o = <<"mem", m>> /\ OwnedId(s, o) = mem[m].id
           \/ \E x \in Published(r, rs, rlease, s) :
                o = <<"render", x>> /\ OwnedId(s, o) = x
<1>1. CASE \E i \in DOMAIN RingOf(s) : o = <<"ring", i>>
  BY <1>1 DEF OwnedId
<1>2. CASE \E id \in BackOf(s) : o = <<"back", id>>
  BY <1>2 DEF OwnedId
<1>3. CASE \E m \in UnsentOf(mem, sent, s) : o = <<"mem", m>>
  BY <1>3 DEF OwnedId
<1>4. CASE \E x \in Published(r, rs, rlease, s) : o = <<"render", x>>
  BY <1>4 DEF OwnedId
<1> QED
  BY <1>1, <1>2, <1>3, <1>4 DEF Owners, UnsentOf, MemsOf, Published

\* Each owner's lease is live and its own.
LEMMA OwnersKeepLease ==
    ASSUME TypeInv, LeasesInv, NEW s \in Sessions, clean[s]
    PROVE  /\ \A o \in Owners(s) : OwnedId(s, o) \in DOMAIN live[s]
           /\ \A o, q \in Owners(s) : o # q => OwnedId(s, o) # OwnedId(s, q)
<1> DEFINE X == Published(r, rs, rlease, s)
           U == UnsentOf(mem, sent, s)
<1>1. Owned(DOMAIN live[s], next_id[s], RingOf(s), BackOf(s), pending[s], X, MemsOf(mem, s), U,
            mem)
  BY DEF LeasesInv
<1> HIDE DEF X, U
<1>2. /\ \A i \in DOMAIN RingOf(s) : RingOf(s)[i] \in Range(RingOf(s))
      /\ \A m \in U : mem[m].id \in {mem[k].id : k \in U}
  BY DEF Range
<1>3. ASSUME NEW o \in Owners(s) PROVE OwnedId(s, o) \in DOMAIN live[s]
  BY <1>1, <1>2, OwnersAre DEF Owned, X, U
<1>4. ASSUME NEW o \in Owners(s), NEW q \in Owners(s), OwnedId(s, o) = OwnedId(s, q)
      PROVE  o = q
  <2>1. /\ \/ \E i \in DOMAIN RingOf(s) : o = <<"ring", i>> /\ OwnedId(s, o) = RingOf(s)[i]
           \/ \E id \in BackOf(s) : o = <<"back", id>> /\ OwnedId(s, o) = id
           \/ \E m \in U : o = <<"mem", m>> /\ OwnedId(s, o) = mem[m].id
           \/ \E x \in X : o = <<"render", x>> /\ OwnedId(s, o) = x
        /\ \/ \E i \in DOMAIN RingOf(s) : q = <<"ring", i>> /\ OwnedId(s, q) = RingOf(s)[i]
           \/ \E id \in BackOf(s) : q = <<"back", id>> /\ OwnedId(s, q) = id
           \/ \E m \in U : q = <<"mem", m>> /\ OwnedId(s, q) = mem[m].id
           \/ \E x \in X : q = <<"render", x>> /\ OwnedId(s, q) = x
    BY OwnersAre DEF X, U
  <2> QED
    BY <2>1, <1>1, <1>2, <1>4 DEF Owned
<1> QED
  BY <1>3, <1>4

\* Each live lease has an owner that will return it.
LEMMA LeasesHaveOwner ==
    ASSUME TypeInv, LeasesInv, NEW s \in Sessions, clean[s], NEW id \in DOMAIN live[s]
    PROVE  \E o \in Owners(s) : OwnedId(s, o) = id
<1> DEFINE X == Published(r, rs, rlease, s)
           U == UnsentOf(mem, sent, s)
<1>1. id \in Range(RingOf(s)) \cup BackOf(s) \cup X \cup {mem[m].id : m \in U}
  BY DEF LeasesInv, Owned
<1>2. CASE id \in Range(RingOf(s))
  <2>1. PICK i \in DOMAIN RingOf(s) : RingOf(s)[i] = id
    BY <1>2 DEF Range
  <2>2. <<"ring", i>> \in Owners(s) /\ OwnedId(s, <<"ring", i>>) = id
    BY <2>1 DEF Owners, OwnedId
  <2> QED
    BY <2>2
<1>3. CASE id \in BackOf(s)
  <2>1. <<"back", id>> \in Owners(s) /\ OwnedId(s, <<"back", id>>) = id
    BY <1>3 DEF Owners, OwnedId
  <2> QED
    BY <2>1
<1>4. CASE id \in X
  <2>1. <<"render", id>> \in Owners(s) /\ OwnedId(s, <<"render", id>>) = id
    BY <1>4 DEF Owners, OwnedId, Published
  <2> QED
    BY <2>1
<1>5. CASE id \in {mem[m].id : m \in U}
  <2>1. PICK m \in U : mem[m].id = id
    BY <1>5
  <2>2. <<"mem", m>> \in Owners(s) /\ OwnedId(s, <<"mem", m>>) = id
    BY <2>1 DEF Owners, OwnedId, UnsentOf, MemsOf
  <2> QED
    BY <2>2
<1> QED
  BY <1>1, <1>2, <1>3, <1>4, <1>5

\* Live leases and owners of a session correspond one to one, though every session's Writer
\* works on the same region: none is lost and a drop frees nobody else's block, until the
\* session is reset, leases a block under a live memory of its address, or another session's
\* Writer has dropped, erased or taken an entry of a ring that is its own.
THEOREM OneOwnerPerLeaseCorrect == SinkSpec => []OneOwnerPerLease
<1>1. ASSUME TypeInv, LeasesInv PROVE OneOwnerPerLease
  <2> SUFFICES ASSUME NEW s \in Sessions, clean[s]
               PROVE  /\ DOMAIN live[s] = {OwnedId(s, o) : o \in Owners(s)}
                      /\ \A o, q \in Owners(s) : o # q => OwnedId(s, o) # OwnedId(s, q)
    BY DEF OneOwnerPerLease
  <2>1. \A o \in Owners(s) : OwnedId(s, o) \in DOMAIN live[s]
    BY <1>1, OwnersKeepLease
  <2>2. \A id \in DOMAIN live[s] : \E o \in Owners(s) : OwnedId(s, o) = id
    BY <1>1, LeasesHaveOwner
  <2>3. \A o, q \in Owners(s) : o # q => OwnedId(s, o) # OwnedId(s, q)
    BY <1>1, OwnersKeepLease
  <2> QED
    BY <2>1, <2>2, <2>3
<1> QED
  BY <1>1, InitInv, InitSession, StepInv, SessionStep, PTL DEF SinkSpec

\* And the fast path publishes the lease its buffer's memory was made from, though it
\* looks it up by address in the table of the session that runs.
THEOREM PublishesOwnLeaseCorrect == SinkSpec => []PublishesOwnLease
<1>1. BufferInv => PublishesOwnLease
  BY DEF BufferInv, PublishesOwnLease
<1> QED
  BY <1>1, InitInv, InitSession, StepInv, SessionStep, PTL DEF SinkSpec
================================================================================
