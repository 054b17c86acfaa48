------------------------------ MODULE TimelineProofs -----------------------------
(***************************************************************************)
(* For every capacity and any number of frames, resets and attaches: what  *)
(* unguarded loads and stores of the timeline words leave right.           *)
(*                                                                         *)
(* Numbers and generations only grow, and each side stores and loads them  *)
(* in a fixed order; the invariants say, place by place, how far a word,   *)
(* or a field loaded earlier, may lag behind.                              *)
(***************************************************************************)
EXTENDS Timeline, SequenceTheorems, TLAPS

Writing == {"mono", "pts", "sgen", "seq", "valid"}

Snapshots == [valid : BOOLEAN, gen : Nat, sgen : Nat, seq : Nat, mono : Nat, pts : Nat]
Timelines == [gen : Nat, valid : BOOLEAN, seq : Nat, mono : Nat, pts : Nat, sgen : Nat,
              need_discont : BOOLEAN]

\* TimelineTypeOK by owner of the state, with the types of the counts.
HeaderOK ==
    /\ timeline_gen \in Nat /\ timeline_seq \in Nat /\ sink_mono \in Nat
    /\ producer_pts \in Nat /\ snapshot_gen \in Nat
    /\ timeline_valid \in BOOLEAN

ReadyOK == ready \in Seq(0 .. timeline_gen) /\ Len(ready) <= ReadyCap

WriterOK ==
    /\ w \in {"idle", "maybe", "gen", "mono", "pts", "sgen", "seq", "valid", "reset"}
    /\ wgen \in Nat /\ last_gen \in Nat /\ newest \in Nat
    /\ overlap \in {"none", "written", "wiped"}

SourceOK ==
    /\ r \in {"off", "attach_gen", "attach_valid", "attach_snap", "run", "valid", "gen",
              "sgen", "seq", "mono", "pts", "stamp"}
    /\ frame \in Nat /\ flagged \in Nat /\ delivered \in Nat
    /\ dropped \in BOOLEAN /\ skipped \in BOOLEAN /\ stale \in BOOLEAN
    /\ excused \in BOOLEAN
    /\ snap \in Snapshots /\ ts \in Timelines

TypeInv == HeaderOK /\ ReadyOK /\ WriterOK /\ SourceOK

\* The generations a snapshot passes through are loaded in order: last_gen, snapshot_gen,
\* wgen and timeline_gen are ever newer ones.
Generations ==
    /\ last_gen <= snapshot_gen /\ snapshot_gen <= wgen /\ wgen <= timeline_gen
    /\ newest <= timeline_gen
    /\ w \in {"seq", "valid"} => snapshot_gen = wgen

\* Time and pts are one ahead of the sequence number from their own store to its.
Numbers ==
    /\ sink_mono = IF w \in {"pts", "sgen", "seq"} THEN timeline_seq + 1 ELSE timeline_seq
    /\ producer_pts = IF w \in {"sgen", "seq"} THEN timeline_seq + 1 ELSE timeline_seq

\* A time (or pts) t, loaded after the number n, is not older, and it is n's own once
\* that number is the header's and nothing is being written.
InStep(n, t, seq, place) ==
    t >= n /\ (n = seq /\ place \notin {"pts", "sgen", "seq"} => t = n)

Loaded ==
    /\ r \in {"mono", "pts", "stamp"} => snap.seq <= timeline_seq
    /\ r \in {"pts", "stamp"} => InStep(snap.seq, snap.mono, timeline_seq, w)
    /\ r = "stamp" => InStep(snap.seq, snap.pts, timeline_seq, w)
    /\ ts.seq <= timeline_seq
    /\ ts.valid => /\ InStep(ts.seq, ts.mono, timeline_seq, w)
                   /\ InStep(ts.seq, ts.pts, timeline_seq, w)

MixedInv == Numbers /\ Loaded

\* The frame create is stamping is of the generation it loads next, or an earlier one;
\* and without a pending DISCONT one was set in the generation expected.
DiscontInv ==
    /\ frame <= timeline_gen
    /\ r \in {"sgen", "seq", "mono", "pts", "stamp"} =>
         frame <= snap.gen /\ snap.gen <= timeline_gen
    /\ ~ts.need_discont => ts.gen <= flagged
    /\ delivered <= flagged

\* A snapshot written for a frame of the present generation is of that generation, and
\* with last_gen the present one a valid snapshot of it is there, unless wiped.
FollowsInv ==
    /\ w \in Writing /\ newest = timeline_gen => wgen = timeline_gen
    /\ w = "idle" /\ newest = timeline_gen => last_gen = timeline_gen
    /\ w = "reset" => last_gen < timeline_gen /\ newest < timeline_gen
    /\ last_gen = timeline_gen /\ timeline_gen > 0 /\ overlap # "wiped"
         /\ r # "attach_valid" => timeline_valid

\* A valid snapshot is of the present generation, unless an attach overlapped its writing
\* or the generation is just ending; and what create has loaded of it, likewise.
SyncedInv ==
    /\ w \in Writing /\ wgen < timeline_gen => overlap = "written"
    /\ timeline_valid /\ overlap # "written" /\ w # "reset" /\ r # "attach_valid" =>
         snapshot_gen = timeline_gen
    /\ snap.valid /\ ~stale =>
         /\ r = "gen" => snapshot_gen = timeline_gen
         /\ r = "sgen" => snap.gen <= snapshot_gen
         /\ r \in {"seq", "mono", "pts", "stamp"} => snap.gen <= snap.sgen
    /\ ts.valid /\ ~excused => ts.gen <= ts.sgen

TimelineNext == WriterStep \/ SourceStep

LEMMA InitInv ==
    TimelineInit => TypeInv /\ Generations /\ MixedInv /\ DiscontInv /\ FollowsInv /\ SyncedInv
<1> SUFFICES ASSUME TimelineInit
             PROVE  TypeInv /\ Generations /\ MixedInv /\ DiscontInv /\ FollowsInv /\ SyncedInv
  OBVIOUS
<1> USE TimelineAssumption DEF TimelineInit
<1>1. snap \in Snapshots /\ ts \in Timelines
  BY DEF NoSnap, NoSync, Snapshots, Timelines
<1>2. TypeInv
  <2>1. timeline_valid \in BOOLEAN /\ dropped \in BOOLEAN /\ skipped \in BOOLEAN
        /\ stale \in BOOLEAN /\ excused \in BOOLEAN
    OBVIOUS
  <2> QED
    BY <1>1, <2>1 DEF TypeInv, HeaderOK, ReadyOK, WriterOK, SourceOK
<1>3. snap.valid = FALSE /\ ts.valid = FALSE /\ ts.need_discont = TRUE /\ ts.seq = 0
  BY DEF NoSnap, NoSync
<1>4. Generations /\ MixedInv
  BY <1>3 DEF Generations, MixedInv, Numbers, Loaded
<1>5. DiscontInv /\ FollowsInv /\ SyncedInv
  BY <1>3 DEF DiscontInv, FollowsInv, SyncedInv, Writing
<1> QED
  BY <1>2, <1>4, <1>5

\* The loads, one by one.
LEMMA LoadSteps ==
    ASSUME TypeInv, LoadField
    PROVE  /\ UNCHANGED <<header, ready, writer, frame, dropped, ts, attaches, newest, skipped,
                          flagged, delivered, overlap, excused>>
           /\ snap' \in Snapshots
           /\ \/ /\ r = "valid" /\ r' = "gen" /\ stale' = (overlap = "written" \/ w = "reset")
                 /\ snap'.valid = timeline_valid
              \/ /\ r = "gen" /\ r' = "sgen" /\ stale' = stale
                 /\ snap'.valid = snap.valid /\ snap'.gen = timeline_gen
              \/ /\ r = "sgen" /\ r' = "seq" /\ stale' = stale
                 /\ snap'.valid = snap.valid /\ snap'.gen = snap.gen
                 /\ snap'.sgen = snapshot_gen
              \/ /\ r = "seq" /\ r' = "mono" /\ stale' = stale
                 /\ snap'.valid = snap.valid /\ snap'.gen = snap.gen /\ snap'.sgen = snap.sgen
                 /\ snap'.seq = timeline_seq
              \/ /\ r = "mono" /\ r' = "pts" /\ stale' = stale
                 /\ snap'.valid = snap.valid /\ snap'.gen = snap.gen /\ snap'.sgen = snap.sgen
                 /\ snap'.seq = snap.seq /\ snap'.mono = sink_mono
              \/ /\ r = "pts" /\ r' = "stamp" /\ stale' = stale
                 /\ snap'.valid = snap.valid /\ snap'.gen = snap.gen /\ snap'.sgen = snap.sgen
                 /\ snap'.seq = snap.seq /\ snap'.mono = snap.mono /\ snap'.pts = producer_pts
BY DEF TypeInv, HeaderOK, SourceOK, Snapshots, LoadField, Load

\* What a stamp leaves of the timeline, in two steps: t after a change of generation, u
\* after the synchronisation.
Forgotten(t) ==
    \/ snap.gen = ts.gen /\ t = ts
    \/ t.gen = snap.gen /\ ~t.valid /\ t.seq = 0 /\ t.need_discont
Synced(t, u) ==
    \/ u = t
    \/ /\ snap.valid /\ snap.seq # t.seq
       /\ u.gen = t.gen /\ u.need_discont = t.need_discont
       /\ u.valid /\ u.seq = snap.seq /\ u.mono = snap.mono /\ u.pts = snap.pts
       /\ u.sgen = snap.sgen

LEMMA StampSteps ==
    ASSUME TypeInv, Stamp
    PROVE  /\ skipped' \in {FALSE, skipped}
           /\ \/ UNCHANGED <<ts, flagged, delivered, excused>>
              \/ \E t, u \in Timelines :
                   /\ Forgotten(t) /\ Synced(t, u)
                   /\ ts' = [u EXCEPT !.need_discont = FALSE]
                   /\ flagged' = IF u.need_discont \/ dropped THEN snap.gen ELSE flagged
                   /\ delivered' = frame
                   /\ excused' = IF u.seq # t.seq THEN stale ELSE (excused /\ u.valid)
<1>1. ts \in Timelines /\ snap \in Snapshots
  BY DEF TypeInv, SourceOK
<1>2. skipped' \in {FALSE, skipped}
  <2>1. skipped \in BOOLEAN
    BY DEF TypeInv, SourceOK
  <2>2. PICK b \in BOOLEAN : skipped' = (skipped /\ b) \/ skipped' = FALSE
    <3>1. \/ skipped' = FALSE
          \/ \E has_clock \in BOOLEAN :
               LET t == Expect(ts)
                   u == IF has_clock THEN update_clock_sync(t) ELSE t
                   discont == u.need_discont \/ dropped
               IN  skipped' = (skipped /\ ~discont)
      BY DEF Stamp
    <3> QED
      BY <3>1
  <2> QED
    BY <2>1, <2>2
<1>3. CASE UNCHANGED <<ts, flagged, delivered, excused>>
  BY <1>3, <1>2
<1>4. CASE \E has_clock \in BOOLEAN :
             LET t == Expect(ts)
                 u == IF has_clock THEN update_clock_sync(t) ELSE t
             IN  /\ ts' = [u EXCEPT !.need_discont = FALSE]
                 /\ flagged' = IF u.need_discont \/ dropped THEN snap.gen ELSE flagged
                 /\ delivered' = frame
                 /\ excused' = IF u.seq # t.seq THEN stale ELSE (excused /\ u.valid)
  <2>1. PICK has_clock \in BOOLEAN :
             LET t == Expect(ts)
                 u == IF has_clock THEN update_clock_sync(t) ELSE t
             IN  /\ ts' = [u EXCEPT !.need_discont = FALSE]
                 /\ flagged' = IF u.need_discont \/ dropped THEN snap.gen ELSE flagged
                 /\ delivered' = frame
                 /\ excused' = IF u.seq # t.seq THEN stale ELSE (excused /\ u.valid)
    BY <1>4
  <2> DEFINE t == Expect(ts)
             u == IF has_clock THEN update_clock_sync(t) ELSE t
  <2>2. t \in Timelines /\ Forgotten(t)
    BY <1>1 DEF Expect, Timelines, Snapshots, Forgotten
  <2> HIDE DEF t
  <2>3. u \in Timelines /\ Synced(t, u)
    BY <1>1, <2>2 DEF update_clock_sync, Timelines, Snapshots, Synced
  <2>4. /\ ts' = [u EXCEPT !.need_discont = FALSE]
        /\ flagged' = IF u.need_discont \/ dropped THEN snap.gen ELSE flagged
        /\ delivered' = frame
        /\ excused' = IF u.seq # t.seq THEN stale ELSE (excused /\ u.valid)
    BY <2>1 DEF t
  <2> HIDE DEF u
  <2> QED
    BY <2>2, <2>3, <2>4, <1>2
<1> QED
  BY <1>3, <1>4 DEF Stamp

\* A step keeps the types.
LEMMA HeaderStep == ASSUME TypeInv, TimelineNext PROVE HeaderOK'
<1> USE DEF TypeInv, HeaderOK
<1>1. CASE UNCHANGED header
  BY <1>1 DEF header
<1>2. CASE ForceMono \/ ForcePts \/ ForceSnapshotGen \/ ForceSeq \/ ResetGen \/ AttachGen
  <2>1. timeline_valid' = timeline_valid
    BY <1>2 DEF ForceMono, ForcePts, ForceSnapshotGen, ForceSeq, ResetGen, AttachGen
  <2>2. wgen \in Nat
    BY DEF WriterOK
  <2> QED
    BY <1>2, <2>1, <2>2 DEF ForceMono, ForcePts, ForceSnapshotGen, ForceSeq, ResetGen, AttachGen
<1>3. CASE ForceValid \/ ResetValid \/ AttachValid
  BY <1>3 DEF ForceValid, ResetValid, AttachValid
<1> QED
  BY <1>1, <1>2, <1>3, LoadSteps
     DEF TimelineNext, WriterStep, SourceStep, Publish, DropOldest, MaybePublish, ForceGen,
         AttachTail, AttachSnap, Receive, Stamp, Detach

LEMMA ReadyStep == ASSUME TypeInv, TimelineNext PROVE ReadyOK'
<1> USE TimelineAssumption DEF TypeInv, HeaderOK, ReadyOK
<1>1. CASE UNCHANGED <<ready, timeline_gen>>
  BY <1>1
<1>2. CASE Publish
  <2>1. ready' = Append(ready, timeline_gen) /\ timeline_gen' = timeline_gen
        /\ Len(ready) < ReadyCap
    BY <1>2 DEF Publish, header
  <2>2. timeline_gen \in 0 .. timeline_gen
    OBVIOUS
  <2> QED
    BY <2>1, <2>2, AppendProperties
<1>3. CASE DropOldest
  <2>1. ready' = Tail(ready) /\ ready # <<>> /\ timeline_gen' = timeline_gen
    BY <1>3 DEF DropOldest, header
  <2>2. Tail(ready) \in Seq(0 .. timeline_gen) /\ Len(Tail(ready)) <= ReadyCap
    BY <2>1
  <2> QED
    BY <2>1, <2>2
<1>4. CASE ResetGen \/ AttachGen
  <2>1. ready' = ready /\ timeline_gen' = timeline_gen + 1
    BY <1>4 DEF ResetGen, AttachGen
  <2> QED
    BY <2>1, SeqMonotonic
<1>5. CASE AttachTail
  BY <1>5 DEF AttachTail, header
<1>6. CASE Receive
  <2>1. PICK i \in 1 .. Len(ready) : ready' = SubSeq(ready, i + 1, Len(ready))
    <3>1. Len(ready) \in Nat /\ Len(ready) # 0
      BY <1>6, LenProperties, EmptySeq DEF Receive
    <3>2. PICK latest_only, room \in BOOLEAN :
            LET n == Len(ready)
                chosen == IF latest_only /\ n > 1 THEN n - 1 ELSE 1
            IN  ready' = SubSeq(ready, chosen + 1, n)
      BY <1>6 DEF Receive
    <3>3. (IF latest_only /\ Len(ready) > 1 THEN Len(ready) - 1 ELSE 1) \in 1 .. Len(ready)
      BY <3>1
    <3> QED
      BY <3>2, <3>3
  <2>2. timeline_gen' = timeline_gen
    BY <1>6 DEF Receive, header
  <2> QED
    BY <2>1, <2>2, LenProperties, SubSeqProperties
<1> QED
  BY <1>1, <1>2, <1>4, <1>5, <1>6, <1>3, LoadSteps
     DEF TimelineNext, WriterStep, SourceStep, MaybePublish, ForceGen, ForceMono, ForcePts,
         ForceSnapshotGen, ForceSeq, ForceValid, ResetValid, AttachValid, AttachSnap, Stamp,
         Detach, header

LEMMA WriterTypeStep == ASSUME TypeInv, TimelineNext PROVE WriterOK'
<1> USE DEF TypeInv, HeaderOK, WriterOK
<1>1. CASE UNCHANGED <<writer, newest, overlap>>
  BY <1>1 DEF writer
<1>2. CASE WriterStep
  BY <1>2 DEF WriterStep, Publish, DropOldest, MaybePublish, ForceGen, ForceMono, ForcePts,
              ForceSnapshotGen, ForceSeq, ForceValid, ResetGen, ResetValid, writer, history
<1>3. CASE AttachGen \/ AttachValid
  BY <1>3 DEF AttachGen, AttachValid, writer
<1> QED
  BY <1>1, <1>2, <1>3, LoadSteps
     DEF TimelineNext, SourceStep, AttachTail, AttachSnap, Receive, Stamp, Detach, history

LEMMA SourceTypeStep == ASSUME TypeInv, TimelineNext PROVE SourceOK'
<1> USE DEF TypeInv, HeaderOK, SourceOK
<1>1. CASE UNCHANGED <<source, skipped, flagged, delivered, stale, excused>>
  BY <1>1 DEF source
<1>2. CASE ResetGen
  <2>1. UNCHANGED <<source, skipped, flagged, delivered, excused>>
        /\ stale' = (stale \/ (r = "gen" /\ snap.valid))
    BY <1>2 DEF ResetGen
  <2>2. stale' \in BOOLEAN
    BY <2>1
  <2> QED
    BY <2>1, <2>2 DEF source
<1>3. CASE AttachTail \/ AttachGen \/ AttachValid
  BY <1>3 DEF AttachTail, AttachGen, AttachValid, history
<1>4. CASE AttachSnap \/ Detach
  <2>1. \A g \in Nat : NoSync(g) \in Timelines
    BY DEF NoSync, Timelines
  <2>2. PICK g \in Nat : ts' = NoSync(g)
    BY <1>4 DEF AttachSnap, Detach
  <2>3. /\ flagged' = 0 /\ delivered' = 0 /\ r' \in {"run", "off"}
        /\ UNCHANGED <<frame, dropped, snap, stale>>
    BY <1>4 DEF AttachSnap, Detach
  <2>4. excused' \in BOOLEAN /\ skipped' \in BOOLEAN
    BY <1>4 DEF AttachSnap, Detach
  <2> QED
    BY <2>1, <2>2, <2>3, <2>4
<1>5. CASE Receive
  <2>1. Len(ready) \in Nat /\ Len(ready) # 0
    BY <1>5, LenProperties, EmptySeq DEF Receive, ReadyOK
  <2>2. PICK latest_only, room \in BOOLEAN :
          LET n == Len(ready)
              chosen == IF latest_only /\ n > 1 THEN n - 1 ELSE 1
          IN  /\ frame' = ready[chosen] /\ dropped' = (chosen > 1 /\ room)
              /\ skipped' = (chosen > 1)
    BY <1>5 DEF Receive
  <2> DEFINE i == IF latest_only /\ Len(ready) > 1 THEN Len(ready) - 1 ELSE 1
  <2>3. i \in 1 .. Len(ready)
    BY <2>1
  <2>4. frame' = ready[i] /\ dropped' = (i > 1 /\ room) /\ skipped' = (i > 1)
    BY <2>2
  <2> HIDE DEF i
  <2>5. frame' \in Nat
    BY <2>3, <2>4, ElementOfSeq DEF ReadyOK
  <2>6. dropped' \in BOOLEAN /\ skipped' \in BOOLEAN
    BY <2>4
  <2>7. UNCHANGED <<snap, ts, flagged, delivered, stale, excused>> /\ r' = "valid"
    BY <1>5 DEF Receive
  <2> QED
    BY <2>5, <2>6, <2>7
<1>6. CASE LoadField
  <2>1. stale' \in BOOLEAN
    BY <1>6, LoadSteps
  <2>2. UNCHANGED <<frame, dropped, ts, skipped, flagged, delivered, excused>>
        /\ snap' \in Snapshots
        /\ r' \in {"gen", "sgen", "seq", "mono", "pts", "stamp"}
    BY <1>6, LoadSteps
  <2> QED
    BY <2>1, <2>2
<1>7. CASE Stamp
  <2>1. snap' = NoSnap /\ frame' = 0 /\ dropped' = FALSE /\ r' = "run" /\ stale' = stale
    BY <1>7 DEF Stamp
  <2>2. snap' \in Snapshots /\ skipped' \in BOOLEAN
    BY <1>7, <2>1, StampSteps DEF NoSnap, Snapshots
  <2>3. ts' \in Timelines /\ flagged' \in Nat /\ delivered' \in Nat /\ excused' \in BOOLEAN
    <3>1. CASE UNCHANGED <<ts, flagged, delivered, excused>>
      BY <3>1
    <3>2. ASSUME NEW t \in Timelines, NEW u \in Timelines,
                 /\ ts' = [u EXCEPT !.need_discont = FALSE]
                 /\ flagged' = IF u.need_discont \/ dropped THEN snap.gen ELSE flagged
                 /\ delivered' = frame
                 /\ excused' = IF u.seq # t.seq THEN stale ELSE (excused /\ u.valid)
          PROVE  ts' \in Timelines /\ flagged' \in Nat /\ delivered' \in Nat
                 /\ excused' \in BOOLEAN
      <4>1. ts' \in Timelines /\ delivered' \in Nat
        BY <3>2 DEF Timelines
      <4>2. flagged' \in Nat
        BY <3>2 DEF Snapshots
      <4>3. excused' \in BOOLEAN
        BY <3>2 DEF Timelines
      <4> QED
        BY <4>1, <4>2, <4>3
    <3> QED
      BY <1>7, <3>1, <3>2, StampSteps
  <2> QED
    BY <2>1, <2>2, <2>3
<1> QED
  BY <1>1, <1>2, <1>3, <1>4, <1>5, <1>6, <1>7
     DEF TimelineNext, WriterStep, SourceStep, Publish, DropOldest, MaybePublish, ForceGen,
         ForceMono, ForcePts, ForceSnapshotGen, ForceSeq, ForceValid, ResetValid, history

\* What a step of the writer leaves to the source, and the other way round.
LEMMA WriterFrame ==
    WriterStep => UNCHANGED <<source, skipped, flagged, delivered, excused>>
BY DEF WriterStep, Publish, DropOldest, MaybePublish, ForceGen, ForceMono, ForcePts,
       ForceSnapshotGen, ForceSeq, ForceValid, ResetGen, ResetValid, history

LEMMA SourceFrame ==
    ASSUME TypeInv, SourceStep
    PROVE  UNCHANGED <<timeline_seq, sink_mono, producer_pts, snapshot_gen, writer, newest>>
BY LoadSteps DEF SourceStep, AttachTail, AttachGen, AttachValid, AttachSnap, Receive, Stamp,
                 Detach, header, history

LEMMA GenerationsStep == ASSUME TypeInv, Generations, TimelineNext PROVE Generations'
<1> USE DEF TypeInv, HeaderOK, WriterOK, Generations
<1>1. CASE SourceStep
  <2>1. UNCHANGED <<snapshot_gen, writer, newest>>
    BY <1>1, SourceFrame
  <2>2. timeline_gen' = timeline_gen \/ timeline_gen' = timeline_gen + 1
    BY <1>1, LoadSteps
       DEF SourceStep, AttachTail, AttachGen, AttachValid, AttachSnap, Receive, Stamp,
           Detach, header
  <2> QED
    BY <2>1, <2>2 DEF writer
<1>2. CASE Publish \/ DropOldest \/ MaybePublish \/ ForceGen
  BY <1>2 DEF Publish, DropOldest, MaybePublish, ForceGen, header, writer, history
<1>3. CASE ForceMono \/ ForcePts \/ ForceSnapshotGen \/ ForceSeq
  BY <1>3 DEF ForceMono, ForcePts, ForceSnapshotGen, ForceSeq, history
<1>4. CASE ForceValid \/ ResetGen \/ ResetValid
  BY <1>4 DEF ForceValid, ResetGen, ResetValid, history
<1> QED
  BY <1>1, <1>2, <1>3, <1>4 DEF TimelineNext, WriterStep

LEMMA NumbersStep == ASSUME TypeInv, Numbers, TimelineNext PROVE Numbers'
<1> USE DEF TypeInv, HeaderOK, WriterOK, Numbers
<1>1. CASE SourceStep
  BY <1>1, SourceFrame DEF writer
<1>2. CASE Publish \/ DropOldest \/ MaybePublish \/ ForceGen \/ ForceValid \/ ResetGen \/ ResetValid
  BY <1>2 DEF Publish, DropOldest, MaybePublish, ForceGen, ForceValid, ResetGen, ResetValid,
              header, writer
<1>3. CASE ForceMono \/ ForcePts \/ ForceSnapshotGen \/ ForceSeq
  BY <1>3 DEF ForceMono, ForcePts, ForceSnapshotGen, ForceSeq
<1> QED
  BY <1>1, <1>2, <1>3 DEF TimelineNext, WriterStep

\* The writer makes no time or pts older than its number, and one newer only while it
\* writes or by a number of its own.
LEMMA InStepKept ==
    ASSUME TypeInv, Numbers, WriterStep,
           NEW n \in Nat, NEW t \in Nat, n <= timeline_seq, InStep(n, t, timeline_seq, w)
    PROVE  n <= timeline_seq' /\ InStep(n, t, timeline_seq', w')
<1> USE DEF TypeInv, HeaderOK, WriterOK, InStep
<1>1. CASE ForceSeq
  BY <1>1 DEF ForceSeq
<1>2. CASE ~ForceSeq
  <2>1. timeline_seq' = timeline_seq
        /\ (w \in {"pts", "sgen", "seq"} => w' \in {"pts", "sgen", "seq"})
    BY <1>2 DEF WriterStep, Publish, DropOldest, MaybePublish, ForceGen, ForceMono, ForcePts,
                ForceSnapshotGen, ForceValid, ResetGen, ResetValid, header
  <2> QED
    BY <2>1
<1> QED
  BY <1>1, <1>2

LEMMA SeqGrows ==
    ASSUME TypeInv, WriterStep PROVE timeline_seq' \in Nat /\ timeline_seq <= timeline_seq'
BY DEF TypeInv, HeaderOK, WriterStep, Publish, DropOldest, MaybePublish, ForceGen, ForceMono,
       ForcePts, ForceSnapshotGen, ForceSeq, ForceValid, ResetGen, ResetValid, header

LEMMA LoadedStep == ASSUME TypeInv, MixedInv, TimelineNext PROVE Loaded'
<1> USE DEF MixedInv
<1>1. /\ ts \in Timelines /\ snap \in Snapshots /\ timeline_seq \in Nat
      /\ sink_mono \in Nat /\ producer_pts \in Nat
  BY DEF TypeInv, SourceOK, HeaderOK
<1>2. /\ ts.seq \in Nat /\ ts.mono \in Nat /\ ts.pts \in Nat /\ ts.valid \in BOOLEAN
      /\ snap.seq \in Nat /\ snap.mono \in Nat /\ snap.pts \in Nat
  BY <1>1 DEF Timelines, Snapshots
<1>3. CASE WriterStep
  <2>1. UNCHANGED <<r, snap, ts>>
    BY <1>3, WriterFrame DEF source
  <2>2. timeline_seq' \in Nat /\ timeline_seq <= timeline_seq'
    BY <1>3, SeqGrows
  <2>3. (r \in {"mono", "pts", "stamp"} => snap.seq <= timeline_seq') /\ ts.seq <= timeline_seq'
    BY <1>1, <1>2, <2>2 DEF Loaded
  <2>4. r \in {"pts", "stamp"} => InStep(snap.seq, snap.mono, timeline_seq', w')
    BY <1>2, <1>3, InStepKept DEF Loaded
  <2>5. r = "stamp" => InStep(snap.seq, snap.pts, timeline_seq', w')
    BY <1>2, <1>3, InStepKept DEF Loaded
  <2>6. ts.valid => /\ InStep(ts.seq, ts.mono, timeline_seq', w')
                    /\ InStep(ts.seq, ts.pts, timeline_seq', w')
    BY <1>2, <1>3, InStepKept DEF Loaded
  <2> QED
    BY <2>1, <2>3, <2>4, <2>5, <2>6 DEF Loaded
<1>4. ASSUME SourceStep
      PROVE  UNCHANGED <<timeline_seq, w>>
  BY <1>4, SourceFrame DEF writer
<1>5. CASE AttachTail \/ AttachGen \/ AttachValid \/ Receive
  <2>1. UNCHANGED <<snap, ts>> /\ r' \in {"attach_gen", "attach_valid", "attach_snap", "valid"}
    BY <1>5 DEF AttachTail, AttachGen, AttachValid, Receive
  <2> QED
    BY <1>4, <1>5, <2>1 DEF Loaded, SourceStep
<1>6. CASE AttachSnap \/ Detach
  <2>1. r' \in {"run", "off"} /\ ts'.seq = 0 /\ ts'.valid = FALSE
    BY <1>6 DEF AttachSnap, Detach, NoSync
  <2> QED
    BY <1>1, <1>4, <1>6, <2>1 DEF Loaded, SourceStep
<1>7. CASE LoadField
  <2>1. UNCHANGED <<timeline_seq, w, ts>>
    BY <1>4, <1>7, LoadSteps DEF SourceStep
  <2>2. \/ r' \in {"gen", "sgen", "seq"}
        \/ r' = "mono" /\ snap'.seq = timeline_seq
        \/ r = "mono" /\ r' = "pts" /\ snap'.seq = snap.seq /\ snap'.mono = sink_mono
        \/ /\ r = "pts" /\ r' = "stamp" /\ snap'.seq = snap.seq /\ snap'.mono = snap.mono
           /\ snap'.pts = producer_pts
    BY <1>7, LoadSteps
  <2>3. r = "mono" => InStep(snap.seq, sink_mono, timeline_seq, w)
    BY <1>1, <1>2 DEF Loaded, Numbers, InStep
  <2>4. r = "pts" => InStep(snap.seq, producer_pts, timeline_seq, w)
    BY <1>1, <1>2 DEF Loaded, Numbers, InStep
  <2>5. timeline_seq <= timeline_seq
    BY <1>1
  <2> QED
    BY <2>1, <2>2, <2>3, <2>4, <2>5 DEF Loaded
<1>8. CASE Stamp
  <2>1. UNCHANGED <<timeline_seq, w>> /\ r' = "run"
    BY <1>4, <1>8 DEF SourceStep, Stamp
  <2>2. CASE ts' = ts
    BY <2>1, <2>2 DEF Loaded
  <2>3. ASSUME NEW t \in Timelines, NEW u \in Timelines, Forgotten(t), Synced(t, u),
               ts' = [u EXCEPT !.need_discont = FALSE]
        PROVE  Loaded'
    <3>1. ts'.seq = u.seq /\ ts'.valid = u.valid /\ ts'.mono = u.mono /\ ts'.pts = u.pts
      BY <2>3 DEF Timelines
    <3>2. /\ t.seq <= timeline_seq
          /\ t.valid => /\ InStep(t.seq, t.mono, timeline_seq, w)
                        /\ InStep(t.seq, t.pts, timeline_seq, w)
      BY <1>1, <2>3 DEF Forgotten, Loaded
    <3>3. /\ u.seq <= timeline_seq
          /\ u.valid => /\ InStep(u.seq, u.mono, timeline_seq, w)
                        /\ InStep(u.seq, u.pts, timeline_seq, w)
      <4>1. r = "stamp"
        BY <1>8 DEF Stamp
      <4> QED
        BY <2>3, <3>2, <4>1 DEF Synced, Loaded
    <3> QED
      BY <2>1, <3>1, <3>3 DEF Loaded
  <2> QED
    BY <1>8, <2>2, <2>3, StampSteps
<1> QED
  BY <1>3, <1>5, <1>6, <1>7, <1>8 DEF TimelineNext, SourceStep

LEMMA GenGrows ==
    ASSUME TypeInv, TimelineNext PROVE timeline_gen' \in Nat /\ timeline_gen <= timeline_gen'
<1> USE DEF TypeInv, HeaderOK
<1>1. CASE WriterStep
  BY <1>1 DEF WriterStep, Publish, DropOldest, MaybePublish, ForceGen, ForceMono, ForcePts,
              ForceSnapshotGen, ForceSeq, ForceValid, ResetGen, ResetValid, header
<1>2. CASE SourceStep
  <2>1. timeline_gen' = timeline_gen \/ timeline_gen' = timeline_gen + 1
    BY <1>2, LoadSteps
       DEF SourceStep, AttachTail, AttachGen, AttachValid, AttachSnap, Receive, Stamp,
           Detach, header
  <2> QED
    BY <2>1
<1> QED
  BY <1>1, <1>2 DEF TimelineNext

LEMMA DiscontStep == ASSUME TypeInv, DiscontInv, TimelineNext PROVE DiscontInv'
<1>1. /\ ts \in Timelines /\ snap \in Snapshots /\ timeline_gen \in Nat
      /\ frame \in Nat /\ flagged \in Nat /\ delivered \in Nat
  BY DEF TypeInv, SourceOK, HeaderOK
<1>2. ts.gen \in Nat /\ snap.gen \in Nat
  BY <1>1 DEF Timelines, Snapshots
<1>3. timeline_gen' \in Nat /\ timeline_gen <= timeline_gen'
  BY GenGrows
<1>4. CASE WriterStep
  <2>1. UNCHANGED <<r, frame, snap, ts, flagged, delivered>>
    BY <1>4, WriterFrame DEF source
  <2> QED
    BY <1>1, <1>2, <1>3, <2>1 DEF DiscontInv
<1>5. CASE AttachTail \/ AttachGen \/ AttachValid
  <2>1. /\ UNCHANGED <<frame, snap, ts, flagged, delivered>>
        /\ r' \in {"attach_gen", "attach_valid", "attach_snap"}
    BY <1>5 DEF AttachTail, AttachGen, AttachValid, history
  <2> QED
    BY <1>1, <1>2, <1>3, <2>1 DEF DiscontInv
<1>6. CASE AttachSnap \/ Detach
  <2>1. /\ UNCHANGED frame /\ ts'.need_discont = TRUE /\ flagged' = 0 /\ delivered' = 0
        /\ r' \in {"run", "off"}
    BY <1>6 DEF AttachSnap, Detach, NoSync
  <2> QED
    BY <1>1, <1>3, <2>1 DEF DiscontInv
<1>7. CASE Receive
  <2>1. ready \in Seq(0 .. timeline_gen) /\ ready # <<>> /\ r' = "valid"
        /\ UNCHANGED <<ts, flagged, delivered>>
    BY <1>7 DEF Receive, TypeInv, ReadyOK, history
  <2>2. Len(ready) \in Nat /\ Len(ready) # 0
    BY <2>1, EmptySeq
  <2>3. PICK latest_only \in BOOLEAN :
          frame' = ready[IF latest_only /\ Len(ready) > 1 THEN Len(ready) - 1 ELSE 1]
    BY <1>7 DEF Receive
  <2>4. (IF latest_only /\ Len(ready) > 1 THEN Len(ready) - 1 ELSE 1) \in 1 .. Len(ready)
    BY <2>2
  <2>5. frame' \in 0 .. timeline_gen
    BY <2>1, <2>3, <2>4, ElementOfSeq
  <2> QED
    BY <1>1, <1>3, <2>1, <2>5 DEF DiscontInv
<1>8. CASE LoadField
  <2>1. UNCHANGED <<timeline_gen, frame, ts, flagged, delivered>>
    BY <1>8, LoadSteps DEF header
  <2>2. \/ r' = "gen"
        \/ r' = "sgen" /\ snap'.gen = timeline_gen
        \/ /\ r \in {"sgen", "seq", "mono", "pts"} /\ snap'.gen = snap.gen
           /\ r' \in {"seq", "mono", "pts", "stamp"}
    BY <1>8, LoadSteps
  <2> QED
    BY <1>1, <2>1, <2>2 DEF DiscontInv
<1>9. CASE Stamp
  <2>1. r = "stamp" /\ frame' = 0 /\ r' = "run"
    BY <1>9 DEF Stamp
  <2>2. CASE UNCHANGED <<ts, flagged, delivered, excused>>
    BY <1>3, <2>1, <2>2 DEF DiscontInv
  <2>3. ASSUME NEW t \in Timelines, NEW u \in Timelines, Forgotten(t), Synced(t, u),
               ts' = [u EXCEPT !.need_discont = FALSE],
               flagged' = IF u.need_discont \/ dropped THEN snap.gen ELSE flagged,
               delivered' = frame
        PROVE  DiscontInv'
    <3>1. ts'.gen = snap.gen
      BY <2>3 DEF Timelines, Forgotten, Synced
    <3>2. ~u.need_discont => snap.gen <= flagged
      BY <1>1, <1>2, <2>3 DEF Forgotten, Synced, DiscontInv, Timelines
    <3>3. snap.gen <= flagged' /\ flagged' \in Nat
      BY <1>1, <1>2, <2>3, <3>2
    <3> QED
      BY <1>1, <1>2, <1>3, <2>1, <2>3, <3>1, <3>3 DEF DiscontInv
  <2> QED
    BY <1>9, <2>2, <2>3, StampSteps
<1> QED
  BY <1>4, <1>5, <1>6, <1>7, <1>8, <1>9 DEF TimelineNext, SourceStep

LEMMA FollowsStep ==
    ASSUME TypeInv, Generations, FollowsInv, TimelineNext PROVE FollowsInv'
<1>0. timeline_gen \in Nat /\ newest \in Nat /\ last_gen \in Nat /\ wgen \in Nat
      /\ timeline_valid \in BOOLEAN
  BY DEF TypeInv, HeaderOK, WriterOK
<1> USE DEF FollowsInv, Writing
<1>1. CASE Publish \/ DropOldest \/ MaybePublish
  BY <1>0, <1>1 DEF Publish, DropOldest, MaybePublish, header, writer, source, history
<1>2. CASE ForceGen \/ ForceMono \/ ForcePts \/ ForceSnapshotGen \/ ForceSeq
  BY <1>0, <1>2 DEF ForceGen, ForceMono, ForcePts, ForceSnapshotGen, ForceSeq, header, source,
                    history
<1>3. CASE ForceValid
  BY <1>0, <1>3 DEF ForceValid
<1>4. CASE ResetGen
  <2>1. timeline_gen' = timeline_gen + 1 /\ w' = "reset" /\ UNCHANGED <<newest, last_gen>>
    BY <1>4 DEF ResetGen
  <2>2. newest <= timeline_gen /\ last_gen <= timeline_gen
    BY <1>0 DEF Generations, TypeInv, HeaderOK
  <2> QED
    BY <1>0, <2>1, <2>2
<1>5. CASE ResetValid
  BY <1>0, <1>5 DEF ResetValid, history
<1>6. CASE AttachGen
  BY <1>0, <1>6 DEF AttachGen, Generations, writer
<1>7. CASE AttachValid
  BY <1>0, <1>7 DEF AttachValid, writer
<1>8. CASE AttachTail \/ AttachSnap \/ Receive \/ LoadField \/ Stamp \/ Detach
  <2>1. UNCHANGED <<timeline_gen, timeline_valid, newest, last_gen, wgen, w, overlap>>
    BY <1>8, LoadSteps DEF AttachTail, AttachSnap, Receive, Stamp, Detach, header, writer,
                           history
  <2>2. r # "attach_valid"
    BY <1>8, LoadSteps DEF AttachTail, AttachSnap, Receive, Stamp, Detach
  <2> QED
    BY <2>1, <2>2
<1> QED
  BY <1>1, <1>2, <1>3, <1>4, <1>5, <1>6, <1>7, <1>8 DEF TimelineNext, WriterStep, SourceStep

LEMMA SyncedStep ==
    ASSUME TypeInv, Generations, SyncedInv, TimelineNext PROVE SyncedInv'
<1>0. /\ timeline_gen \in Nat /\ last_gen \in Nat /\ wgen \in Nat /\ snapshot_gen \in Nat
      /\ timeline_valid \in BOOLEAN /\ stale \in BOOLEAN /\ excused \in BOOLEAN
      /\ ts \in Timelines /\ snap \in Snapshots
  BY DEF TypeInv, HeaderOK, WriterOK, SourceOK
<1>1. /\ ts.gen \in Nat /\ ts.sgen \in Nat /\ ts.valid \in BOOLEAN
      /\ snap.gen \in Nat /\ snap.sgen \in Nat /\ snap.valid \in BOOLEAN
  BY <1>0 DEF Timelines, Snapshots
<1> USE DEF SyncedInv, Writing
<1>2. CASE Publish \/ DropOldest \/ MaybePublish \/ ForceGen
  BY <1>0, <1>2 DEF Publish, DropOldest, MaybePublish, ForceGen, header, writer, source, history
<1>3. CASE ForceMono \/ ForcePts \/ ForceSeq
  BY <1>0, <1>3 DEF ForceMono, ForcePts, ForceSeq, source, history
<1>4. CASE ForceSnapshotGen
  <2>1. /\ UNCHANGED <<timeline_gen, timeline_valid, wgen, r, snap, ts, overlap, stale, excused>>
        /\ w = "sgen" /\ w' = "seq" /\ snapshot_gen' = wgen
    BY <1>4 DEF ForceSnapshotGen, source, history
  <2>2. snapshot_gen <= wgen /\ wgen <= timeline_gen
    BY DEF Generations
  <2> QED
    BY <1>0, <1>1, <2>1, <2>2
<1>5. CASE ForceValid
  <2>1. UNCHANGED <<timeline_gen, snapshot_gen, r, snap, ts, stale, excused>> /\ w' = "idle"
        /\ overlap' = IF wgen = timeline_gen THEN "none" ELSE overlap
    BY <1>5 DEF ForceValid, source
  <2>2. snapshot_gen = wgen /\ wgen <= timeline_gen /\ w \in Writing
    BY <1>5 DEF Generations, ForceValid
  <2> QED
    BY <1>0, <2>1, <2>2
<1>6. CASE ResetGen
  <2>1. /\ UNCHANGED <<snapshot_gen, r, snap, ts, excused>> /\ w' = "reset"
        /\ stale' = (stale \/ (r = "gen" /\ snap.valid))
    BY <1>6 DEF ResetGen, source
  <2> QED
    BY <1>0, <1>1, <2>1
<1>7. CASE ResetValid
  BY <1>0, <1>7 DEF ResetValid, source, history
<1>8. CASE AttachGen
  <2>1. /\ UNCHANGED <<snapshot_gen, w, wgen, snap, ts, stale, excused>> /\ r' = "attach_valid"
        /\ overlap' = IF w \in {"mono", "pts", "sgen", "seq", "valid"} THEN "written" ELSE "none"
    BY <1>8 DEF AttachGen, writer
  <2> QED
    BY <1>0, <2>1
<1>9. CASE AttachValid
  <2>1. /\ UNCHANGED <<timeline_gen, w, wgen, snap, ts, stale, excused>> /\ r' = "attach_snap"
        /\ timeline_valid' = FALSE
        /\ overlap' = IF last_gen = timeline_gen THEN "wiped" ELSE overlap
    BY <1>9 DEF AttachValid, writer
  <2>2. last_gen <= wgen
    BY <1>0 DEF Generations
  <2> QED
    BY <1>0, <2>1, <2>2
<1>10. CASE AttachTail \/ Receive
  <2>1. UNCHANGED <<timeline_gen, timeline_valid, snapshot_gen, w, wgen, snap, ts, overlap, stale,
                    excused>>
        /\ r \in {"off", "run"} /\ r' \in {"attach_gen", "valid"}
    BY <1>10 DEF AttachTail, Receive, header, writer, history
  <2> QED
    BY <2>1
<1>11. CASE AttachSnap \/ Detach
  <2>1. UNCHANGED <<timeline_gen, timeline_valid, snapshot_gen, w, wgen, snap, overlap, stale>>
        /\ r \in {"attach_snap", "run"} /\ r' \in {"off", "run"} /\ ts'.valid = FALSE
    BY <1>11 DEF AttachSnap, Detach, header, writer, NoSync
  <2> QED
    BY <2>1
<1>12. CASE LoadField
  <2>1. UNCHANGED <<timeline_gen, timeline_valid, snapshot_gen, w, wgen, ts, overlap, excused>>
    BY <1>12, LoadSteps DEF header, writer
  <2>2. r # "attach_valid" /\ snap' \in Snapshots
    BY <1>12, LoadSteps
  <2>3. snap'.valid /\ ~stale' =>
             /\ r' = "gen" => snapshot_gen = timeline_gen
             /\ r' = "sgen" => snap'.gen <= snapshot_gen
             /\ r' \in {"seq", "mono", "pts", "stamp"} => snap'.gen <= snap'.sgen
    <3>1. CASE r = "valid"
      <4>1. r' = "gen" /\ stale' = (overlap = "written" \/ w = "reset")
            /\ snap'.valid = timeline_valid
        BY <1>12, <3>1, LoadSteps
      <4> QED
        BY <3>1, <4>1
    <3>2. CASE r = "gen"
      <4>1. r' = "sgen" /\ stale' = stale /\ snap'.valid = snap.valid
            /\ snap'.gen = timeline_gen
        BY <1>12, <3>2, LoadSteps
      <4> QED
        BY <1>0, <3>2, <4>1
    <3>3. CASE r = "sgen"
      <4>1. r' = "seq" /\ stale' = stale /\ snap'.valid = snap.valid
            /\ snap'.gen = snap.gen /\ snap'.sgen = snapshot_gen
        BY <1>12, <3>3, LoadSteps
      <4> QED
        BY <3>3, <4>1
    <3>4. CASE r \in {"seq", "mono", "pts"}
      <4>1. r' \in {"mono", "pts", "stamp"} /\ stale' = stale /\ snap'.valid = snap.valid
            /\ snap'.gen = snap.gen /\ snap'.sgen = snap.sgen
        BY <1>12, <3>4, LoadSteps
      <4> QED
        BY <3>4, <4>1
    <3> QED
      BY <1>12, <3>1, <3>2, <3>3, <3>4, LoadSteps
  <2> QED
    BY <2>1, <2>2, <2>3
<1>13. CASE Stamp
  <2>1. UNCHANGED <<timeline_gen, timeline_valid, snapshot_gen, w, wgen, overlap, stale>>
        /\ r = "stamp" /\ r' = "run"
    BY <1>13 DEF Stamp, header, writer
  <2>2. ts'.valid /\ ~excused' => ts'.gen <= ts'.sgen
    <3>1. CASE UNCHANGED <<ts, flagged, delivered, excused>>
      BY <3>1
    <3>2. ASSUME NEW t \in Timelines, NEW u \in Timelines, Forgotten(t), Synced(t, u),
                 ts' = [u EXCEPT !.need_discont = FALSE],
                 excused' = IF u.seq # t.seq THEN stale ELSE (excused /\ u.valid)
          PROVE  ts'.valid /\ ~excused' => ts'.gen <= ts'.sgen
      <4>1. ts'.valid = u.valid /\ ts'.gen = u.gen /\ ts'.sgen = u.sgen
        BY <3>2 DEF Timelines
      <4>2. CASE u.seq # t.seq
        <5>1. u.valid /\ u.sgen = snap.sgen /\ u.gen = snap.gen /\ snap.valid
          BY <3>2, <4>2 DEF Forgotten, Synced
        <5> QED
          BY <2>1, <3>2, <4>1, <4>2, <5>1
      <4>3. CASE u.seq = t.seq
        <5>1. u = t
          BY <3>2, <4>3 DEF Synced
        <5>2. u.valid => u = ts
          BY <3>2, <5>1 DEF Forgotten
        <5> QED
          BY <3>2, <4>1, <4>3, <5>2
      <4> QED
        BY <4>2, <4>3
    <3> QED
      BY <1>13, <3>1, <3>2, StampSteps
  <2> QED
    BY <2>1, <2>2
<1> QED
  BY <1>2, <1>3, <1>4, <1>5, <1>6, <1>7, <1>8, <1>9, <1>10, <1>11, <1>12, <1>13
     DEF TimelineNext, WriterStep, SourceStep

Invariant ==
    TypeInv /\ Generations /\ MixedInv /\ DiscontInv /\ FollowsInv /\ SyncedInv

LEMMA InvariantStep == Invariant /\ [TimelineNext]_vars => Invariant'
<1> SUFFICES ASSUME Invariant, [TimelineNext]_vars PROVE Invariant'
  OBVIOUS
<1>1. CASE TimelineNext
  <2>1. TypeInv'
    BY <1>1, HeaderStep, ReadyStep, WriterTypeStep, SourceTypeStep DEF Invariant, TypeInv
  <2>2. Generations' /\ MixedInv'
    BY <1>1, GenerationsStep, NumbersStep, LoadedStep DEF Invariant, MixedInv
  <2>3. DiscontInv' /\ FollowsInv' /\ SyncedInv'
    BY <1>1, DiscontStep, FollowsStep, SyncedStep DEF Invariant
  <2> QED
    BY <2>1, <2>2, <2>3 DEF Invariant
<1>2. CASE UNCHANGED vars
  <2>1. UNCHANGED <<header, ready, writer, source, history>>
    BY <1>2 DEF vars
  <2>2. UNCHANGED <<timeline_gen, timeline_valid, timeline_seq, sink_mono, producer_pts,
                    snapshot_gen, ready, w, wgen, last_gen, r, frame, dropped, snap, ts,
                    newest, skipped, flagged, delivered, overlap, stale, excused>>
    BY <2>1 DEF header, writer, source, history
  <2>3. TypeInv'
    BY <2>2 DEF Invariant, TypeInv, HeaderOK, ReadyOK, WriterOK, SourceOK
  <2>4. Generations' /\ MixedInv' /\ DiscontInv'
    BY <2>2 DEF Invariant, Generations, MixedInv, Numbers, Loaded, DiscontInv
  <2>5. FollowsInv' /\ SyncedInv'
    BY <2>2 DEF Invariant, FollowsInv, SyncedInv
  <2> QED
    BY <2>3, <2>4, <2>5 DEF Invariant
<1> QED
  BY <1>1, <1>2

LEMMA InvariantCorrect == TimelineSpec => []Invariant
<1>1. TimelineInit => Invariant
  BY InitInv DEF Invariant
<1>2. Invariant /\ [WriterStep \/ SourceStep]_vars => Invariant'
  BY InvariantStep DEF TimelineNext
<1> QED
  BY <1>1, <1>2, PTL DEF TimelineSpec

\* The header's words, the queue and the places have their types, and no snapshot is of a
\* generation that has not begun, however many frames, resets and attaches.
THEOREM TimelineTypeCorrect == TimelineSpec => []TimelineTypeOK
<1>1. Invariant => TimelineTypeOK
  <2> SUFFICES ASSUME Invariant PROVE TimelineTypeOK
    OBVIOUS
  <2>1. {timeline_gen, timeline_seq, sink_mono, producer_pts, snapshot_gen} \subseteq Nat
    BY DEF Invariant, TypeInv, HeaderOK
  <2>2. {timeline_valid, dropped, skipped, stale, excused} \subseteq BOOLEAN
    <3>1. timeline_valid \in BOOLEAN /\ dropped \in BOOLEAN /\ skipped \in BOOLEAN
          /\ stale \in BOOLEAN /\ excused \in BOOLEAN
      BY DEF Invariant, TypeInv, HeaderOK, SourceOK
    <3> QED
      BY <3>1
  <2>3. snapshot_gen <= timeline_gen /\ last_gen <= timeline_gen /\ wgen <= timeline_gen
    BY DEF Invariant, Generations, TypeInv, HeaderOK, WriterOK
  <2>4. snap \in Snapshots /\ ts \in Timelines
    BY DEF Invariant, TypeInv, SourceOK
  <2> QED
    BY <2>1, <2>2, <2>3, <2>4
       DEF Invariant, TypeInv, ReadyOK, WriterOK, SourceOK, Snapshots, Timelines, TimelineTypeOK
<1> QED
  BY <1>1, InvariantCorrect, PTL

\* A snapshot mixed from two does not outlive the writing of the newer one: with equal
\* sequence numbers, time and pts are those of that number.
THEOREM MixedIsCorrectedCorrect == TimelineSpec => []MixedIsCorrected
<1>1. Invariant => MixedIsCorrected
  BY DEF Invariant, MixedInv, Loaded, InStep, MixedIsCorrected
<1> QED
  BY <1>1, InvariantCorrect, PTL

\* No live frame of a generation reaches the application before a DISCONT of it.
THEOREM DiscontPerGenerationCorrect == TimelineSpec => []DiscontPerGeneration
<1>1. Invariant => DiscontPerGeneration
  BY DEF Invariant, DiscontInv, DiscontPerGeneration
<1> QED
  BY <1>1, InvariantCorrect, PTL

\* Once a publish has returned, its generation has a valid snapshot, unless an attach wiped
\* it.
THEOREM SnapshotFollowsFrameCorrect == TimelineSpec => []SnapshotFollowsFrame
<1>1. Invariant => SnapshotFollowsFrame
  BY DEF Invariant, TypeInv, HeaderOK, WriterOK, Generations, FollowsInv, SnapshotFollowsFrame
<1> QED
  BY <1>1, InvariantCorrect, PTL

\* The source is synchronised by a snapshot of the generation it expects, or a newer one,
\* unless an attach overlapped its writing or a reset its loading.
THEOREM SyncedInGenerationCorrect == TimelineSpec => []SyncedInGeneration
<1>1. Invariant => SyncedInGeneration
  <2>1. Invariant => ts.gen \in Nat /\ ts.sgen \in Nat
    BY DEF Invariant, TypeInv, SourceOK, Timelines
  <2> QED
    BY <2>1 DEF Invariant, SyncedInv, SyncedInGeneration
<1> QED
  BY <1>1, InvariantCorrect, PTL
================================================================================
