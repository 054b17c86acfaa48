-------------------------------- MODULE Timeline --------------------------------
(***************************************************************************)
(* The timeline words of the shared header, by which shm2src stamps frames *)
(* in the sink's time: the writer's snapshots, the generations that a      *)
(* reset and an attach begin, and create's clock synchronisation.          *)
(*                                                                         *)
(* Nothing guards these words: the writer stores the fields of a snapshot  *)
(* one by one, create loads them one by one, and an attach (in the source  *)
(* process) bumps timeline_gen and clears timeline_valid in two steps like *)
(* the writer's reset.  Every load and store is a step here.               *)
(*                                                                         *)
(* A time or pts is represented by the number of the snapshot it was       *)
(* stored for; a frame by the generation it was published in.  The slew of *)
(* the offset, a function of them, is left out, and so is                  *)
(* timeline_ready_head, which nothing reads.                               *)
(***************************************************************************)
EXTENDS Naturals, Sequences

CONSTANTS ReadyCap,  \* ready_capacity
          MaxFrames, \* bound: frames published
          MaxResets, \* bound: arena resets
          MaxAttach  \* bound: times the source is started

ASSUME TimelineAssumption ==
    {ReadyCap, MaxFrames, MaxResets, MaxAttach} \subseteq Nat

VARIABLES
    timeline_gen, timeline_valid, timeline_seq, sink_mono, producer_pts,
    snapshot_gen,          \* SharedHeader
    ready,                 \* the frames queued: generations they were published in
    frames, resets,        \* counts
    w, wgen, last_gen,     \* writer: place, generation loaded, last_timeline_snapshot_gen
    r, frame, dropped,     \* source: place, frame received, frames dropped before it
    snap,                  \* the snapshot create is loading
    ts,                    \* state.timeline
    attaches,
    newest,    \* history: generation of the last frame published
    skipped,   \* history: entries were passed over for the frame received last, and it
               \* has not been stamped with DISCONT
    flagged,   \* history: the generation create had loaded when it last set DISCONT
    delivered, \* history: generation of the last frame stamped with live-only set
    overlap,   \* history: what the last attach did to the last snapshot: "written" while
               \* it was being written, "wiped" though it was of the new generation
    stale,     \* history: timeline_valid was loaded for a snapshot of a generation that
               \* had ended when timeline_gen was
    excused    \* history: ts was last synchronised by such a snapshot

header  == <<timeline_gen, timeline_valid, timeline_seq, sink_mono, producer_pts,
             snapshot_gen>>
writer  == <<frames, resets, w, wgen, last_gen>>
source  == <<r, frame, dropped, snap, ts, attaches>>
history == <<newest, skipped, flagged, delivered, overlap, stale, excused>>

vars == <<header, ready, writer, source, history>>

NoSnap == [valid |-> FALSE, gen |-> 0, sgen |-> 0, seq |-> 0, mono |-> 0, pts |-> 0]

\* state.timeline after start() and stop(); offset_valid is valid here.
NoSync(gen) == [gen |-> gen, valid |-> FALSE, seq |-> 0, mono |-> 0, pts |-> 0,
                sgen |-> 0, need_discont |-> TRUE]

--------------------------------------------------------------------------------
(* The writer: the end of publish_lease, drop_oldest_ready, reset_allocator_state. *)

\* Fault: no room is needed.
Publish_NoRoom ==
    /\ w = "idle"
    /\ frames < MaxFrames
    /\ ready' = Append(ready, timeline_gen)
    /\ frames' = frames + 1 /\ newest' = timeline_gen
    /\ w' = "maybe"
    /\ UNCHANGED <<header, resets, wgen, last_gen, source, skipped, flagged, delivered, overlap,
                   stale, excused>>

\* ready_head is stored: the frame can be received before its snapshot is there.
Publish ==
    /\ w = "idle"
    /\ frames < MaxFrames /\ Len(ready) < ReadyCap
    /\ ready' = Append(ready, timeline_gen)
    /\ frames' = frames + 1 /\ newest' = timeline_gen
    /\ w' = "maybe"
    /\ UNCHANGED <<header, resets, wgen, last_gen, source, skipped, flagged, delivered, overlap,
                   stale, excused>>

\* Fault: only the beacon's period counts.
MaybePublish_PeriodOnly ==
    /\ w = "maybe"
    /\ w' \in {"gen", "idle"}
    /\ UNCHANGED <<header, ready, frames, resets, wgen, last_gen, source, history>>

\* alloc_lease finds no block: drop_oldest_ready.
DropOldest ==
    /\ w = "idle"
    /\ ready # <<>>
    /\ ready' = Tail(ready)
    /\ UNCHANGED <<header, writer, source, history>>

\* maybe_publish_timeline_snapshot: in a new generation, or when the beacon is due.
MaybePublish ==
    /\ w = "maybe"
    /\ \E periodic_due \in BOOLEAN :
         w' = IF timeline_gen # last_gen \/ periodic_due THEN "gen" ELSE "idle"
    /\ UNCHANGED <<header, ready, frames, resets, wgen, last_gen, source, history>>

\* force_timeline_snapshot, one access after the other.
ForceGen ==
    /\ w = "gen"
    /\ wgen' = timeline_gen
    /\ w' = "mono"
    /\ UNCHANGED <<header, ready, frames, resets, last_gen, source, history>>

ForceMono ==
    /\ w = "mono"
    /\ sink_mono' = timeline_seq + 1
    /\ w' = "pts"
    /\ UNCHANGED <<timeline_gen, timeline_valid, timeline_seq, producer_pts, snapshot_gen,
                   ready, frames, resets, wgen, last_gen, source, history>>

ForcePts ==
    /\ w = "pts"
    /\ producer_pts' = timeline_seq + 1
    /\ w' = "sgen"
    /\ UNCHANGED <<timeline_gen, timeline_valid, timeline_seq, sink_mono, snapshot_gen,
                   ready, frames, resets, wgen, last_gen, source, history>>

ForceSnapshotGen ==
    /\ w = "sgen"
    /\ snapshot_gen' = wgen
    /\ w' = "seq"
    /\ UNCHANGED <<timeline_gen, timeline_valid, timeline_seq, sink_mono, producer_pts,
                   ready, frames, resets, wgen, last_gen, source, history>>

ForceSeq ==
    /\ w = "seq"
    /\ timeline_seq' = timeline_seq + 1
    /\ w' = "valid"
    /\ UNCHANGED <<timeline_gen, timeline_valid, sink_mono, producer_pts, snapshot_gen,
                   ready, frames, resets, wgen, last_gen, source, history>>

ForceValid ==
    /\ w = "valid"
    /\ timeline_valid' = TRUE
    /\ last_gen' = wgen
    /\ overlap' = IF wgen = timeline_gen THEN "none" ELSE overlap
    /\ w' = "idle"
    /\ UNCHANGED <<timeline_gen, timeline_seq, sink_mono, producer_pts, snapshot_gen,
                   ready, frames, resets, wgen, source, newest, skipped, flagged, delivered,
                   stale, excused>>

\* alloc_lease finds no block and nothing queued: reset_allocator_state.
ResetGen ==
    /\ w = "idle"
    /\ ready = <<>> /\ resets < MaxResets
    /\ timeline_gen' = timeline_gen + 1
    /\ resets' = resets + 1
    /\ overlap' = "none"
    /\ stale' = (stale \/ (r = "gen" /\ snap.valid))
    /\ w' = "reset"
    /\ UNCHANGED <<timeline_valid, timeline_seq, sink_mono, producer_pts, snapshot_gen,
                   ready, frames, wgen, last_gen, source, newest, skipped, flagged,
                   delivered, excused>>

ResetValid ==
    /\ w = "reset"
    /\ timeline_valid' = FALSE
    /\ w' = "idle"
    /\ UNCHANGED <<timeline_gen, timeline_seq, sink_mono, producer_pts, snapshot_gen,
                   ready, frames, resets, wgen, last_gen, source, history>>

--------------------------------------------------------------------------------
(* The source: start(), create() and stop(). *)

\* sync_startup_state skips what is queued ...
AttachTail ==
    /\ r = "off" /\ attaches < MaxAttach
    /\ ready' = <<>>
    /\ attaches' = attaches + 1
    /\ r' = "attach_gen"
    /\ UNCHANGED <<header, writer, frame, dropped, snap, ts, history>>

\* ... begins a generation ...
AttachGen ==
    /\ r = "attach_gen"
    /\ timeline_gen' = timeline_gen + 1
    /\ overlap' = IF w \in {"mono", "pts", "sgen", "seq", "valid"} THEN "written" ELSE "none"
    /\ r' = "attach_valid"
    /\ UNCHANGED <<timeline_valid, timeline_seq, sink_mono, producer_pts, snapshot_gen,
                   ready, writer, frame, dropped, snap, ts, attaches, newest, skipped,
                   flagged, delivered, stale, excused>>

\* ... and invalidates the snapshot, be it one of the new generation.
AttachValid ==
    /\ r = "attach_valid"
    /\ timeline_valid' = FALSE
    /\ overlap' = IF last_gen = timeline_gen THEN "wiped" ELSE overlap
    /\ r' = "attach_snap"
    /\ UNCHANGED <<timeline_gen, timeline_seq, sink_mono, producer_pts, snapshot_gen,
                   ready, writer, frame, dropped, snap, ts, attaches, newest, skipped,
                   flagged, delivered, stale, excused>>

\* start() expects the generation it loads.
AttachSnap ==
    /\ r = "attach_snap"
    /\ ts' = NoSync(timeline_gen)
    /\ flagged' = 0 /\ delivered' = 0 /\ excused' = FALSE
    /\ r' = "run"
    /\ UNCHANGED <<header, ready, writer, frame, dropped, snap, attaches, newest, skipped,
                   overlap, stale>>

\* try_recv_desc, or try_recv_latest_desc, which keeps the newest entry queued.  Of the
\* entries it passes over it counts those that try_recycle_desc gives back: with no room
\* in the recycle ring none, though it passes them over all the same.
Receive ==
    /\ r = "run" /\ ready # <<>>
    /\ LET n == Len(ready)
       IN  \E latest_only, room \in BOOLEAN :
             LET chosen == IF latest_only /\ n > 1 THEN n - 1 ELSE 1
             IN  /\ frame' = ready[chosen]
                 /\ skipped' = (chosen > 1)
                 /\ dropped' = (chosen > 1 /\ room)
                 /\ ready' = SubSeq(ready, chosen + 1, n)
    /\ r' = "valid"
    /\ UNCHANGED <<header, writer, snap, ts, attaches, newest, flagged, delivered, overlap,
                   stale, excused>>

\* One load of timeline_snapshot, and the place of the next.
Load(place, next, s) ==
    /\ r = place
    /\ snap' = s
    /\ r' = next
    /\ stale' = IF place = "valid" THEN overlap = "written" \/ w = "reset" ELSE stale
    /\ UNCHANGED <<header, ready, writer, frame, dropped, ts, attaches, newest, skipped,
                   flagged, delivered, overlap, excused>>

\* Fault: the fields are loaded before the sequence number.
LoadField_SeqLast ==
    \/ Load("valid", "gen", [snap EXCEPT !.valid = timeline_valid])
    \/ Load("gen", "sgen", [snap EXCEPT !.gen = timeline_gen])
    \/ Load("sgen", "mono", [snap EXCEPT !.sgen = snapshot_gen])
    \/ Load("mono", "pts", [snap EXCEPT !.mono = sink_mono])
    \/ Load("pts", "seq", [snap EXCEPT !.pts = producer_pts])
    \/ Load("seq", "stamp", [snap EXCEPT !.seq = timeline_seq])

\* timeline_snapshot, in program order.
LoadField ==
    \/ Load("valid", "gen", [snap EXCEPT !.valid = timeline_valid])
    \/ Load("gen", "sgen", [snap EXCEPT !.gen = timeline_gen])
    \/ Load("sgen", "seq", [snap EXCEPT !.sgen = snapshot_gen])
    \/ Load("seq", "mono", [snap EXCEPT !.seq = timeline_seq])
    \/ Load("mono", "pts", [snap EXCEPT !.mono = sink_mono])
    \/ Load("pts", "stamp", [snap EXCEPT !.pts = producer_pts])

\* Fault: a new generation is not announced.
Expect_NoDiscont(t) ==
    IF snap.gen = t.gen THEN t
    ELSE [t EXCEPT !.gen = snap.gen, !.valid = FALSE, !.seq = 0]

\* create, on a generation it does not expect: forget the offset, announce it.
Expect(t) ==
    IF snap.gen = t.gen THEN t
    ELSE [t EXCEPT !.gen = snap.gen, !.valid = FALSE, !.seq = 0, !.need_discont = TRUE]

\* Fault: an invalid snapshot is used like a valid one.
update_clock_sync_Invalid(t) ==
    IF snap.seq = t.seq THEN t
    ELSE [t EXCEPT !.valid = TRUE, !.seq = snap.seq, !.mono = snap.mono,
                   !.pts = snap.pts, !.sgen = snap.sgen]

\* update_clock_sync: a valid snapshot with another sequence number.  ts.sgen is not in
\* the code: it remembers the snapshot_gen that was loaded and never compared.
update_clock_sync(t) ==
    IF ~snap.valid \/ snap.seq = t.seq THEN t
    ELSE [t EXCEPT !.valid = TRUE, !.seq = snap.seq, !.mono = snap.mono,
                   !.pts = snap.pts, !.sgen = snap.sgen]

\* The buffer is stamped and flagged: both settings are read anew for every frame, and
\* there may be no clock yet.
Stamp ==
    /\ r = "stamp"
    /\ \E live_only, has_clock \in BOOLEAN :
         LET t == Expect(ts)
             u == IF has_clock THEN update_clock_sync(t) ELSE t
             discont == u.need_discont \/ dropped
         IN  IF live_only
             THEN /\ ts' = [u EXCEPT !.need_discont = FALSE]
                  /\ flagged' = IF discont THEN snap.gen ELSE flagged
                  /\ skipped' = (skipped /\ ~discont)
                  /\ delivered' = frame
                  /\ excused' = IF u.seq # t.seq THEN stale ELSE (excused /\ u.valid)
             ELSE skipped' = FALSE /\ UNCHANGED <<ts, flagged, delivered, excused>>
    /\ snap' = NoSnap /\ frame' = 0 /\ dropped' = FALSE
    /\ r' = "run"
    /\ UNCHANGED <<header, ready, writer, attaches, newest, overlap, stale>>

\* stop()
Detach ==
    /\ r = "run"
    /\ ts' = NoSync(0)
    /\ skipped' = FALSE /\ flagged' = 0 /\ delivered' = 0 /\ excused' = FALSE
    /\ r' = "off"
    /\ UNCHANGED <<header, ready, writer, frame, dropped, snap, attaches, newest, overlap,
                   stale>>

--------------------------------------------------------------------------------
TimelineInit ==
    /\ timeline_gen = 0 /\ timeline_valid = FALSE /\ timeline_seq = 0
    /\ sink_mono = 0 /\ producer_pts = 0 /\ snapshot_gen = 0
    /\ ready = <<>> /\ frames = 0 /\ resets = 0
    /\ w = "idle" /\ wgen = 0 /\ last_gen = 0
    /\ r = "off" /\ frame = 0 /\ dropped = FALSE /\ snap = NoSnap /\ ts = NoSync(0)
    /\ attaches = 0
    /\ newest = 0 /\ skipped = FALSE /\ flagged = 0 /\ delivered = 0
    /\ overlap = "none" /\ stale = FALSE /\ excused = FALSE

WriterStep ==
    \/ Publish \/ DropOldest
    \/ MaybePublish \/ ForceGen \/ ForceMono \/ ForcePts \/ ForceSnapshotGen
    \/ ForceSeq \/ ForceValid \/ ResetGen \/ ResetValid

SourceStep ==
    \/ AttachTail \/ AttachGen \/ AttachValid \/ AttachSnap
    \/ Receive \/ LoadField \/ Stamp \/ Detach

TimelineSpec == TimelineInit /\ [][WriterStep \/ SourceStep]_vars

--------------------------------------------------------------------------------
\* Type invariant: the header's words, the rings, places and the source's timeline.
TimelineTypeOK ==
    /\ {timeline_gen, timeline_seq, sink_mono, producer_pts, snapshot_gen} \subseteq Nat
    /\ {timeline_valid, dropped, skipped, stale, excused} \subseteq BOOLEAN
    /\ snapshot_gen <= timeline_gen /\ last_gen <= timeline_gen /\ wgen <= timeline_gen
    /\ ready \in Seq(0 .. timeline_gen) /\ Len(ready) <= ReadyCap
    /\ w \in {"idle", "maybe", "gen", "mono", "pts", "sgen", "seq", "valid", "reset"}
    /\ r \in {"off", "attach_gen", "attach_valid", "attach_snap", "run", "valid", "gen",
              "sgen", "seq", "mono", "pts", "stamp"}
    /\ snap \in [valid : BOOLEAN, gen : Nat, sgen : Nat, seq : Nat, mono : Nat, pts : Nat]
    /\ ts \in [gen : Nat, valid : BOOLEAN, seq : Nat, mono : Nat, pts : Nat, sgen : Nat,
               need_discont : BOOLEAN]
    /\ overlap \in {"none", "written", "wiped"}

\* A mixed snapshot does not last: the time and pts create synchronised to are never
\* older than the sequence number it remembers, and when that number is still the
\* header's and no snapshot is being written they are that snapshot's.
MixedIsCorrected ==
    ts.valid =>
        /\ ts.mono >= ts.seq /\ ts.pts >= ts.seq
        /\ ts.seq = timeline_seq /\ w \notin {"pts", "sgen", "seq"} =>
             ts.mono = ts.seq /\ ts.pts = ts.seq

\* The source is not synchronised by a snapshot of a generation before the one it
\* expects, unless an attach overlapped the writing of the snapshot, or the two
\* steps of a reset its loads of timeline_valid and timeline_gen.
SyncedInGeneration == ts.valid /\ ~excused => ts.sgen >= ts.gen

\* A live frame of a generation is delivered with or after a DISCONT set in it.
DiscontPerGeneration == delivered <= flagged

\* "If any frames were dropped since the last output, set DISCONT" (the live design): no
\* live frame is delivered without it for which the source has passed entries over.
DiscontOnDrop == r = "run" => ~skipped

\* Once a frame was published in a generation and its publish has returned, there is a
\* valid snapshot of the generation: create need not wait for the beacon.  An attach
\* that clears timeline_valid behind such a snapshot is the exception.
SnapshotFollowsFrame ==
    /\ w = "idle" /\ newest = timeline_gen /\ timeline_gen > 0
    /\ r # "attach_valid" /\ overlap # "wiped"
    => timeline_valid /\ snapshot_gen = timeline_gen
================================================================================
