--------------------------------- MODULE Region ---------------------------------
(***************************************************************************)
(* Making and mapping the shared region: Writer::create and Reader::open   *)
(* of transport.rs over the three back ends of platform/, with every       *)
(* system call that can fail, the header written word by word by a create  *)
(* and loaded word by word by an open, and creates repeated under an       *)
(* attached reader.                                                        *)
(*                                                                         *)
(* A posix file keeps its inode: create opens it again, resizes it and     *)
(* zeroes it under whoever has it mapped.  A named Windows object has the  *)
(* size it was made with, in whole pages, and lives while a handle does.   *)
(* An ivshmem device shows the guest the host's file in the size it had.   *)
(* Nothing reads the header's state or epoch (1 at each create): they are  *)
(* left out.  The words of the layout are plain memory: a create may store *)
(* them, and an open load them, in any order.                              *)
(***************************************************************************)
EXTENDS Integers

CONSTANTS Sizes,      \* shm-size values, in bytes
          Page,       \* page size, the alignment of the arena
          HeaderPad,  \* HEADER_PAD
          DescSize,   \* size of a ReadyDesc, of a RecycleDesc and of DESC_ALIGN
          ReadyCap,   \* ready_capacity
          RecCap,     \* rec_capacity
          DeviceSize, \* size of the ivshmem device
          MaxCreates, \* bound: calls of Writer::create
          MaxOpens,   \* bound: calls of Reader::open
          None

\* What a Reader keeps: the length of its mapping, three offsets, and the capacities its
\* slices of the two rings are made with.
Readers == [len : Nat, ready : Nat, recycle : Nat, arena : Nat, capacities : Nat]

ASSUME RegionAssumption ==
    /\ {Page, HeaderPad, DescSize, ReadyCap, RecCap} \subseteq Nat \ {0}
    /\ {DeviceSize, MaxCreates, MaxOpens} \subseteq Nat
    /\ Sizes \subseteq Nat
    /\ None \notin Readers

\* The words of the header an open loads, and arena_size, which only a receive loads.
\* Two stand for words that are the same for every create: magic for magic, version and
\* the two entry sizes; capacities for ready_capacity, which a receive loads again, and
\* rec_capacity, which a recycle does.
Words == {"magic", "total_size", "ready_offset", "recycle_offset", "arena_offset",
          "capacities", "arena_size"}

ZeroHeader == [x \in Words |-> 0]

VARIABLES
    sink_backend, src_backend, \* the back end of either element
    exists, size, hdr, \* the file or named object behind the path, and its header
    handles, maps,     \* process -> handles open, views mapped
    w,                 \* Writer::create: place, size asked for, mapped length, words to store
    writers,           \* number of Writers alive
    o,                 \* Reader::open: place, mapped length, words loaded and to load
    reader,            \* the Reader: mapped length, offsets and slices
    creates, opens,    \* counts
    left,              \* history: driver mappings whose handle was closed without a release
    cut,               \* history: the file was cut short of a header since a create succeeded
    overlapped,        \* history: a create was under way during the last open, or cut
    resized            \* history: the file was resized since the last open mapped it

object == <<exists, size, hdr>>
held   == <<handles, maps, left>>
where  == <<sink_backend, src_backend>>
counts == <<creates, opens, where>>
vars == <<object, held, w, writers, o, reader, counts, cut, overlapped, resized>>

NoCreate == [pc |-> "idle", size |-> 0, len |-> 0, todo |-> {}]
NoOpen   == [pc |-> "idle", len |-> 0, got |-> ZeroHeader, todo |-> {}]

\* No create is under way; "done" remembers one that succeeded.
Creating == w.pc \notin {"idle", "done"}

--------------------------------------------------------------------------------
(* Paths and layout. *)

\* resolve_backend: the back end of a spec on an operating system.
resolve_backend(os, spec) ==
    CASE spec.empty -> "error"
      [] spec.scheme \in {"none", "shm"} /\ os = "unix" -> "posix"
      [] spec.scheme \in {"none", "winshm"} /\ os = "windows" -> "named"
      [] spec.scheme = "ivshmem" /\ os = "windows" -> "ivshmem"
      [] OTHER -> "error"

Specs == [scheme : {"none", "shm", "winshm", "ivshmem", "other"}, empty : BOOLEAN]

\* Both elements name the same region: on one system, or the host's file and the
\* device that shows it to the guest.  Only a file or a named object is ever created.
SameRegion ==
    <<sink_backend, src_backend>> \in
        {<<"posix", "posix">>, <<"named", "named">>, <<"posix", "ivshmem">>}

align_up(v, a) == IF v % a = 0 THEN v ELSE v + (a - (v % a))

\* map_layout: header, ready ring, recycle ring and, on a page boundary, the arena.
ReadyOffset   == align_up(HeaderPad, DescSize)
RecycleOffset == align_up(ReadyOffset + ReadyCap * DescSize, DescSize)
ArenaOffset   == align_up(RecycleOffset + RecCap * DescSize, Page)

\* The header that create writes into a mapping of length len for a size asked for; a 1
\* is a word with its right value.
Layout(asked, len) ==
    [magic |-> 1, total_size |-> asked, ready_offset |-> ReadyOffset,
     recycle_offset |-> RecycleOffset, arena_offset |-> ArenaOffset,
     capacities |-> 1, arena_size |-> len - ArenaOffset]

\* What memory shows of the header when some of its words are erased.
Erased(h) == {[x \in Words |-> IF x \in gone THEN 0 ELSE h[x]] : gone \in SUBSET Words}

--------------------------------------------------------------------------------
(* Handles and views of a process, "sink" or "src". *)

Open(p) == handles' = [handles EXCEPT ![p] = @ + 1] /\ UNCHANGED <<maps, left>>

Map(p) == maps' = [maps EXCEPT ![p] = @ + 1] /\ UNCHANGED <<handles, left>>

\* A named object goes with its last handle; a view goes before its handle.
Close(p, views) ==
    /\ handles' = [handles EXCEPT ![p] = @ - 1]
    /\ maps' = [maps EXCEPT ![p] = @ - views]
    /\ UNCHANGED left
    /\ IF sink_backend = "named" /\ handles["sink"] + handles["src"] = 1
       THEN exists' = FALSE /\ size' = 0 /\ hdr' = ZeroHeader
       ELSE UNCHANGED object

--------------------------------------------------------------------------------
(* Writer::create. *)

\* Shm2Sink::start; a size of 0 is refused before anything is opened, and ivshmem is
\* attach-only, so that only a file and a named object are ever created.
CreateCall(n) ==
    /\ ~Creating
    /\ creates < MaxCreates
    /\ n > 0
    /\ w' = [NoCreate EXCEPT !.pc = "open", !.size = n]
    /\ creates' = creates + 1
    /\ overlapped' = (overlapped \/ o.pc # "idle")
    /\ UNCHANGED <<object, held, writers, o, reader, opens, where, cut, resized>>

\* open(O_CREAT) or CreateFileMapping, which opens an object that is there as it is.
CreateOpen ==
    /\ w.pc = "open"
    /\ Open("sink")
    /\ exists' = TRUE
    /\ IF sink_backend = "named" /\ ~exists
       THEN size' = align_up(w.size, Page) ELSE UNCHANGED size
    /\ w' = [w EXCEPT !.pc = IF sink_backend = "posix" THEN "truncate" ELSE "map"]
    /\ UNCHANGED <<hdr, writers, o, reader, counts, cut, overlapped, resized>>

\* Fault: ftruncate only where the file is too small.
CreateTruncate_GrowOnly ==
    /\ w.pc = "truncate"
    /\ size' = IF size < w.size THEN w.size ELSE size
    /\ UNCHANGED hdr
    /\ resized' = (resized \/ size # size')
    /\ w' = [w EXCEPT !.pc = "map"]
    /\ UNCHANGED <<exists, held, writers, o, reader, counts, cut, overlapped>>

\* ftruncate; the words it cuts off are 0 from then on.
CreateTruncate ==
    /\ w.pc = "truncate"
    /\ size' = w.size
    /\ hdr' \in IF w.size < HeaderPad THEN Erased(hdr) ELSE {hdr}
    /\ resized' = (resized \/ size # w.size)
    /\ w' = [w EXCEPT !.pc = "map"]
    /\ cut' = (cut \/ w.size < HeaderPad)
    /\ UNCHANGED <<exists, held, writers, o, reader, counts, overlapped>>

\* fstat and mmap; a named object is mapped first ...
CreateMap ==
    /\ w.pc = "map"
    /\ Map("sink")
    /\ w' = IF sink_backend = "named" THEN [w EXCEPT !.pc = "measure"]
                                     ELSE [w EXCEPT !.pc = "layout", !.len = size]
    /\ UNCHANGED <<object, writers, o, reader, counts, cut, overlapped, resized>>

\* ... and then measured, by VirtualQuery.
CreateMeasure ==
    /\ w.pc = "measure"
    /\ w' = [w EXCEPT !.pc = "layout", !.len = size]
    /\ UNCHANGED <<object, held, writers, o, reader, counts, cut, overlapped, resized>>

\* Fault: the arena may be empty, or less.
CreateLayout_NoCheck ==
    /\ w.pc = "layout"
    /\ w' = [w EXCEPT !.pc = "zero"]
    /\ UNCHANGED <<object, held, writers, o, reader, counts, cut, overlapped, resized>>

\* map_layout finds room for an arena.
CreateLayout ==
    /\ w.pc = "layout" /\ ArenaOffset < w.len
    /\ w' = [w EXCEPT !.pc = "zero"]
    /\ UNCHANGED <<object, held, writers, o, reader, counts, cut, overlapped, resized>>

\* A system call fails, or the arena has no room: what was opened is closed again, and
\* unmapped if it was mapped.
CreateFail ==
    /\ \/ w.pc \in {"open", "truncate", "map", "measure"}
       \/ w.pc = "layout" /\ ArenaOffset >= w.len
    /\ CASE w.pc = "open"                  -> UNCHANGED <<object, held>>
         [] w.pc \in {"truncate", "map"}   -> Close("sink", 0)
         [] w.pc \in {"measure", "layout"} -> Close("sink", 1)
    /\ w' = NoCreate
    /\ UNCHANGED <<writers, o, reader, counts, cut, overlapped, resized>>

\* write_bytes over the whole region, in whatever order ...
CreateZeroSome ==
    /\ w.pc = "zero"
    /\ hdr' \in Erased(hdr)
    /\ w' = [w EXCEPT !.pc = "zeroed"]
    /\ UNCHANGED <<exists, size, held, writers, o, reader, counts, cut, overlapped, resized>>

CreateZeroed ==
    /\ w.pc = "zeroed"
    /\ hdr' = ZeroHeader
    /\ w' = [w EXCEPT !.pc = "init", !.todo = Words]
    /\ UNCHANGED <<exists, size, held, writers, o, reader, counts, cut, overlapped, resized>>

\* ... and init_header, word by word.
CreateInit ==
    /\ w.pc = "init"
    /\ \E x \in w.todo :
         /\ hdr' = [hdr EXCEPT ![x] = Layout(w.size, w.len)[x]]
         /\ w' = [w EXCEPT !.todo = @ \ {x}]
    /\ UNCHANGED <<exists, size, held, writers, o, reader, counts, cut, overlapped, resized>>

CreateDone ==
    /\ w.pc = "init" /\ w.todo = {}
    /\ writers' = writers + 1
    /\ w' = [w EXCEPT !.pc = "done"]
    /\ cut' = FALSE
    /\ UNCHANGED <<object, held, o, reader, counts, overlapped, resized>>

\* The last reference to a Writer goes (upstream memories may keep one beyond stop): its
\* region is unmapped and closed; a file stays, with its header.
DropWriter ==
    /\ writers > 0
    /\ writers' = writers - 1
    /\ Close("sink", 1)
    /\ UNCHANGED <<w, o, reader, counts, cut, overlapped, resized>>

--------------------------------------------------------------------------------
(* Reader::open. *)

OpenCall ==
    /\ o.pc = "idle" /\ reader = None
    /\ opens < MaxOpens
    /\ o' = [NoOpen EXCEPT !.pc = "open"]
    /\ opens' = opens + 1
    /\ overlapped' = (Creating \/ cut)
    /\ UNCHANGED <<object, held, w, writers, reader, creates, where, cut, resized>>

\* The file, the object or the device is opened.
OpenOpen ==
    /\ o.pc = "open"
    /\ exists \/ src_backend = "ivshmem"
    /\ Open("src")
    /\ o' = [o EXCEPT !.pc = IF src_backend = "named" THEN "map" ELSE "stat"]
    /\ UNCHANGED <<object, w, writers, reader, counts, cut, overlapped, resized>>

\* The size of a file, by fstat, which refuses an empty one, or of the device, by the
\* driver's answer.
OpenStat ==
    /\ o.pc = "stat"
    /\ LET n == IF src_backend = "ivshmem" THEN DeviceSize ELSE size
       IN  n > 0 /\ o' = [o EXCEPT !.pc = "map", !.len = n]
    /\ resized' = (src_backend = "ivshmem" /\ size # DeviceSize)
    /\ UNCHANGED <<object, held, w, writers, reader, counts, cut, overlapped>>

\* The mapping, of length n, is there and the header is read.
Loading(n) == [o EXCEPT !.pc = "load", !.len = n, !.todo = Words \ {"arena_size"}]

\* mmap, MapViewOfFile or the driver's mapping; only the first ends the opening.
OpenMap ==
    /\ o.pc = "map"
    /\ Map("src")
    /\ o' = IF src_backend = "posix" THEN Loading(o.len) ELSE [o EXCEPT !.pc = "check"]
    /\ UNCHANGED <<object, w, writers, reader, counts, cut, overlapped, resized>>

\* VirtualQuery measures the view, or the size the driver mapped is the one it said.
OpenCheck ==
    /\ o.pc = "check"
    /\ o' = Loading(IF src_backend = "named" THEN size ELSE o.len)
    /\ UNCHANGED <<object, held, w, writers, reader, counts, cut, overlapped, resized>>

\* The driver maps, but request_map refuses its answer (of the wrong size, or null or of
\* no length): the handle is closed, and the mapping is not released.
OpenBadMap ==
    /\ o.pc = "map" /\ src_backend = "ivshmem"
    /\ handles' = [handles EXCEPT !["src"] = @ - 1]
    /\ maps' = [maps EXCEPT !["src"] = @ + 1]
    /\ left' = left + 1
    /\ o' = NoOpen
    /\ UNCHANGED <<object, w, writers, reader, counts, cut, overlapped, resized>>

\* Fault: the size in the header is not compared.
Accepts_AnySize(x, v, len) == x = "magic" => v = 1

\* validate_header's tests; the offsets are taken as they are.
Accepts(x, v, len) == (x = "magic" => v = 1) /\ (x = "total_size" => v = len)

OpenLoad ==
    /\ o.pc = "load"
    /\ \E x \in o.todo :
         /\ Accepts(x, hdr[x], o.len)
         /\ o' = [o EXCEPT !.todo = @ \ {x}, !.got[x] = hdr[x]]
    /\ UNCHANGED <<object, held, w, writers, reader, counts, cut, overlapped, resized>>

OpenDone ==
    /\ o.pc = "load" /\ o.todo = {}
    /\ reader' = [len |-> o.len, ready |-> o.got["ready_offset"],
                  recycle |-> o.got["recycle_offset"], arena |-> o.got["arena_offset"],
                  capacities |-> o.got["capacities"]]
    /\ o' = NoOpen
    /\ UNCHANGED <<object, held, w, writers, counts, cut, overlapped, resized>>

\* Fault: a view that cannot be measured, or is not of the size the driver said, is left
\* mapped.
OpenFail_NoRelease ==
    /\ \/ o.pc \in {"open", "stat", "map", "check"}
       \/ o.pc = "load" /\ \E x \in o.todo : ~Accepts(x, hdr[x], o.len)
    /\ CASE o.pc = "open"                     -> UNCHANGED <<object, held>>
         [] o.pc \in {"stat", "map", "check"} -> Close("src", 0)
         [] o.pc = "load"                     -> Close("src", 1)
    /\ o' = NoOpen
    /\ UNCHANGED <<w, writers, reader, counts, cut, overlapped, resized>>

\* A system call fails, the view cannot be measured or is not of the size the driver said
\* (then it is released), or the header is refused.
OpenFail ==
    /\ \/ o.pc \in {"open", "stat", "map", "check"}
       \/ o.pc = "load" /\ \E x \in o.todo : ~Accepts(x, hdr[x], o.len)
    /\ CASE o.pc = "open"              -> UNCHANGED <<object, held>>
         [] o.pc \in {"stat", "map"}   -> Close("src", 0)
         [] o.pc \in {"check", "load"} -> Close("src", 1)
    /\ o' = NoOpen
    /\ UNCHANGED <<w, writers, reader, counts, cut, overlapped, resized>>

\* The last reference to the Reader goes.
DropReader ==
    /\ reader # None
    /\ reader' = None
    /\ Close("src", 1)
    /\ UNCHANGED <<w, writers, o, counts, cut, overlapped, resized>>

--------------------------------------------------------------------------------
RegionInit ==
    /\ \E os \in {"unix", "windows"}, spec \in Specs : sink_backend = resolve_backend(os, spec)
    /\ \E os \in {"unix", "windows"}, spec \in Specs : src_backend = resolve_backend(os, spec)
    /\ SameRegion
    /\ exists = FALSE /\ size = 0 /\ hdr = ZeroHeader
    /\ handles = [p \in {"sink", "src"} |-> 0] /\ maps = handles
    /\ w = NoCreate /\ writers = 0 /\ o = NoOpen /\ reader = None
    /\ creates = 0 /\ opens = 0 /\ left = 0
    /\ cut = FALSE /\ overlapped = FALSE /\ resized = FALSE

RegionNext ==
    \/ \E n \in Sizes : CreateCall(n)
    \/ CreateOpen \/ CreateTruncate \/ CreateMap \/ CreateMeasure \/ CreateLayout \/ CreateFail
    \/ CreateZeroSome \/ CreateZeroed \/ CreateInit \/ CreateDone \/ DropWriter
    \/ OpenCall \/ OpenOpen \/ OpenStat \/ OpenMap \/ OpenCheck \/ OpenBadMap \/ OpenLoad
    \/ OpenDone \/ OpenFail \/ DropReader

RegionSpec == RegionInit /\ [][RegionNext]_vars

--------------------------------------------------------------------------------
\* Type invariant: sizes, offsets and counts are naturals.
RegionTypeOK ==
    /\ exists \in BOOLEAN /\ size \in Nat /\ hdr \in [Words -> Nat]
    /\ handles \in [{"sink", "src"} -> Nat] /\ maps \in [{"sink", "src"} -> Nat]
    /\ w \in [pc : {"idle", "open", "truncate", "map", "measure", "layout", "zero", "zeroed",
                    "init", "done"},
              size : Nat, len : Nat, todo : SUBSET Words]
    /\ o \in [pc : {"idle", "open", "stat", "map", "check", "load"}, len : Nat,
              got : [Words -> Nat], todo : SUBSET Words]
    /\ writers \in Nat /\ left \in Nat
    /\ reader \in Readers \cup {None}
    /\ creates \in 0 .. MaxCreates /\ opens \in 0 .. MaxOpens

One(b) == IF b THEN 1 ELSE 0

\* A failed create or open, at whatever call of the back end and whatever test of the
\* header, leaves a process with what its Writers, its Reader and the call under way need
\* and no more; only the mappings of answers request_map refuses stay, their handle
\* closed without a release.  A named object lives exactly as long as someone has it open.
NothingLeaks ==
    /\ handles["sink"] = writers + One(Creating /\ w.pc # "open")
    /\ maps["sink"] = writers + One(w.pc \in {"measure", "layout", "zero", "zeroed", "init"})
    /\ handles["src"] = One(reader # None) + One(o.pc \in {"stat", "map", "check", "load"})
    /\ maps["src"] = One(reader # None) + One(o.pc \in {"check", "load"}) + left
    /\ sink_backend = "named" => (exists <=> handles["sink"] + handles["src"] > 0)

\* A Reader whose open no create overlapped, of a file not cut short, has its rings and
\* its arena where the Writer has them, as long and apart from each other; and while
\* nobody resizes the file, the arena it checks descriptors against ends inside its
\* mapping and the file, also while a create erases and rewrites the header under it.
ReaderMapsRegion ==
    reader # None /\ ~overlapped =>
        /\ HeaderPad <= reader.ready
        /\ reader.ready + ReadyCap * DescSize <= reader.recycle
        /\ reader.recycle + RecCap * DescSize <= reader.arena
        /\ reader.arena = ArenaOffset /\ ArenaOffset < reader.len
        /\ reader.capacities = 1
        /\ ~resized => /\ reader.arena + hdr["arena_size"] <= reader.len
                       /\ reader.len <= size

\* What detecting a re-initialised region would give: the capacity by which a receive
\* divides its counter is that of the ring the Reader opened, never 0.
CapacityStands ==
    reader # None /\ ~overlapped => hdr["capacities"] = reader.capacities

\* After a create that succeeded, and until the next one, an open finds a header it
\* accepts; on Windows only if the size asked for is the size mapped.
OpensAfterCreate ==
    w.pc = "done" /\ exists /\ (sink_backend = "named" => w.len = w.size) =>
        \A x \in Words : Accepts(x, hdr[x], size)
================================================================================
