------------------------------- MODULE RegionProofs ------------------------------
(***************************************************************************)
(* For every size, page size and capacity, and any number of creates and   *)
(* opens: handles and views are accounted for, and a Reader no create      *)
(* overlapped reads the layout the Writer wrote.                           *)
(*                                                                         *)
(* The header behind the path is intact (all zero, or the words of one     *)
(* layout) except while a create erases and writes it and after a cut; an  *)
(* open that is not overlapped sees none of that.                          *)
(***************************************************************************)
EXTENDS Region, TLAPS

Procs == {"sink", "src"}

Creates == [pc : {"idle", "open", "truncate", "map", "measure", "layout", "zero", "zeroed",
                  "init", "done"},
            size : Nat, len : Nat, todo : SUBSET Words]
Opens   == [pc : {"idle", "open", "stat", "map", "check", "load"}, len : Nat,
            got : [Words -> Nat], todo : SUBSET Words]

\* RegionTypeOK by owner of the state.
ObjectOK == exists \in BOOLEAN /\ size \in Nat /\ hdr \in [Words -> Nat]
HeldOK   == handles \in [Procs -> Nat] /\ maps \in [Procs -> Nat] /\ left \in Nat
CreateOK == w \in Creates /\ writers \in Nat /\ creates \in 0 .. MaxCreates
OpenOK   == o \in Opens /\ opens \in 0 .. MaxOpens /\ reader \in Readers \cup {None}
FlagsOK  == cut \in BOOLEAN /\ overlapped \in BOOLEAN /\ resized \in BOOLEAN

TypeInv == ObjectOK /\ HeldOK /\ CreateOK /\ OpenOK /\ FlagsOK

\* NothingLeaks, for one Reader or one open at a time; a named object starts all zero.
HeldInv ==
    /\ SameRegion
    /\ NothingLeaks
    /\ o.pc # "idle" => reader = None
    /\ sink_backend = "named" /\ ~exists => hdr = ZeroHeader

\* The create under way has the size it asked for, or the object's, and room for an arena.
CreateInv ==
    /\ sink_backend = "posix" /\ w.pc = "map" => size = w.size
    /\ w.pc \in {"layout", "zero", "zeroed", "init"} =>
         /\ w.len = size
         /\ sink_backend = "posix" => w.len = w.size
    /\ w.pc \in {"zero", "zeroed", "init"} => ArenaOffset < w.len
    /\ w.pc = "truncate" => sink_backend = "posix"
    /\ w.pc = "measure" => sink_backend = "named"

\* The length of the mapping a header was written for.
Mapped(h) == ArenaOffset + h["arena_size"]

\* A header nobody is writing: none yet, or the words one create stored.
Intact(h, backend, n) ==
    \/ h = ZeroHeader
    \/ /\ h = Layout(h["total_size"], Mapped(h)) /\ h["arena_size"] > 0
       /\ backend = "posix" => Mapped(h) = h["total_size"]
       /\ backend = "named" => Mapped(h) = n

HeaderInv ==
    /\ ~cut /\ w.pc \notin {"zeroed", "init"} => Intact(hdr, sink_backend, size)
    /\ w.pc = "init" => \A x \in Words \ w.todo : hdr[x] = Layout(w.size, w.len)[x]
    /\ w.pc = "done" /\ exists =>
         /\ hdr = Layout(w.size, w.len) /\ size = w.len
         /\ sink_backend = "posix" => w.len = w.size

\* What an open that no create overlaps has loaded is still in the header.
LoadInv ==
    /\ o.pc # "idle" /\ ~overlapped => ~Creating /\ ~cut
    /\ o.pc = "load" /\ ~overlapped =>
         \A x \in Words \ {"arena_size"} : x \notin o.todo =>
             o.got[x] = hdr[x] /\ Accepts(x, hdr[x], o.len)

\* The length of the mapping is known: before it is made, except to the named back end.
Sized == o.pc = "load" \/ (o.pc \in {"map", "check"} /\ src_backend # "named")

\* Unless the file was resized since, the mapping has its length; a named object never is.
SizeInv ==
    /\ sink_backend = "named" => ~resized
    /\ ~resized => /\ Sized => o.len = size
                   /\ reader # None => reader.len = size

ReaderInv ==
    reader # None /\ ~overlapped =>
        /\ reader.ready = ReadyOffset /\ reader.recycle = RecycleOffset
        /\ reader.arena = ArenaOffset /\ ArenaOffset < reader.len
        /\ reader.capacities = 1
        /\ ~resized => Mapped(hdr) <= size

--------------------------------------------------------------------------------
(* Layout, handles and places. *)

LEMMA AlignUp ==
    ASSUME NEW v \in Nat, NEW a \in Nat \ {0}
    PROVE  align_up(v, a) \in Nat /\ v <= align_up(v, a)
<1>1. v % a \in 0 .. a - 1
  OBVIOUS
<1> QED
  BY <1>1 DEF align_up

\* The parts of the layout follow one another.
LEMMA LayoutInOrder ==
    /\ ReadyOffset \in Nat /\ RecycleOffset \in Nat /\ ArenaOffset \in Nat
    /\ HeaderPad <= ReadyOffset
    /\ ReadyOffset + ReadyCap * DescSize <= RecycleOffset
    /\ RecycleOffset + RecCap * DescSize <= ArenaOffset
<1> USE RegionAssumption
<1>1. /\ Page \in Nat \ {0} /\ DescSize \in Nat \ {0} /\ HeaderPad \in Nat
      /\ ReadyCap * DescSize \in Nat /\ RecCap * DescSize \in Nat
  OBVIOUS
<1>2. ReadyOffset \in Nat /\ HeaderPad <= ReadyOffset
  BY <1>1, AlignUp DEF ReadyOffset
<1>3. RecycleOffset \in Nat /\ ReadyOffset + ReadyCap * DescSize <= RecycleOffset
  <2>1. ReadyOffset + ReadyCap * DescSize \in Nat
    BY <1>1, <1>2
  <2> QED
    BY <1>1, <2>1, AlignUp DEF RecycleOffset
<1>4. ArenaOffset \in Nat /\ RecycleOffset + RecCap * DescSize <= ArenaOffset
  <2>1. RecycleOffset + RecCap * DescSize \in Nat
    BY <1>1, <1>3
  <2> QED
    BY <1>1, <2>1, AlignUp DEF ArenaOffset
<1> QED
  BY <1>2, <1>3, <1>4

\* A header is the words of the layout, and gives back what it was made from.
LEMMA LayoutWords ==
    ASSUME NEW asked \in Nat, NEW len \in Nat, ArenaOffset < len
    PROVE  /\ Layout(asked, len) \in [Words -> Nat]
           /\ Layout(asked, len)["magic"] = 1
           /\ Layout(asked, len)["total_size"] = asked
           /\ Layout(asked, len)["ready_offset"] = ReadyOffset
           /\ Layout(asked, len)["recycle_offset"] = RecycleOffset
           /\ Layout(asked, len)["arena_offset"] = ArenaOffset
           /\ Layout(asked, len)["capacities"] = 1
           /\ Layout(asked, len)["arena_size"] = len - ArenaOffset
           /\ len - ArenaOffset \in Nat /\ len - ArenaOffset > 0
           /\ Mapped(Layout(asked, len)) = len
<1>1. ReadyOffset \in Nat /\ RecycleOffset \in Nat /\ ArenaOffset \in Nat
      /\ len - ArenaOffset \in Nat /\ len - ArenaOffset > 0
  BY LayoutInOrder
<1>2. /\ Layout(asked, len)["magic"] = 1
      /\ Layout(asked, len)["total_size"] = asked
      /\ Layout(asked, len)["ready_offset"] = ReadyOffset
      /\ Layout(asked, len)["recycle_offset"] = RecycleOffset
      /\ Layout(asked, len)["arena_offset"] = ArenaOffset
      /\ Layout(asked, len)["capacities"] = 1
      /\ Layout(asked, len)["arena_size"] = len - ArenaOffset
  BY DEF Layout
<1>3. Layout(asked, len) \in [Words -> Nat]
  BY <1>1 DEF Layout, Words
<1>4. Mapped(Layout(asked, len)) = len
  BY <1>1, <1>2 DEF Mapped
<1> QED
  BY <1>1, <1>2, <1>3, <1>4

LEMMA LayoutIntact ==
    ASSUME NEW asked \in Nat, NEW len \in Nat, ArenaOffset < len, NEW backend,
           backend = "posix" => len = asked
    PROVE  Intact(Layout(asked, len), backend, len)
BY LayoutWords DEF Intact

LEMMA ErasedWords ==
    ASSUME NEW h \in [Words -> Nat], NEW e \in Erased(h)
    PROVE  e \in [Words -> Nat] /\ \A x \in Words : e[x] = h[x] \/ e[x] = 0
<1>1. PICK gone \in SUBSET Words : e = [x \in Words |-> IF x \in gone THEN 0 ELSE h[x]]
  BY DEF Erased
<1> QED
  BY <1>1

\* A named object goes with its last handle.
ObjectAfterClose ==
    \/ /\ sink_backend = "named" /\ handles["sink"] + handles["src"] = 1
       /\ exists' = FALSE /\ size' = 0 /\ hdr' = ZeroHeader
    \/ /\ ~(sink_backend = "named" /\ handles["sink"] + handles["src"] = 1)
       /\ exists' = exists /\ size' = size /\ hdr' = hdr

LEMMA CloseSteps ==
    ASSUME ObjectOK, HeldOK, NEW p \in Procs, NEW n \in {0, 1},
           handles[p] > 0, maps[p] >= n, Close(p, n)
    PROVE  /\ HeldOK' /\ ObjectOK' /\ left' = left
           /\ handles'[p] = handles[p] - 1 /\ maps'[p] = maps[p] - n
           /\ \A q \in Procs \ {p} : handles'[q] = handles[q] /\ maps'[q] = maps[q]
           /\ ObjectAfterClose
<1> USE DEF Close, HeldOK, ObjectOK
<1>1. handles[p] - 1 \in Nat /\ maps[p] - n \in Nat
  BY DEF Procs
<1>2. handles' \in [Procs -> Nat] /\ maps' \in [Procs -> Nat]
      /\ handles'[p] = handles[p] - 1 /\ maps'[p] = maps[p] - n
      /\ \A q \in Procs \ {p} : handles'[q] = handles[q] /\ maps'[q] = maps[q]
      /\ left' = left
  BY <1>1
<1>3. ObjectAfterClose
  BY DEF object, ObjectAfterClose
<1>4. ObjectOK'
  <2>1. ZeroHeader \in [Words -> Nat]
    BY DEF ZeroHeader
  <2>2. exists' \in BOOLEAN
    BY <1>3 DEF ObjectAfterClose
  <2> QED
    BY <1>3, <2>1, <2>2 DEF ObjectAfterClose
<1> QED
  BY <1>2, <1>3, <1>4

\* ... and, for each process, what that leaves of the other.
LEMMA SinkCloses ==
    ASSUME ObjectOK, HeldOK, NEW n \in {0, 1},
           handles["sink"] > 0, maps["sink"] >= n, Close("sink", n)
    PROVE  /\ HeldOK' /\ handles'["sink"] = handles["sink"] - 1 /\ maps'["sink"] = maps["sink"] - n
           /\ handles'["src"] = handles["src"] /\ maps'["src"] = maps["src"]
           /\ left' = left /\ ObjectAfterClose
<1>1. "sink" \in Procs /\ "src" \in Procs \ {"sink"}
  BY DEF Procs
<1> QED
  BY <1>1, CloseSteps

LEMMA SrcCloses ==
    ASSUME ObjectOK, HeldOK, NEW n \in {0, 1},
           handles["src"] > 0, maps["src"] >= n, Close("src", n)
    PROVE  /\ HeldOK' /\ handles'["src"] = handles["src"] - 1 /\ maps'["src"] = maps["src"] - n
           /\ handles'["sink"] = handles["sink"] /\ maps'["sink"] = maps["sink"]
           /\ left' = left /\ ObjectAfterClose
<1>1. "src" \in Procs /\ "sink" \in Procs \ {"src"}
  BY DEF Procs
<1> QED
  BY <1>1, CloseSteps

LEMMA OpenSteps ==
    ASSUME HeldOK, NEW p \in Procs, Open(p)
    PROVE  /\ HeldOK' /\ handles'[p] = handles[p] + 1 /\ UNCHANGED <<maps, left>>
           /\ \A q \in Procs \ {p} : handles'[q] = handles[q]
BY DEF HeldOK, Open

LEMMA MapSteps ==
    ASSUME HeldOK, NEW p \in Procs, Map(p)
    PROVE  /\ HeldOK' /\ maps'[p] = maps[p] + 1 /\ UNCHANGED <<handles, left>>
           /\ \A q \in Procs \ {p} : maps'[q] = maps[q]
BY DEF HeldOK, Map

\* Where each step takes the create ...
LEMMA CreatePlaces ==
    ASSUME TypeInv, RegionNext
    PROVE  /\ \A n \in Sizes : CreateCall(n) =>
                w' \in Creates /\ w'.pc = "open" /\ w'.size = n
           /\ CreateOpen => /\ w' \in Creates /\ w'.size = w.size
                            /\ w'.pc = IF sink_backend = "posix" THEN "truncate" ELSE "map"
           /\ CreateTruncate => w' \in Creates /\ w'.size = w.size /\ w'.pc = "map"
           /\ CreateMap => /\ w' \in Creates /\ w'.size = w.size
                           /\ \/ sink_backend = "named" /\ w'.pc = "measure"
                              \/ sink_backend # "named" /\ w'.pc = "layout" /\ w'.len = size
           /\ CreateMeasure => /\ w' \in Creates /\ w'.size = w.size /\ w'.pc = "layout"
                               /\ w'.len = size
           /\ CreateLayout => /\ w' \in Creates /\ w'.size = w.size /\ w'.len = w.len
                              /\ w'.pc = "zero"
           /\ CreateFail => w' \in Creates /\ w'.pc = "idle"
           /\ CreateZeroSome => /\ w' \in Creates /\ w'.size = w.size /\ w'.len = w.len
                                /\ w'.pc = "zeroed"
           /\ CreateZeroed => /\ w' \in Creates /\ w'.size = w.size /\ w'.len = w.len
                              /\ w'.pc = "init" /\ w'.todo = Words
           /\ CreateInit => /\ w' \in Creates /\ w'.size = w.size /\ w'.len = w.len
                            /\ w'.pc = "init" /\ w.pc = "init"
                            /\ \E x \in w.todo :
                                 /\ w'.todo = w.todo \ {x}
                                 /\ hdr' = [hdr EXCEPT ![x] = Layout(w.size, w.len)[x]]
           /\ CreateDone => /\ w' \in Creates /\ w'.size = w.size /\ w'.len = w.len
                            /\ w'.pc = "done"
<1> USE DEF TypeInv, CreateOK, Creates
<1>1. size \in Nat
  BY DEF ObjectOK
<1>2. ASSUME NEW n \in Sizes, CreateCall(n)
      PROVE  w' \in Creates /\ w'.pc = "open" /\ w'.size = n
  BY <1>2, RegionAssumption DEF CreateCall, NoCreate
<1>3. CreateOpen => /\ w' \in Creates /\ w'.size = w.size
                    /\ w'.pc = IF sink_backend = "posix" THEN "truncate" ELSE "map"
  BY DEF CreateOpen
<1>4. CreateTruncate => w' \in Creates /\ w'.size = w.size /\ w'.pc = "map"
  BY DEF CreateTruncate
<1>5. CreateMap => /\ w' \in Creates /\ w'.size = w.size
                   /\ \/ sink_backend = "named" /\ w'.pc = "measure"
                      \/ sink_backend # "named" /\ w'.pc = "layout" /\ w'.len = size
  BY <1>1 DEF CreateMap
<1>51. CreateMeasure =>
         w' \in Creates /\ w'.size = w.size /\ w'.pc = "layout" /\ w'.len = size
  BY <1>1 DEF CreateMeasure
<1>6. CreateLayout => /\ w' \in Creates /\ w'.size = w.size /\ w'.len = w.len /\ w'.pc = "zero"
  BY DEF CreateLayout
<1>7. CreateFail => w' \in Creates /\ w'.pc = "idle"
  BY DEF CreateFail, NoCreate
<1>8. CreateZeroSome => /\ w' \in Creates /\ w'.size = w.size /\ w'.len = w.len
                        /\ w'.pc = "zeroed"
  BY DEF CreateZeroSome
<1>9. CreateZeroed => /\ w' \in Creates /\ w'.size = w.size /\ w'.len = w.len
                      /\ w'.pc = "init" /\ w'.todo = Words
  BY DEF CreateZeroed
<1>10. ASSUME CreateInit
       PROVE  /\ w' \in Creates /\ w'.size = w.size /\ w'.len = w.len
              /\ w'.pc = "init" /\ w.pc = "init"
              /\ \E x \in w.todo :
                   /\ w'.todo = w.todo \ {x}
                   /\ hdr' = [hdr EXCEPT ![x] = Layout(w.size, w.len)[x]]
  <2>1. PICK x \in w.todo : /\ hdr' = [hdr EXCEPT ![x] = Layout(w.size, w.len)[x]]
                            /\ w' = [w EXCEPT !.todo = @ \ {x}]
    BY <1>10 DEF CreateInit
  <2>2. w.pc = "init"
    BY <1>10 DEF CreateInit
  <2>3. w' \in Creates /\ w'.size = w.size /\ w'.len = w.len /\ w'.pc = w.pc
        /\ w'.todo = w.todo \ {x}
    BY <2>1
  <2> QED
    BY <2>1, <2>2, <2>3
<1>11. CreateDone => /\ w' \in Creates /\ w'.size = w.size /\ w'.len = w.len /\ w'.pc = "done"
  BY DEF CreateDone
<1> QED
  BY <1>2, <1>3, <1>4, <1>5, <1>51, <1>6, <1>7, <1>8, <1>9, <1>10, <1>11

\* ... and the open.
LEMMA OpenPlaces ==
    ASSUME TypeInv, RegionNext
    PROVE  /\ OpenCall => o' \in Opens /\ o'.pc = "open"
           /\ OpenOpen => /\ o' \in Opens
                          /\ o'.pc = IF src_backend = "named" THEN "map" ELSE "stat"
           /\ OpenStat => /\ o' \in Opens /\ o'.pc = "map"
                          /\ o'.len = IF src_backend = "ivshmem" THEN DeviceSize ELSE size
           /\ OpenMap => /\ o' \in Opens /\ o'.len = o.len
                         /\ \/ /\ src_backend = "posix" /\ o'.pc = "load"
                               /\ o'.todo = Words \ {"arena_size"}
                            \/ src_backend # "posix" /\ o'.pc = "check"
           /\ OpenCheck => /\ o' \in Opens /\ o'.pc = "load"
                           /\ o'.len = IF src_backend = "named" THEN size ELSE o.len
                           /\ o'.todo = Words \ {"arena_size"}
           /\ OpenBadMap => o' \in Opens /\ o'.pc = "idle"
           /\ OpenLoad => /\ o' \in Opens /\ o'.pc = "load" /\ o'.len = o.len
                          /\ \E x \in o.todo :
                               /\ Accepts(x, hdr[x], o.len)
                               /\ o'.todo = o.todo \ {x}
                               /\ o'.got = [o.got EXCEPT ![x] = hdr[x]]
           /\ OpenDone => o' \in Opens /\ o'.pc = "idle"
           /\ OpenFail => o' \in Opens /\ o'.pc = "idle"
<1> USE DEF TypeInv, OpenOK, Opens
<1>1. size \in Nat /\ hdr \in [Words -> Nat] /\ DeviceSize \in Nat
  BY RegionAssumption DEF ObjectOK
<1>2. NoOpen \in Opens /\ NoOpen.pc = "idle"
  BY DEF NoOpen, ZeroHeader
<1>3. OpenCall => o' \in Opens /\ o'.pc = "open"
  BY <1>2 DEF OpenCall
<1>4. OpenOpen => o' \in Opens /\ o'.pc = IF src_backend = "named" THEN "map" ELSE "stat"
  BY DEF OpenOpen
<1>5. OpenStat => /\ o' \in Opens /\ o'.pc = "map"
                  /\ o'.len = IF src_backend = "ivshmem" THEN DeviceSize ELSE size
  BY <1>1 DEF OpenStat
<1>6. ASSUME OpenMap
      PROVE  /\ o' \in Opens /\ o'.len = o.len
             /\ \/ /\ src_backend = "posix" /\ o'.pc = "load"
                   /\ o'.todo = Words \ {"arena_size"}
                \/ src_backend # "posix" /\ o'.pc = "check"
  <2>1. CASE src_backend = "posix"
    <3>1. o' = [o EXCEPT !.pc = "load", !.len = o.len, !.todo = Words \ {"arena_size"}]
      BY <1>6, <2>1 DEF OpenMap, Loading
    <3> QED
      BY <2>1, <3>1
  <2>2. CASE src_backend # "posix"
    <3>1. o' = [o EXCEPT !.pc = "check"]
      BY <1>6, <2>2 DEF OpenMap
    <3> QED
      BY <2>2, <3>1
  <2> QED
    BY <2>1, <2>2
<1>61. OpenCheck => /\ o' \in Opens /\ o'.pc = "load"
                    /\ o'.len = IF src_backend = "named" THEN size ELSE o.len
                    /\ o'.todo = Words \ {"arena_size"}
  BY <1>1 DEF OpenCheck, Loading
<1>62. OpenBadMap => o' \in Opens /\ o'.pc = "idle"
  BY <1>2 DEF OpenBadMap
<1>7. ASSUME OpenLoad
      PROVE  /\ o' \in Opens /\ o'.pc = "load" /\ o'.len = o.len
             /\ \E x \in o.todo :
                  /\ Accepts(x, hdr[x], o.len)
                  /\ o'.todo = o.todo \ {x}
                  /\ o'.got = [o.got EXCEPT ![x] = hdr[x]]
  <2>1. PICK x \in o.todo : /\ Accepts(x, hdr[x], o.len)
                            /\ o' = [o EXCEPT !.todo = @ \ {x}, !.got[x] = hdr[x]]
    BY <1>7 DEF OpenLoad
  <2>2. o.pc = "load" /\ hdr[x] \in Nat
    BY <1>1, <1>7 DEF OpenLoad
  <2>3. o'.pc = o.pc /\ o'.len = o.len /\ o'.todo = o.todo \ {x}
        /\ o'.got = [o.got EXCEPT ![x] = hdr[x]]
    BY <2>1
  <2>4. o' \in Opens
    BY <2>1, <2>2
  <2> QED
    BY <2>1, <2>2, <2>3, <2>4
<1>8. OpenDone => o' \in Opens /\ o'.pc = "idle"
  BY <1>2 DEF OpenDone
<1>9. OpenFail => o' \in Opens /\ o'.pc = "idle"
  BY <1>2 DEF OpenFail
<1> QED
  BY <1>3, <1>4, <1>5, <1>6, <1>61, <1>62, <1>7, <1>8, <1>9

LEMMA OpenedReader ==
    ASSUME TypeInv, OpenDone
    PROVE  /\ reader' \in Readers /\ reader'.len = o.len
           /\ reader'.ready = o.got["ready_offset"]
           /\ reader'.recycle = o.got["recycle_offset"]
           /\ reader'.arena = o.got["arena_offset"]
           /\ reader'.capacities = o.got["capacities"]
<1>1. o.len \in Nat /\ o.got \in [Words -> Nat]
  BY DEF TypeInv, OpenOK, Opens
<1> QED
  BY <1>1 DEF OpenDone, Readers, Words

--------------------------------------------------------------------------------
(* Handles and views. *)

LEMMA BackendsKept == RegionNext => UNCHANGED where
BY DEF RegionNext, counts, CreateCall, CreateOpen, CreateTruncate, CreateMap, CreateMeasure,
       CreateLayout, CreateFail, CreateZeroSome, CreateZeroed, CreateInit, CreateDone,
       DropWriter, OpenCall, OpenOpen, OpenStat, OpenMap, OpenCheck, OpenBadMap, OpenLoad,
       OpenDone, OpenFail, DropReader

\* A process has the handle and the view it closes.
LEMMA HasHandle ==
    ASSUME TypeInv, HeldInv
    PROVE  /\ w.pc \in {"truncate", "map"} => handles["sink"] > 0 /\ maps["sink"] >= 0
           /\ w.pc \in {"measure", "layout"} => handles["sink"] > 0 /\ maps["sink"] >= 1
           /\ writers > 0 => handles["sink"] > 0 /\ maps["sink"] >= 1
           /\ o.pc \in {"stat", "map"} => handles["src"] > 0 /\ maps["src"] >= 0
           /\ o.pc \in {"check", "load"} => handles["src"] > 0 /\ maps["src"] >= 1
           /\ reader # None => handles["src"] > 0 /\ maps["src"] >= 1
<1>1. writers \in Nat /\ left \in Nat
  BY DEF TypeInv, CreateOK, HeldOK
<1> QED
  BY <1>1 DEF HeldInv, NothingLeaks, One, Creating

\* A failed create or open closes what it has opened; the rest is left alone.
LEMMA FailSteps ==
    ASSUME TypeInv, HeldInv
    PROVE  /\ CreateFail =>
                \/ w.pc = "open" /\ UNCHANGED <<exists, size, hdr, handles, maps, left>>
                \/ w.pc \in {"truncate", "map"} /\ Close("sink", 0)
                \/ w.pc \in {"measure", "layout"} /\ Close("sink", 1)
           /\ OpenFail =>
                \/ o.pc = "open" /\ UNCHANGED <<exists, size, hdr, handles, maps, left>>
                \/ o.pc \in {"stat", "map"} /\ Close("src", 0)
                \/ o.pc \in {"check", "load"} /\ Close("src", 1)
BY DEF CreateFail, OpenFail, object, held

LEMMA HeldStep == ASSUME TypeInv, HeldInv, RegionNext PROVE HeldOK' /\ HeldInv'
<1>0. /\ writers \in Nat /\ ObjectOK /\ HeldOK
      /\ handles["sink"] \in Nat /\ handles["src"] \in Nat
      /\ maps["sink"] \in Nat /\ maps["src"] \in Nat
      /\ "sink" \in Procs /\ "src" \in Procs
      /\ handles \in [Procs -> Nat] /\ maps \in [Procs -> Nat] /\ left \in Nat
  BY DEF TypeInv, CreateOK, HeldOK, Procs
<1>1. UNCHANGED <<sink_backend, src_backend>> /\ SameRegion'
  BY BackendsKept DEF where, SameRegion, HeldInv
<1> USE DEF HeldInv, NothingLeaks, One, Creating, ObjectAfterClose
<1>2. ASSUME NEW n \in Sizes, CreateCall(n)
      PROVE  HeldOK' /\ HeldInv'
  <2>1. w'.pc = "open" /\ w.pc \in {"idle", "done"}
        /\ UNCHANGED <<exists, hdr, handles, maps, left, writers, o, reader>>
    BY <1>2, CreatePlaces DEF CreateCall, object, held
  <2> QED
    BY <1>0, <1>1, <2>1 DEF HeldOK
<1>3. CASE CreateOpen
  <2>1. w'.pc \in {"truncate", "map"} /\ w.pc = "open" /\ exists' = TRUE
        /\ UNCHANGED <<writers, o, reader>>
    BY <1>3, CreatePlaces DEF CreateOpen
  <2>2. HeldOK' /\ handles'["sink"] = handles["sink"] + 1 /\ handles'["src"] = handles["src"]
        /\ UNCHANGED <<maps, left>>
    BY <1>0, <1>3, OpenSteps DEF CreateOpen
  <2> QED
    BY <1>0, <1>1, <2>1, <2>2
<1>4. CASE CreateTruncate \/ CreateLayout \/ CreateZeroSome \/ CreateZeroed
  <2>1. UNCHANGED <<exists, handles, maps, left, writers, o, reader>>
    BY <1>4 DEF CreateTruncate, CreateLayout, CreateZeroSome, CreateZeroed, object, held
  <2>2. \/ w.pc = "truncate" /\ w'.pc = "map"
        \/ w.pc \in {"layout", "zero", "zeroed"} /\ w'.pc \in {"zero", "zeroed", "init"}
    BY <1>4, CreatePlaces DEF CreateTruncate, CreateLayout, CreateZeroSome, CreateZeroed
  <2> QED
    BY <1>0, <1>1, <2>1, <2>2 DEF HeldOK
<1>5. CASE CreateMap
  <2>1. /\ w.pc = "map" /\ w'.pc \in {"measure", "layout"}
        /\ UNCHANGED <<exists, hdr, writers, o, reader>>
    BY <1>5, CreatePlaces DEF CreateMap, object
  <2>2. HeldOK' /\ maps'["sink"] = maps["sink"] + 1 /\ maps'["src"] = maps["src"]
        /\ UNCHANGED <<handles, left>>
    BY <1>0, <1>5, MapSteps DEF CreateMap
  <2> QED
    BY <1>0, <1>1, <2>1, <2>2
<1>51. CASE CreateMeasure
  <2>1. /\ w.pc = "measure" /\ w'.pc = "layout"
        /\ UNCHANGED <<exists, hdr, handles, maps, left, writers, o, reader>>
    BY <1>51, CreatePlaces DEF CreateMeasure, object, held
  <2> QED
    BY <1>0, <1>1, <2>1 DEF HeldOK
<1>6. CASE CreateFail
  <2>1. w'.pc = "idle" /\ UNCHANGED <<writers, o, reader>>
    BY <1>6, CreatePlaces DEF CreateFail
  <2>2. CASE w.pc = "open" /\ UNCHANGED <<exists, size, hdr, handles, maps, left>>
    BY <1>0, <1>1, <2>1, <2>2 DEF HeldOK
  <2>3. CASE w.pc \in {"truncate", "map"} /\ Close("sink", 0)
    <3>1. /\ HeldOK' /\ handles'["sink"] = handles["sink"] - 1 /\ maps'["sink"] = maps["sink"] - 0
          /\ handles'["src"] = handles["src"] /\ maps'["src"] = maps["src"]
          /\ left' = left /\ ObjectAfterClose
      <4>1. handles["sink"] > 0 /\ maps["sink"] >= 0 /\ 0 \in {0, 1}
        BY <2>3, HasHandle
      <4> QED
        BY <1>0, <2>3, <4>1, SinkCloses
    <3> QED
      BY <1>0, <1>1, <2>1, <2>3, <3>1
  <2>4. CASE w.pc \in {"measure", "layout"} /\ Close("sink", 1)
    <3>1. /\ HeldOK' /\ handles'["sink"] = handles["sink"] - 1 /\ maps'["sink"] = maps["sink"] - 1
          /\ handles'["src"] = handles["src"] /\ maps'["src"] = maps["src"]
          /\ left' = left /\ ObjectAfterClose
      <4>1. handles["sink"] > 0 /\ maps["sink"] >= 1 /\ 1 \in {0, 1}
        BY <2>4, HasHandle
      <4> QED
        BY <1>0, <2>4, <4>1, SinkCloses
    <3> QED
      BY <1>0, <1>1, <2>1, <2>4, <3>1
  <2> QED
    BY <1>6, <2>2, <2>3, <2>4, FailSteps
<1>7. CASE CreateInit
  <2>1. /\ UNCHANGED <<exists, handles, maps, left, writers, o, reader>>
        /\ w.pc = "init" /\ w'.pc = "init"
    BY <1>7, CreatePlaces DEF CreateInit, held
  <2> QED
    BY <1>0, <1>1, <2>1 DEF HeldOK
<1>8. CASE CreateDone
  <2>1. UNCHANGED <<exists, hdr, handles, maps, left, o, reader>> /\ writers' = writers + 1
        /\ w.pc = "init" /\ w'.pc = "done"
    BY <1>8, CreatePlaces DEF CreateDone, object, held
  <2> QED
    BY <1>0, <1>1, <2>1 DEF HeldOK
<1>9. CASE DropWriter
  <2>1. writers > 0 /\ writers' = writers - 1 /\ Close("sink", 1) /\ UNCHANGED <<w, o, reader>>
    BY <1>9 DEF DropWriter
  <2>2. /\ HeldOK' /\ handles'["sink"] = handles["sink"] - 1 /\ maps'["sink"] = maps["sink"] - 1
        /\ handles'["src"] = handles["src"] /\ maps'["src"] = maps["src"]
        /\ left' = left /\ ObjectAfterClose
    <3>1. handles["sink"] > 0 /\ maps["sink"] >= 1 /\ 1 \in {0, 1}
      BY <2>1, HasHandle
    <3> QED
      BY <1>0, <2>1, <3>1, SinkCloses
  <2> QED
    BY <1>0, <1>1, <2>1, <2>2
<1>10. CASE OpenCall
  <2>1. UNCHANGED <<exists, hdr, handles, maps, left, w, writers, reader>> /\ reader = None
        /\ o.pc = "idle" /\ o'.pc = "open"
    BY <1>10, OpenPlaces DEF OpenCall, object, held
  <2> QED
    BY <1>0, <1>1, <2>1 DEF HeldOK
<1>11. CASE OpenOpen
  <2>1. UNCHANGED <<exists, hdr, w, writers, reader>> /\ o.pc = "open"
        /\ o'.pc \in {"stat", "map"} /\ (exists \/ src_backend = "ivshmem")
    BY <1>11, OpenPlaces DEF OpenOpen, object
  <2>2. HeldOK' /\ handles'["src"] = handles["src"] + 1 /\ handles'["sink"] = handles["sink"]
        /\ UNCHANGED <<maps, left>>
    BY <1>0, <1>11, OpenSteps DEF OpenOpen
  <2>3. sink_backend = "named" => src_backend = "named"
    BY DEF SameRegion
  <2> QED
    BY <1>0, <1>1, <2>1, <2>2, <2>3
<1>12. CASE OpenStat \/ OpenCheck \/ OpenLoad
  <2>1. UNCHANGED <<exists, hdr, handles, maps, left, w, writers, reader>>
        /\ (\/ o.pc = "stat" /\ o'.pc = "map"
            \/ o.pc \in {"check", "load"} /\ o'.pc = "load")
    BY <1>12, OpenPlaces DEF OpenStat, OpenCheck, OpenLoad, object, held
  <2> QED
    BY <1>0, <1>1, <2>1 DEF HeldOK
<1>13. CASE OpenMap
  <2>1. /\ o.pc = "map" /\ o'.pc \in {"check", "load"}
        /\ UNCHANGED <<exists, hdr, w, writers, reader>>
    BY <1>13, OpenPlaces DEF OpenMap, object
  <2>2. HeldOK' /\ maps'["src"] = maps["src"] + 1 /\ maps'["sink"] = maps["sink"]
        /\ UNCHANGED <<handles, left>>
    BY <1>0, <1>13, MapSteps DEF OpenMap
  <2> QED
    BY <1>0, <1>1, <2>1, <2>2
<1>131. CASE OpenBadMap
  <2>1. /\ o.pc = "map" /\ o'.pc = "idle" /\ left' = left + 1
        /\ UNCHANGED <<exists, hdr, w, writers, reader>>
    BY <1>131, OpenPlaces DEF OpenBadMap, object
  <2>2. /\ handles'["src"] = handles["src"] - 1 /\ handles'["sink"] = handles["sink"]
        /\ maps'["src"] = maps["src"] + 1 /\ maps'["sink"] = maps["sink"]
    BY <1>0, <1>131 DEF OpenBadMap
  <2>3. HeldOK'
    <3>1. handles["src"] - 1 \in Nat
      BY <1>0, <2>1, HasHandle
    <3> QED
      BY <1>0, <1>131, <3>1 DEF HeldOK, OpenBadMap
  <2>4. sink_backend = "posix"
    BY <1>131 DEF OpenBadMap, SameRegion
  <2> QED
    BY <1>0, <1>1, <2>1, <2>2, <2>3, <2>4
<1>14. CASE OpenDone
  <2>1. /\ UNCHANGED <<exists, hdr, handles, maps, left, w, writers>>
        /\ o.pc = "load" /\ o'.pc = "idle"
    BY <1>14, OpenPlaces DEF OpenDone, object, held
  <2>2. reader' # None
    <3>1. reader' \in Readers
      BY <1>14, OpenedReader
    <3> QED
      BY <3>1, RegionAssumption
  <2> QED
    BY <1>0, <1>1, <2>1, <2>2 DEF HeldOK
<1>15. CASE OpenFail
  <2>1. o'.pc = "idle" /\ UNCHANGED <<w, writers, reader>>
    BY <1>15, OpenPlaces DEF OpenFail
  <2>2. CASE o.pc = "open" /\ UNCHANGED <<exists, size, hdr, handles, maps, left>>
    BY <1>0, <1>1, <2>1, <2>2 DEF HeldOK
  <2>3. CASE o.pc \in {"stat", "map"} /\ Close("src", 0)
    <3>1. /\ HeldOK' /\ handles'["src"] = handles["src"] - 1 /\ maps'["src"] = maps["src"] - 0
          /\ handles'["sink"] = handles["sink"] /\ maps'["sink"] = maps["sink"]
          /\ left' = left /\ ObjectAfterClose
      <4>1. handles["src"] > 0 /\ maps["src"] >= 0 /\ 0 \in {0, 1}
        BY <2>3, HasHandle
      <4> QED
        BY <1>0, <2>3, <4>1, SrcCloses
    <3> QED
      BY <1>0, <1>1, <2>1, <2>3, <3>1
  <2>4. CASE o.pc \in {"check", "load"} /\ Close("src", 1)
    <3>1. /\ HeldOK' /\ handles'["src"] = handles["src"] - 1 /\ maps'["src"] = maps["src"] - 1
          /\ handles'["sink"] = handles["sink"] /\ maps'["sink"] = maps["sink"]
          /\ left' = left /\ ObjectAfterClose
      <4>1. handles["src"] > 0 /\ maps["src"] >= 1 /\ 1 \in {0, 1}
        BY <2>4, HasHandle
      <4> QED
        BY <1>0, <2>4, <4>1, SrcCloses
    <3> QED
      BY <1>0, <1>1, <2>1, <2>4, <3>1
  <2> QED
    BY <1>15, <2>2, <2>3, <2>4, FailSteps
<1>16. CASE DropReader
  <2>1. reader # None /\ reader' = None /\ Close("src", 1) /\ UNCHANGED <<w, writers, o>>
    BY <1>16 DEF DropReader
  <2>2. /\ HeldOK' /\ handles'["src"] = handles["src"] - 1 /\ maps'["src"] = maps["src"] - 1
        /\ handles'["sink"] = handles["sink"] /\ maps'["sink"] = maps["sink"]
        /\ left' = left /\ ObjectAfterClose
    <3>1. handles["src"] > 0 /\ maps["src"] >= 1 /\ 1 \in {0, 1}
      BY <2>1, HasHandle
    <3> QED
      BY <1>0, <2>1, <3>1, SrcCloses
  <2> QED
    BY <1>0, <1>1, <2>1, <2>2
<1> QED
  BY <1>2, <1>3, <1>4, <1>5, <1>51, <1>6, <1>7, <1>8, <1>9, <1>10, <1>11, <1>12, <1>13, <1>131,
     <1>14, <1>15, <1>16 DEF RegionNext

--------------------------------------------------------------------------------
(* The object and the types. *)

LEMMA CreateTypeStep == ASSUME TypeInv, RegionNext PROVE CreateOK'
<1>0. w \in Creates /\ writers \in Nat /\ creates \in 0 .. MaxCreates
  BY DEF TypeInv, CreateOK
<1>1. w' \in Creates
  BY <1>0, CreatePlaces
     DEF RegionNext, DropWriter, OpenCall, OpenOpen, OpenStat, OpenMap, OpenCheck, OpenBadMap,
         OpenLoad, OpenDone, OpenFail, DropReader
<1>2. writers' \in Nat
  <2>1. writers' = writers \/ writers' = writers + 1 \/ (writers > 0 /\ writers' = writers - 1)
    BY DEF RegionNext, CreateCall, CreateOpen, CreateTruncate, CreateMap, CreateMeasure,
           CreateLayout, CreateFail, CreateZeroSome, CreateZeroed, CreateInit, CreateDone,
           DropWriter, OpenCall, OpenOpen, OpenStat, OpenMap, OpenCheck, OpenBadMap, OpenLoad,
           OpenDone, OpenFail, DropReader
  <2> QED
    BY <1>0, <2>1
<1>3. creates' \in 0 .. MaxCreates
  <2>1. creates' = creates \/ (creates < MaxCreates /\ creates' = creates + 1)
    BY DEF RegionNext, counts, CreateCall, CreateOpen, CreateTruncate, CreateMap,
           CreateMeasure, CreateLayout, CreateFail, CreateZeroSome, CreateZeroed, CreateInit,
           CreateDone, DropWriter, OpenCall, OpenOpen, OpenStat, OpenMap, OpenCheck,
           OpenBadMap, OpenLoad, OpenDone, OpenFail, DropReader
  <2> QED
    BY <1>0, <2>1, RegionAssumption
<1> QED
  BY <1>1, <1>2, <1>3 DEF CreateOK

Closing == CreateFail \/ DropWriter \/ OpenFail \/ DropReader

\* A close leaves the object alone, or it was the last and nobody maps or opens it.
LEMMA ClosingStep ==
    ASSUME TypeInv, HeldInv, RegionNext, Closing
    PROVE  /\ ObjectOK'
           /\ \/ exists' = exists /\ size' = size /\ hdr' = hdr
              \/ /\ sink_backend = "named"
                 /\ exists' = FALSE /\ size' = 0 /\ hdr' = ZeroHeader
                 /\ w'.pc \in {"idle", "open", "done"}
                 /\ o'.pc \in {"idle", "open"} /\ reader' = None
<1>0. ObjectOK /\ HeldOK /\ "sink" \in Procs /\ "src" \in Procs
  BY DEF TypeInv, Procs
<1>1. \/ UNCHANGED <<exists, size, hdr>>
      \/ ObjectOK' /\ ObjectAfterClose
  BY <1>0, HasHandle, FailSteps, CloseSteps DEF Closing, DropWriter, DropReader
<1>2. ObjectOK'
  BY <1>0, <1>1 DEF ObjectOK
<1>3. CASE ~(exists' = exists /\ size' = size /\ hdr' = hdr)
  <2>1. sink_backend = "named" /\ exists' = FALSE /\ size' = 0 /\ hdr' = ZeroHeader
    BY <1>1, <1>3 DEF ObjectAfterClose
  <2>2. HeldOK' /\ HeldInv' /\ w' \in Creates /\ o' \in Opens /\ sink_backend' = sink_backend
    <3>1. w' \in Creates /\ o' \in Opens
      BY CreatePlaces, OpenPlaces
         DEF Closing, DropWriter, DropReader, CreateFail, OpenFail, TypeInv, CreateOK, OpenOK
    <3> QED
      BY <3>1, HeldStep, BackendsKept DEF where
  <2>3. writers' \in Nat
    BY CreateTypeStep DEF CreateOK
  <2>4. handles'["sink"] = 0 /\ handles'["src"] = 0
    BY <2>1, <2>2, <1>0 DEF HeldInv, NothingLeaks, HeldOK
  <2>5. w'.pc \in {"idle", "open", "done"} /\ o'.pc \in {"idle", "open"} /\ reader' = None
    BY <2>2, <2>3, <2>4 DEF HeldInv, NothingLeaks, One, Creating, Creates, Opens
  <2> QED
    BY <1>2, <2>1, <2>5
<1> QED
  BY <1>2, <1>3

LEMMA ObjectStep ==
    ASSUME TypeInv, HeldInv, CreateInv, RegionNext PROVE ObjectOK'
<1> USE DEF TypeInv, ObjectOK
<1>0. w.size \in Nat /\ w.len \in Nat /\ ZeroHeader \in [Words -> Nat]
  BY DEF CreateOK, Creates, ZeroHeader
<1>1. CASE UNCHANGED object
  BY <1>1 DEF object
<1>2. CASE CreateOpen
  <2>1. align_up(w.size, Page) \in Nat
    BY <1>0, AlignUp, RegionAssumption
  <2> QED
    BY <1>2, <2>1 DEF CreateOpen
<1>3. CASE CreateTruncate
  <2>1. hdr' \in Erased(hdr) \/ hdr' = hdr
    BY <1>3 DEF CreateTruncate
  <2> QED
    BY <1>0, <1>3, <2>1, ErasedWords DEF CreateTruncate
<1>4. CASE CreateZeroSome \/ CreateZeroed
  BY <1>0, <1>4, ErasedWords DEF CreateZeroSome, CreateZeroed
<1>5. CASE CreateInit
  <2>1. PICK x \in w.todo : hdr' = [hdr EXCEPT ![x] = Layout(w.size, w.len)[x]]
    BY <1>5, CreatePlaces
  <2>2. Layout(w.size, w.len) \in [Words -> Nat] /\ x \in Words
    BY <1>0, <1>5, LayoutWords DEF CreateInv, CreateInit, CreateOK, Creates
  <2> QED
    BY <1>5, <2>1, <2>2 DEF CreateInit
<1>6. CASE Closing
  BY <1>6, ClosingStep
<1> QED
  BY <1>1, <1>2, <1>3, <1>4, <1>5, <1>6
     DEF RegionNext, Closing, CreateCall, CreateMap, CreateMeasure, CreateLayout, CreateDone,
         OpenCall, OpenOpen, OpenStat, OpenMap, OpenCheck, OpenBadMap, OpenLoad, OpenDone,
         object

LEMMA OpenTypeStep == ASSUME TypeInv, RegionNext PROVE OpenOK'
<1>0. o \in Opens /\ opens \in 0 .. MaxOpens /\ reader \in Readers \cup {None}
  BY DEF TypeInv, OpenOK
<1>1. o' \in Opens
  BY <1>0, OpenPlaces
     DEF RegionNext, CreateCall, CreateOpen, CreateTruncate, CreateMap, CreateMeasure,
         CreateLayout, CreateFail, CreateZeroSome, CreateZeroed, CreateInit, CreateDone,
         DropWriter, DropReader
<1>2. reader' \in Readers \cup {None}
  BY <1>0, OpenedReader
     DEF RegionNext, CreateCall, CreateOpen, CreateTruncate, CreateMap, CreateMeasure,
         CreateLayout, CreateFail, CreateZeroSome, CreateZeroed, CreateInit, CreateDone,
         DropWriter, OpenCall, OpenOpen, OpenStat, OpenMap, OpenCheck, OpenBadMap, OpenLoad,
         OpenFail, DropReader
<1>3. opens' \in 0 .. MaxOpens
  <2>1. opens' = opens \/ (opens < MaxOpens /\ opens' = opens + 1)
    BY DEF RegionNext, counts, CreateCall, CreateOpen, CreateTruncate, CreateMap,
           CreateMeasure, CreateLayout, CreateFail, CreateZeroSome, CreateZeroed, CreateInit,
           CreateDone, DropWriter, OpenCall, OpenOpen, OpenStat, OpenMap, OpenCheck,
           OpenBadMap, OpenLoad, OpenDone, OpenFail, DropReader
  <2> QED
    BY <1>0, <2>1, RegionAssumption
<1> QED
  BY <1>1, <1>2, <1>3 DEF OpenOK

LEMMA FlagsStep == ASSUME TypeInv, RegionNext PROVE FlagsOK'
<1>0. cut \in BOOLEAN /\ overlapped \in BOOLEAN /\ resized \in BOOLEAN
  BY DEF TypeInv, FlagsOK
<1>1. cut' \in BOOLEAN
  <2>1. cut' = cut \/ cut' = (cut \/ w.size < HeaderPad) \/ cut' = FALSE
    BY DEF RegionNext, CreateCall, CreateOpen, CreateTruncate, CreateMap, CreateMeasure,
           CreateLayout, CreateFail, CreateZeroSome, CreateZeroed, CreateInit, CreateDone,
           DropWriter, OpenCall, OpenOpen, OpenStat, OpenMap, OpenCheck, OpenBadMap, OpenLoad,
           OpenDone, OpenFail, DropReader
  <2> QED
    BY <1>0, <2>1
<1>2. overlapped' \in BOOLEAN
  <2>1. \/ overlapped' = overlapped \/ overlapped' = (overlapped \/ o.pc # "idle")
        \/ overlapped' = (Creating \/ cut)
    BY DEF RegionNext, CreateCall, CreateOpen, CreateTruncate, CreateMap, CreateMeasure,
           CreateLayout, CreateFail, CreateZeroSome, CreateZeroed, CreateInit, CreateDone,
           DropWriter, OpenCall, OpenOpen, OpenStat, OpenMap, OpenCheck, OpenBadMap, OpenLoad,
           OpenDone, OpenFail, DropReader
  <2>2. Creating \in BOOLEAN
    BY DEF Creating
  <2> QED
    BY <1>0, <2>1, <2>2
<1>3. resized' \in BOOLEAN
  <2>1. \/ resized' = resized \/ resized' = (resized \/ size # w.size)
        \/ resized' = (src_backend = "ivshmem" /\ size # DeviceSize)
    BY DEF RegionNext, CreateCall, CreateOpen, CreateTruncate, CreateMap, CreateMeasure,
           CreateLayout, CreateFail, CreateZeroSome, CreateZeroed, CreateInit, CreateDone,
           DropWriter, OpenCall, OpenOpen, OpenStat, OpenMap, OpenCheck, OpenBadMap, OpenLoad,
           OpenDone, OpenFail, DropReader
  <2> QED
    BY <1>0, <2>1
<1> QED
  BY <1>1, <1>2, <1>3 DEF FlagsOK

LEMMA TypeStep ==
    ASSUME TypeInv, HeldInv, CreateInv, RegionNext PROVE TypeInv'
BY ObjectStep, HeldStep, CreateTypeStep, OpenTypeStep, FlagsStep DEF TypeInv

--------------------------------------------------------------------------------
(* The create, the header and the open. *)

\* A step of the Reader's process that closes nothing leaves the Writer and the object.
Opening == OpenCall \/ OpenOpen \/ OpenStat \/ OpenMap \/ OpenCheck \/ OpenBadMap \/ OpenLoad
           \/ OpenDone

LEMMA OpeningFrame == Opening => UNCHANGED <<exists, size, hdr, w, writers, cut>>
BY DEF Opening, OpenCall, OpenOpen, OpenStat, OpenMap, OpenCheck, OpenBadMap, OpenLoad,
       OpenDone, object

LEMMA CreateInvStep ==
    ASSUME TypeInv, HeldInv, CreateInv, RegionNext PROVE CreateInv'
<1>0. /\ sink_backend' = sink_backend /\ size \in Nat
      /\ w \in Creates /\ w.len \in Nat /\ w.size \in Nat
  BY BackendsKept DEF where, TypeInv, ObjectOK, CreateOK, Creates
<1> USE DEF CreateInv
<1>1. CASE \E n \in Sizes : CreateCall(n)
  BY <1>1, CreatePlaces
<1>2. CASE CreateOpen
  BY <1>0, <1>2, CreatePlaces DEF CreateOpen
<1>3. CASE CreateTruncate
  <2>1. w.pc = "truncate" /\ size' = w.size /\ w'.size = w.size /\ w'.pc = "map"
    BY <1>3, CreatePlaces DEF CreateTruncate
  <2> QED
    BY <2>1
<1>4. CASE CreateMap
  <2>1. w.pc = "map" /\ size' = size /\ w'.size = w.size
    BY <1>4, CreatePlaces DEF CreateMap, object
  <2>2. \/ sink_backend = "named" /\ w'.pc = "measure"
        \/ sink_backend # "named" /\ w'.pc = "layout" /\ w'.len = size
    BY <1>4, CreatePlaces
  <2> QED
    BY <1>0, <2>1, <2>2
<1>41. CASE CreateMeasure
  <2>1. /\ w.pc = "measure" /\ size' = size /\ w'.size = w.size /\ w'.len = size
        /\ w'.pc = "layout"
    BY <1>41, CreatePlaces DEF CreateMeasure, object
  <2> QED
    BY <1>0, <2>1
<1>5. CASE CreateLayout
  <2>1. /\ w.pc = "layout" /\ size' = size /\ w'.size = w.size /\ w'.len = w.len /\ w'.pc = "zero"
        /\ ArenaOffset < w.len
    BY <1>5, CreatePlaces DEF CreateLayout, object
  <2> QED
    BY <1>0, <2>1
<1>6. CASE CreateZeroSome \/ CreateZeroed \/ CreateInit
  <2>1. /\ w.pc \in {"zero", "zeroed", "init"} /\ w'.pc \in {"zeroed", "init"}
        /\ size' = size /\ w'.size = w.size /\ w'.len = w.len
    BY <1>6, CreatePlaces DEF CreateZeroSome, CreateZeroed, CreateInit
  <2> QED
    BY <1>0, <2>1
<1>7. CASE CreateDone \/ CreateFail
  BY <1>7, CreatePlaces
<1>8. CASE DropWriter \/ OpenFail \/ DropReader
  <2>1. w' = w
    BY <1>8 DEF DropWriter, OpenFail, DropReader
  <2>2. size' = size \/ w'.pc \in {"idle", "open", "done"}
    BY <1>8, ClosingStep DEF Closing
  <2> QED
    BY <1>0, <2>1, <2>2
<1>9. CASE Opening
  BY <1>0, <1>9, OpeningFrame
<1> QED
  BY <1>1, <1>2, <1>3, <1>4, <1>41, <1>5, <1>6, <1>7, <1>8, <1>9 DEF RegionNext, Opening

LEMMA HeaderStep ==
    ASSUME TypeInv, HeldInv, CreateInv, HeaderInv, RegionNext PROVE HeaderInv'
<1>0. /\ sink_backend' = sink_backend /\ size \in Nat /\ hdr \in [Words -> Nat]
      /\ w \in Creates /\ w.len \in Nat /\ w.size \in Nat /\ w.todo \in SUBSET Words
      /\ cut \in BOOLEAN
  BY BackendsKept DEF where, TypeInv, ObjectOK, CreateOK, Creates, FlagsOK
<1> USE DEF HeaderInv
<1>1. CASE \E n \in Sizes : CreateCall(n)
  <2>1. w'.pc = "open" /\ w.pc \in {"idle", "done"} /\ UNCHANGED <<size, hdr, cut>>
    BY <1>1, CreatePlaces DEF CreateCall, object, Creating, Creates
  <2> QED
    BY <1>0, <2>1
<1>2. CASE CreateOpen
  <2>1. /\ w.pc = "open" /\ w'.pc \in {"truncate", "map"} /\ UNCHANGED <<hdr, cut>>
        /\ size' = size \/ (sink_backend = "named" /\ ~exists)
    BY <1>2, CreatePlaces DEF CreateOpen
  <2>2. sink_backend = "named" /\ ~exists => hdr = ZeroHeader
    BY DEF HeldInv
  <2> QED
    BY <1>0, <2>1, <2>2 DEF Intact
<1>3. CASE CreateTruncate
  <2>1. /\ w.pc = "truncate" /\ w'.pc = "map"
        /\ cut' = (cut \/ w.size < HeaderPad) /\ (~cut' => hdr' = hdr)
    BY <1>3, CreatePlaces DEF CreateTruncate
  <2>2. sink_backend = "posix"
    BY <2>1 DEF CreateInv
  <2> QED
    BY <1>0, <2>1, <2>2 DEF Intact
<1>4. CASE CreateMap \/ CreateMeasure \/ CreateLayout
  <2>1. /\ w.pc \in {"map", "measure", "layout"} /\ w'.pc \in {"measure", "layout", "zero"}
        /\ UNCHANGED <<size, hdr, cut>>
    BY <1>4, CreatePlaces DEF CreateMap, CreateMeasure, CreateLayout, object
  <2> QED
    BY <1>0, <2>1
<1>5. CASE CreateZeroSome \/ CreateZeroed
  <2>1. w'.pc = "zeroed" \/ (w'.pc = "init" /\ w'.todo = Words)
    BY <1>5, CreatePlaces
  <2> QED
    BY <2>1
<1>6. CASE CreateInit
  <2>1. PICK x \in w.todo : /\ w'.todo = w.todo \ {x}
                            /\ hdr' = [hdr EXCEPT ![x] = Layout(w.size, w.len)[x]]
    BY <1>6, CreatePlaces
  <2>2. w.pc = "init" /\ w'.pc = "init" /\ w'.size = w.size /\ w'.len = w.len
    BY <1>6, CreatePlaces
  <2> QED
    BY <1>0, <2>1, <2>2
<1>7. CASE CreateDone
  <2>1. /\ w.pc = "init" /\ w.todo = {} /\ w'.pc = "done" /\ w'.size = w.size /\ w'.len = w.len
        /\ UNCHANGED <<exists, size, hdr>>
    BY <1>7, CreatePlaces DEF CreateDone, object
  <2>2. /\ ArenaOffset < w.len /\ w.len = size
        /\ sink_backend = "posix" => w.len = w.size
    BY <2>1 DEF CreateInv
  <2>3. hdr = Layout(w.size, w.len)
    <3>1. Layout(w.size, w.len) \in [Words -> Nat]
      BY <1>0, <2>2, LayoutWords
    <3>2. \A x \in Words : hdr[x] = Layout(w.size, w.len)[x]
      BY <2>1
    <3> QED
      BY <1>0, <3>1, <3>2
  <2>4. Intact(hdr, sink_backend, size)
    BY <1>0, <2>2, <2>3, LayoutIntact
  <2> QED
    BY <1>0, <2>1, <2>2, <2>3, <2>4
<1>8. CASE Closing
  <2>1. /\ cut' = cut
        /\ w' = w \/ (w'.pc = "idle" /\ w.pc \in {"open", "truncate", "map", "measure", "layout"})
    BY <1>8, CreatePlaces DEF Closing, DropWriter, OpenFail, DropReader, CreateFail
  <2>2. CASE exists' = exists /\ size' = size /\ hdr' = hdr
    BY <1>0, <2>1, <2>2
  <2>3. CASE /\ exists' = FALSE /\ hdr' = ZeroHeader /\ w'.pc \in {"idle", "open", "done"}
    BY <2>3 DEF Intact
  <2> QED
    BY <1>8, <2>2, <2>3, ClosingStep
<1>9. CASE Opening
  BY <1>0, <1>9, OpeningFrame
<1> QED
  BY <1>1, <1>2, <1>3, <1>4, <1>5, <1>6, <1>7, <1>8, <1>9 DEF RegionNext, Opening, Closing

\* The steps of a create, between its call and its end.
InCreate == CreateOpen \/ CreateTruncate \/ CreateMap \/ CreateMeasure \/ CreateLayout
            \/ CreateFail \/ CreateZeroSome \/ CreateZeroed \/ CreateInit \/ CreateDone

LEMMA InCreateFrame ==
    InCreate => Creating /\ UNCHANGED <<o, reader, overlapped>>
BY DEF InCreate, Creating, CreateOpen, CreateTruncate, CreateMap, CreateMeasure, CreateLayout,
       CreateFail, CreateZeroSome, CreateZeroed, CreateInit, CreateDone

LEMMA LoadStep ==
    ASSUME TypeInv, HeldInv, LoadInv, RegionNext PROVE LoadInv'
<1>0. o \in Opens /\ o.got \in [Words -> Nat] /\ o.todo \in SUBSET Words /\ hdr \in [Words -> Nat]
  BY DEF TypeInv, OpenOK, Opens, ObjectOK
<1> USE DEF LoadInv
<1>1. CASE \E n \in Sizes : CreateCall(n)
  BY <1>1 DEF CreateCall
<1>2. CASE InCreate
  BY <1>2, InCreateFrame
<1>3. CASE DropWriter
  <2>1. UNCHANGED <<w, o, cut, overlapped>>
    BY <1>3 DEF DropWriter
  <2>2. hdr' = hdr \/ o'.pc \in {"idle", "open"}
    BY <1>3, ClosingStep DEF Closing
  <2> QED
    BY <2>1, <2>2 DEF Creating
<1>4. CASE OpenCall
  BY <1>4, OpenPlaces, OpeningFrame DEF OpenCall, Opening, Creating
<1>5. CASE OpenOpen \/ OpenStat \/ OpenMap \/ OpenCheck
  <2>1. o.pc \in {"open", "stat", "map", "check"} /\ overlapped' = overlapped
    BY <1>5 DEF OpenOpen, OpenStat, OpenMap, OpenCheck
  <2>2. \/ o'.pc \in {"stat", "map", "check"}
        \/ o'.pc = "load" /\ o'.todo = Words \ {"arena_size"}
    BY <1>5, OpenPlaces
  <2> QED
    BY <1>5, <2>1, <2>2, OpeningFrame DEF Opening, Creating
<1>6. CASE OpenLoad
  <2>1. PICK x \in o.todo : /\ Accepts(x, hdr[x], o.len)
                            /\ o'.todo = o.todo \ {x}
                            /\ o'.got = [o.got EXCEPT ![x] = hdr[x]]
    BY <1>6, OpenPlaces
  <2>2. /\ o.pc = "load" /\ o'.pc = "load" /\ o'.len = o.len /\ overlapped' = overlapped
        /\ UNCHANGED <<hdr, w, cut>>
    BY <1>6, OpenPlaces, OpeningFrame DEF OpenLoad, Opening
  <2>3. ASSUME ~overlapped, NEW y \in Words \ {"arena_size"}, y \notin o'.todo
        PROVE  o'.got[y] = hdr[y] /\ Accepts(y, hdr[y], o.len)
    BY <1>0, <2>1, <2>2, <2>3
  <2> QED
    BY <2>2, <2>3 DEF Creating
<1>7. CASE OpenDone \/ OpenFail \/ OpenBadMap
  BY <1>7, OpenPlaces
<1>8. CASE DropReader
  <2>1. o' = o /\ o.pc = "idle"
    BY <1>0, <1>8 DEF DropReader, HeldInv
  <2> QED
    BY <2>1
<1> QED
  BY <1>1, <1>2, <1>3, <1>4, <1>5, <1>6, <1>7, <1>8 DEF RegionNext, InCreate

\* A named object that the source has open is there.
LEMMA SourceHolds ==
    ASSUME TypeInv, HeldInv, sink_backend = "named",
           o.pc \in {"stat", "map", "check", "load"} \/ reader # None
    PROVE  exists
<1>1. writers \in Nat
  BY DEF TypeInv, CreateOK
<1> QED
  BY <1>1 DEF HeldInv, NothingLeaks, One

LEMMA SizeStep ==
    ASSUME TypeInv, HeldInv, CreateInv, SizeInv, RegionNext PROVE SizeInv'
<1>0. o \in Opens /\ size \in Nat /\ resized \in BOOLEAN
      /\ sink_backend' = sink_backend /\ src_backend' = src_backend
  BY BackendsKept DEF where, TypeInv, OpenOK, ObjectOK, FlagsOK
<1> USE DEF SizeInv, Sized
<1>1. CASE UNCHANGED <<size, o, reader, resized>>
  BY <1>0, <1>1
<1>2. CASE CreateOpen
  <2>1. UNCHANGED <<o, reader, resized>> /\ (size' = size \/ (sink_backend = "named" /\ ~exists))
    BY <1>2 DEF CreateOpen
  <2> QED
    BY <1>0, <2>1, SourceHolds
<1>3. CASE CreateTruncate
  <2>1. UNCHANGED <<o, reader>> /\ size' = w.size /\ resized' = (resized \/ size # w.size)
        /\ w.pc = "truncate"
    BY <1>3 DEF CreateTruncate
  <2>2. sink_backend = "posix"
    BY <2>1 DEF CreateInv
  <2> QED
    BY <1>0, <2>1, <2>2
<1>4. CASE Closing
  <2>1. resized' = resized
        /\ (o' = o \/ o'.pc = "idle") /\ (reader' = reader \/ reader' = None)
    BY <1>4, OpenPlaces DEF Closing, CreateFail, DropWriter, OpenFail, DropReader
  <2>2. size' = size \/ (o'.pc \in {"idle", "open"} /\ reader' = None)
    BY <1>4, ClosingStep
  <2> QED
    BY <1>0, <2>1, <2>2
<1>5. CASE OpenCall \/ OpenOpen
  <2>1. /\ UNCHANGED <<size, reader, resized>>
        /\ o'.pc \in {"open", "stat"} \/ (o'.pc = "map" /\ src_backend = "named")
    BY <1>5, OpenPlaces DEF OpenCall, OpenOpen, object
  <2> QED
    BY <1>0, <2>1
<1>6. CASE OpenStat
  <2>1. /\ reader' = reader /\ o.pc = "stat" /\ size' = size /\ o'.pc = "map"
        /\ o'.len = IF src_backend = "ivshmem" THEN DeviceSize ELSE size
        /\ resized' = (src_backend = "ivshmem" /\ size # DeviceSize)
    BY <1>6, OpenPlaces DEF OpenStat, object
  <2>2. reader = None /\ (sink_backend = "named" => src_backend = "named")
    BY <2>1 DEF HeldInv, SameRegion
  <2> QED
    BY <1>0, <2>1, <2>2
<1>7. CASE OpenMap \/ OpenLoad
  <2>1. /\ UNCHANGED <<size, reader, resized>> /\ o'.len = o.len
        /\ \/ o.pc = "map" /\ (o'.pc = "check" \/ (o'.pc = "load" /\ src_backend = "posix"))
           \/ o.pc = "load"
    BY <1>7, OpenPlaces DEF OpenMap, OpenLoad, object
  <2> QED
    BY <1>0, <2>1
<1>71. CASE OpenCheck
  <2>1. /\ UNCHANGED <<size, reader, resized>> /\ o.pc = "check"
        /\ o'.len = IF src_backend = "named" THEN size ELSE o.len
    BY <1>71, OpenPlaces DEF OpenCheck, object
  <2> QED
    BY <1>0, <2>1
<1>72. CASE OpenBadMap
  <2>1. UNCHANGED <<size, reader, resized>> /\ o'.pc = "idle"
    BY <1>72, OpenPlaces DEF OpenBadMap, object
  <2> QED
    BY <1>0, <2>1
<1>8. CASE OpenDone
  <2>1. UNCHANGED <<size, resized>> /\ o.pc = "load" /\ o'.pc = "idle" /\ reader'.len = o.len
    BY <1>8, OpenPlaces, OpenedReader DEF OpenDone, object
  <2> QED
    BY <1>0, <2>1
<1> QED
  BY <1>1, <1>2, <1>3, <1>4, <1>5, <1>6, <1>7, <1>71, <1>72, <1>8
     DEF RegionNext, Closing, CreateCall, CreateMap, CreateMeasure, CreateLayout,
         CreateZeroSome, CreateZeroed, CreateInit, CreateDone, object

LEMMA ReaderStep ==
    ASSUME TypeInv, HeldInv, CreateInv, HeaderInv, LoadInv, SizeInv, ReaderInv, RegionNext
    PROVE  ReaderInv'
<1>0. /\ o \in Opens /\ size \in Nat /\ resized \in BOOLEAN /\ overlapped \in BOOLEAN
      /\ hdr \in [Words -> Nat] /\ hdr["arena_size"] \in Nat /\ ArenaOffset \in Nat
      /\ w.len \in Nat /\ w.size \in Nat /\ "arena_size" \in Words
  BY LayoutInOrder
     DEF TypeInv, OpenOK, ObjectOK, FlagsOK, CreateOK, Creates, Words
<1>1. ASSUME UNCHANGED <<reader, overlapped, resized>>, size' = size,
             hdr'["arena_size"] = hdr["arena_size"]
      PROVE  ReaderInv'
  BY <1>1 DEF ReaderInv, Mapped
<1>2. ASSUME UNCHANGED <<reader, overlapped>>, resized' = (resized \/ size' # size),
             hdr'["arena_size"] \in {hdr["arena_size"], 0}
      PROVE  ReaderInv'
  <2>1. ASSUME reader # None, ~overlapped, ~resized'
        PROVE  Mapped(hdr') <= size'
    <3>1. ~resized /\ size' = size
      BY <1>2, <2>1
    <3>2. Mapped(hdr) <= size /\ ArenaOffset < reader.len /\ reader.len = size
      BY <2>1, <3>1 DEF ReaderInv, SizeInv
    <3> QED
      BY <1>0, <1>2, <3>1, <3>2 DEF Mapped
  <2> QED
    BY <1>2, <2>1 DEF ReaderInv
<1>3. CASE \E n \in Sizes : CreateCall(n)
  <2>1. UNCHANGED <<reader, resized, size, hdr>> /\ (~overlapped' => ~overlapped)
    BY <1>3 DEF CreateCall, object
  <2> QED
    BY <2>1 DEF ReaderInv
<1>4. CASE CreateOpen
  <2>1. UNCHANGED <<reader, overlapped, resized, hdr>>
        /\ (size' = size \/ (sink_backend = "named" /\ ~exists))
    BY <1>4 DEF CreateOpen
  <2>2. reader # None => size' = size
    BY <2>1, SourceHolds
  <2> QED
    BY <2>1, <2>2 DEF ReaderInv
<1>5. CASE CreateTruncate
  <2>1. /\ UNCHANGED <<reader, overlapped>> /\ resized' = (resized \/ size' # size)
        /\ hdr' \in Erased(hdr) \/ hdr' = hdr
    BY <1>5 DEF CreateTruncate
  <2> QED
    BY <1>0, <1>2, <2>1, ErasedWords
<1>6. CASE CreateZeroSome \/ CreateZeroed
  <2>1. /\ UNCHANGED <<reader, overlapped, resized>> /\ size' = size
        /\ hdr' \in Erased(hdr) \/ hdr' = ZeroHeader
    BY <1>6 DEF CreateZeroSome, CreateZeroed
  <2>2. hdr'["arena_size"] \in {hdr["arena_size"], 0}
    BY <1>0, <2>1, ErasedWords DEF ZeroHeader
  <2>3. resized' = (resized \/ size' # size)
    BY <1>0, <2>1
  <2> QED
    BY <1>2, <2>1, <2>2, <2>3
<1>7. CASE CreateInit
  <2>1. PICK x \in w.todo : hdr' = [hdr EXCEPT ![x] = Layout(w.size, w.len)[x]]
    BY <1>7, CreatePlaces
  <2>2. UNCHANGED <<reader, overlapped, resized>> /\ size' = size /\ w.pc = "init"
    BY <1>7 DEF CreateInit
  <2>3. CASE x = "arena_size"
    <3>1. ArenaOffset < w.len /\ w.len = size
      BY <2>2 DEF CreateInv
    <3>2. hdr'["arena_size"] = size - ArenaOffset
      BY <1>0, <2>1, <2>3, <3>1, LayoutWords
    <3>3. Mapped(hdr') <= size
      BY <1>0, <3>2 DEF Mapped
    <3> QED
      BY <2>2, <3>3 DEF ReaderInv
  <2>4. CASE x # "arena_size"
    BY <1>0, <1>1, <2>1, <2>2, <2>4
  <2> QED
    BY <2>3, <2>4
<1>8. CASE \/ CreateMap \/ CreateMeasure \/ CreateLayout \/ CreateDone
           \/ OpenLoad \/ OpenOpen \/ OpenMap \/ OpenCheck \/ OpenBadMap
  BY <1>1, <1>8 DEF CreateMap, CreateMeasure, CreateLayout, CreateDone, OpenLoad, OpenOpen,
                    OpenMap, OpenCheck, OpenBadMap, object
<1>9. CASE OpenCall \/ OpenStat
  <2>1. reader' = None
    BY <1>9 DEF OpenCall, OpenStat, HeldInv
  <2> QED
    BY <2>1 DEF ReaderInv
<1>10. CASE Closing
  <2>1. UNCHANGED <<overlapped, resized>> /\ (reader' = reader \/ reader' = None)
    BY <1>10 DEF Closing, CreateFail, DropWriter, OpenFail, DropReader
  <2>2. reader' = None \/ (size' = size /\ hdr' = hdr)
    BY <1>10, ClosingStep
  <2> QED
    BY <2>1, <2>2 DEF ReaderInv
<1>11. CASE OpenDone
  <2>1. /\ o.pc = "load" /\ o.todo = {} /\ UNCHANGED <<size, hdr, overlapped, resized>>
        /\ reader'.len = o.len
        /\ reader'.ready = o.got["ready_offset"]
        /\ reader'.recycle = o.got["recycle_offset"]
        /\ reader'.arena = o.got["arena_offset"]
        /\ reader'.capacities = o.got["capacities"]
    BY <1>11, OpenedReader DEF OpenDone, object
  <2>2. ASSUME ~overlapped
        PROVE  /\ reader'.ready = ReadyOffset /\ reader'.recycle = RecycleOffset
               /\ reader'.arena = ArenaOffset /\ ArenaOffset < reader'.len
               /\ reader'.capacities = 1
               /\ ~resized => Mapped(hdr) <= size
    <3>1. ~Creating /\ ~cut
      BY <2>1, <2>2 DEF LoadInv
    <3>2. Intact(hdr, sink_backend, size)
      BY <1>0, <3>1 DEF HeaderInv, Creating
    <3>3. \A x \in Words \ {"arena_size"} : o.got[x] = hdr[x] /\ Accepts(x, hdr[x], o.len)
      BY <2>1, <2>2 DEF LoadInv
    <3>4. hdr["magic"] = 1 /\ hdr["total_size"] = o.len
      BY <3>3 DEF Words, Accepts
    <3>5. /\ hdr = Layout(o.len, Mapped(hdr)) /\ hdr["arena_size"] > 0
          /\ sink_backend = "posix" => Mapped(hdr) = o.len
          /\ sink_backend = "named" => Mapped(hdr) = size
      BY <3>2, <3>4 DEF Intact, ZeroHeader, Words
    <3>6. o.len \in Nat /\ Mapped(hdr) \in Nat /\ ArenaOffset < Mapped(hdr)
      BY <1>0, <3>5 DEF Opens, Mapped
    <3>7. /\ hdr["ready_offset"] = ReadyOffset /\ hdr["recycle_offset"] = RecycleOffset
          /\ hdr["arena_offset"] = ArenaOffset /\ hdr["capacities"] = 1
      BY <3>5, <3>6, LayoutWords
    <3>8. /\ reader'.ready = ReadyOffset /\ reader'.recycle = RecycleOffset
          /\ reader'.arena = ArenaOffset /\ reader'.capacities = 1
      BY <2>1, <3>3, <3>7 DEF Words
    <3>9. Mapped(hdr) = o.len /\ (~resized => o.len = size)
      BY <2>1, <3>5 DEF SizeInv, Sized, HeldInv, SameRegion
    <3> QED
      BY <2>1, <1>0, <3>6, <3>8, <3>9
  <2> QED
    BY <2>1, <2>2 DEF ReaderInv
<1> QED
  BY <1>3, <1>4, <1>5, <1>6, <1>7, <1>8, <1>9, <1>10, <1>11 DEF RegionNext, Closing

--------------------------------------------------------------------------------
(* The theorems. *)

Invariant ==
    TypeInv /\ HeldInv /\ CreateInv /\ HeaderInv /\ LoadInv /\ SizeInv /\ ReaderInv

LEMMA InitInv == RegionInit => Invariant
<1> SUFFICES ASSUME RegionInit PROVE Invariant
  OBVIOUS
<1> USE RegionAssumption
<1>1. /\ w = NoCreate /\ writers = 0 /\ o = NoOpen /\ reader = None
      /\ creates = 0 /\ opens = 0 /\ left = 0
      /\ cut = FALSE /\ overlapped = FALSE /\ resized = FALSE
      /\ exists = FALSE /\ size = 0 /\ hdr = ZeroHeader /\ SameRegion
      /\ handles = [p \in Procs |-> 0] /\ maps = [p \in Procs |-> 0]
  BY DEF RegionInit, Procs
<1>2. /\ NoCreate \in Creates /\ NoOpen \in Opens /\ ZeroHeader \in [Words -> Nat]
      /\ NoCreate.pc = "idle" /\ NoOpen.pc = "idle"
  BY DEF NoCreate, NoOpen, Creates, Opens, ZeroHeader
<1>3. TypeInv
  <2>1. ObjectOK /\ HeldOK
    BY <1>1, <1>2 DEF ObjectOK, HeldOK
  <2>2. CreateOK /\ OpenOK
    BY <1>1, <1>2 DEF CreateOK, OpenOK
  <2>3. FlagsOK
    BY <1>1 DEF FlagsOK
  <2> QED
    BY <2>1, <2>2, <2>3 DEF TypeInv
<1>4. HeldInv
  <2>1. handles["sink"] = 0 /\ handles["src"] = 0 /\ maps["sink"] = 0 /\ maps["src"] = 0
    BY <1>1 DEF Procs
  <2> QED
    BY <1>1, <1>2, <2>1 DEF HeldInv, NothingLeaks, One, Creating
<1>5. CreateInv /\ HeaderInv /\ LoadInv /\ SizeInv /\ ReaderInv
  BY <1>1, <1>2 DEF CreateInv, HeaderInv, Intact, LoadInv, SizeInv, Sized, ReaderInv, Creating
<1> QED
  BY <1>3, <1>4, <1>5 DEF Invariant

LEMMA InvariantStep == Invariant /\ [RegionNext]_vars => Invariant'
<1> SUFFICES ASSUME Invariant, [RegionNext]_vars PROVE Invariant'
  OBVIOUS
<1>1. CASE RegionNext
  <2>1. TypeInv' /\ HeldInv' /\ CreateInv'
    BY <1>1, TypeStep, HeldStep, CreateInvStep DEF Invariant
  <2>2. HeaderInv' /\ LoadInv' /\ SizeInv' /\ ReaderInv'
    BY <1>1, HeaderStep, LoadStep, SizeStep, ReaderStep DEF Invariant
  <2> QED
    BY <2>1, <2>2 DEF Invariant
<1>2. CASE UNCHANGED vars
  <2>1. UNCHANGED <<exists, size, hdr, handles, maps, left, w, writers, o, reader, creates, opens,
                    sink_backend, src_backend, cut, overlapped, resized>>
    BY <1>2 DEF vars, object, held, counts, where
  <2>2. TypeInv'
    BY <2>1 DEF Invariant, TypeInv, ObjectOK, HeldOK, CreateOK, OpenOK, FlagsOK
  <2>3. HeldInv' /\ CreateInv'
    BY <2>1 DEF Invariant, HeldInv, SameRegion, NothingLeaks, Creating, CreateInv
  <2>4. HeaderInv' /\ LoadInv'
    BY <2>1 DEF Invariant, HeaderInv, LoadInv, Creating
  <2>5. SizeInv' /\ ReaderInv'
    BY <2>1 DEF Invariant, SizeInv, Sized, ReaderInv
  <2> QED
    BY <2>2, <2>3, <2>4, <2>5 DEF Invariant
<1> QED
  BY <1>1, <1>2

LEMMA InvariantCorrect == RegionSpec => []Invariant
BY InitInv, InvariantStep, PTL DEF RegionSpec

\* Sizes, offsets and counts are naturals, for any sizes, page and capacities: no create
\* writes the words of a layout that has no room for an arena.
THEOREM RegionTypeCorrect == RegionSpec => []RegionTypeOK
<1>1. Invariant => RegionTypeOK
  BY DEF Invariant, TypeInv, ObjectOK, HeldOK, CreateOK, OpenOK, Procs, Creates, Opens,
         RegionTypeOK
<1> QED
  BY <1>1, InvariantCorrect, PTL

\* A create or an open that fails, at any call of the three back ends, closes what it opened
\* and unmaps what it mapped, but for the mappings of answers request_map refuses.
THEOREM NothingLeaksCorrect == RegionSpec => []NothingLeaks
<1>1. Invariant => NothingLeaks
  BY DEF Invariant, HeldInv
<1> QED
  BY <1>1, InvariantCorrect, PTL

\* A Reader that no create overlapped has the Writer's layout, inside its mapping.
THEOREM ReaderMapsRegionCorrect == RegionSpec => []ReaderMapsRegion
<1>1. Invariant => ReaderMapsRegion
  <2> SUFFICES ASSUME Invariant, reader # None, ~overlapped PROVE ReaderMapsRegion
    BY DEF ReaderMapsRegion
  <2>1. /\ reader.ready = ReadyOffset /\ reader.recycle = RecycleOffset
        /\ reader.arena = ArenaOffset /\ ArenaOffset < reader.len
        /\ reader.capacities = 1
        /\ ~resized => Mapped(hdr) <= size /\ reader.len = size
    BY DEF Invariant, ReaderInv, SizeInv
  <2>2. size \in Nat
    BY DEF Invariant, TypeInv, ObjectOK
  <2> QED
    BY <2>1, <2>2, LayoutInOrder DEF ReaderMapsRegion, Mapped
<1> QED
  BY <1>1, InvariantCorrect, PTL

\* After a create that succeeded an open finds a header it accepts.
THEOREM OpensAfterCreateCorrect == RegionSpec => []OpensAfterCreate
<1>1. Invariant => OpensAfterCreate
  <2> SUFFICES ASSUME Invariant, w.pc = "done", exists, sink_backend = "named" => w.len = w.size,
                      NEW x \in Words
               PROVE  Accepts(x, hdr[x], size)
    BY DEF OpensAfterCreate
  <2>1. /\ hdr = Layout(w.size, w.len) /\ size = w.len
        /\ sink_backend = "posix" => w.len = w.size
    BY DEF Invariant, HeaderInv
  <2>2. w.len = w.size
    BY <2>1 DEF Invariant, HeldInv, SameRegion
  <2> QED
    BY <2>1, <2>2 DEF Accepts, Layout
<1> QED
  BY <1>1, InvariantCorrect, PTL
================================================================================
