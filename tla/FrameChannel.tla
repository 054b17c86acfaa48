------------------------------ MODULE FrameChannel -----------------------------
(***************************************************************************)
(* What the transport promises: a bounded channel of frames from one       *)
(* producer to one consumer that comes and goes.  Frames are delivered in  *)
(* the order published, each at most once and unaltered; a frame handed    *)
(* downstream stays unaltered until it is released; older frames may be    *)
(* skipped but never reordered.  The promise holds until the producer      *)
(* takes space back by force (ok becomes FALSE); then nothing is promised. *)
(***************************************************************************)
EXTENDS Naturals, Sequences

CONSTANTS Capacity,     \* frames queued at most
          Slots,        \* buffers downstream can hold
          Nothing       \* an empty slot

VARIABLES published,    \* frames published so far; frame n is the n-th
          queue,        \* frames published and neither taken nor skipped
          slots,        \* slot -> the frame downstream sees in it, or Nothing
          attached,     \* a consumer is attached
          skipping,     \* an input: the receive under way may skip older frames
          ok            \* the producer has taken nothing back

chanVars == <<published, queue, slots, attached, ok>>

ChanInit ==
    /\ published = 0
    /\ queue = <<>>
    /\ slots = [s \in Slots |-> Nothing]
    /\ attached = FALSE
    /\ ok = TRUE

Publish ==
    /\ Len(queue) < Capacity
    /\ published' = published + 1
    /\ queue' = Append(queue, published + 1)
    /\ UNCHANGED <<slots, attached>>

\* A receive hands over the oldest frame left.
Deliver ==
    /\ attached
    /\ queue # <<>>
    /\ \E s \in Slots :
         /\ slots[s] = Nothing
         /\ slots' = [slots EXCEPT ![s] = Head(queue)]
    /\ queue' = Tail(queue)
    /\ UNCHANGED <<published, attached>>

\* A latest-only receive skips the oldest frame and looks further.
SkipOldest ==
    /\ skipping /\ attached
    /\ queue # <<>>
    /\ queue' = Tail(queue)
    /\ UNCHANGED <<published, slots, attached>>

\* A latest-only receive that gives up on returning the frames it skips: the
\* second newest is delivered and the newest, or newer ones, stay.
DeliverLater ==
    /\ skipping /\ attached
    /\ \E k \in 1 .. Len(queue), s \in Slots :
         /\ slots[s] = Nothing
         /\ slots' = [slots EXCEPT ![s] = queue[k]]
         /\ queue' = SubSeq(queue, k + 1, Len(queue))
    /\ UNCHANGED <<published, attached>>

\* A consumer attaches and skips what was queued when it looked.
Attach ==
    /\ ~attached
    /\ attached' = TRUE
    /\ \E k \in 0 .. Len(queue) : queue' = SubSeq(queue, k + 1, Len(queue))
    /\ UNCHANGED <<published, slots>>

Release ==
    /\ \E s \in Slots : slots' = [slots EXCEPT ![s] = Nothing]
    /\ UNCHANGED <<published, queue, attached>>

\* The consumer dies.
Vanish ==
    /\ attached' = FALSE
    /\ slots' = [s \in Slots |-> Nothing]
    /\ UNCHANGED <<published, queue>>

ChanStep == Publish \/ Deliver \/ SkipOldest \/ DeliverLater \/ Attach \/ Release \/ Vanish

\* Once the producer takes something back, nothing is promised any more.
ChanNext ==
    \/ ok /\ ok' /\ ChanStep
    \/ ~ok'

ChanSpec == ChanInit /\ [][ChanNext]_chanVars
================================================================================
