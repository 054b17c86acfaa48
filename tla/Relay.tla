--------------------------------- MODULE Relay ---------------------------------
(***************************************************************************)
(* The client accounting of shm2_relayd: the listener thread counts        *)
(* connections up, one thread per connection counts them down, and each    *)
(* then hands the count it obtained to the GLib main loop, which switches  *)
(* the input and the splash pipeline.  Changing the count and handing it   *)
(* over are two steps, so counts can be handed over in another order.      *)
(***************************************************************************)
EXTENDS Naturals, Sequences, FiniteSets

CONSTANTS Clients,      \* connections that may be open at once
          HasSplash,    \* --splash was given
          MaxAccepts,   \* bound: connections accepted
          Nobody

Listener == "listener"

ASSUME RelayAssumption ==
    /\ HasSplash \in BOOLEAN /\ MaxAccepts \in Nat /\ Nobody \notin Clients
    /\ IsFiniteSet(Clients) /\ Listener \notin Clients

VARIABLES
    count,      \* the shared AtomicUsize
    accepting,  \* the connection the listener has counted but not handed over
    conn,       \* connection -> "closed", "open", or "leaving": counted down,
                \* not handed over
    told,       \* thread -> the count its fetch_add or fetch_sub gave it
    invoked,    \* counts handed to the main loop and not run yet, in order
    switching,  \* the counts whose invocation the main loop is in the middle of
    input, splash,  \* pipeline states
    running,    \* the main loop runs
    accepts,    \* connections accepted so far
    serial      \* history: no count was changed while another had been changed
                \* and not handed over

relayVars == <<count, accepting, conn, told, invoked, switching, input, splash,
               running, accepts, serial>>

RelayInit ==
    /\ count = 0
    /\ accepting = Nobody
    /\ conn = [c \in Clients |-> "closed"]
    /\ told = [t \in Clients \cup {Listener} |-> 0]
    /\ invoked = <<>> /\ switching = {}
    /\ input = "NULL"
    /\ splash = IF HasSplash THEN "PLAYING" ELSE "NULL"
    /\ running = TRUE
    /\ accepts = 0
    /\ serial = TRUE

\* A count has been changed and is still to be handed over.
HandingOver == accepting # Nobody \/ \E c \in Clients : conn[c] = "leaving"

\* Fault: the listener hands over the count from before it counted the client.
Accept_OldCount(c) ==
    /\ accepting = Nobody /\ conn[c] = "closed"
    /\ accepts < MaxAccepts
    /\ accepts' = accepts + 1
    /\ count' = count + 1
    /\ told' = [told EXCEPT ![Listener] = count]
    /\ accepting' = c
    /\ serial' = (serial /\ ~HandingOver)
    /\ UNCHANGED <<conn, invoked, switching, input, splash, running>>

\* fetch_add(1) + 1
Accept(c) ==
    /\ accepting = Nobody /\ conn[c] = "closed"
    /\ accepts < MaxAccepts
    /\ accepts' = accepts + 1
    /\ count' = count + 1
    /\ told' = [told EXCEPT ![Listener] = count + 1]
    /\ accepting' = c
    /\ serial' = (serial /\ ~HandingOver)
    /\ UNCHANGED <<conn, invoked, switching, input, splash, running>>

\* notify_client_count from the listener, which then starts the thread.
AcceptNotify ==
    /\ accepting # Nobody
    /\ invoked' = Append(invoked, told[Listener])
    /\ told' = [told EXCEPT ![Listener] = 0]
    /\ conn' = [conn EXCEPT ![accepting] = "open"]
    /\ accepting' = Nobody
    /\ UNCHANGED <<count, switching, input, splash, running, accepts, serial>>

\* Fault: the count is handed over as fetch_sub returned it, one too many.
Close_OldCount(c) ==
    /\ conn[c] = "open"
    /\ count' = count - 1
    /\ told' = [told EXCEPT ![c] = count]
    /\ conn' = [conn EXCEPT ![c] = "leaving"]
    /\ serial' = (serial /\ ~HandingOver)
    /\ UNCHANGED <<accepting, invoked, switching, input, splash, running, accepts>>

\* Fault: a connection that ends is not counted down.
Close_NotCounted(c) ==
    /\ conn[c] = "open"
    /\ told' = [told EXCEPT ![c] = count]
    /\ conn' = [conn EXCEPT ![c] = "leaving"]
    /\ serial' = (serial /\ ~HandingOver)
    /\ UNCHANGED <<count, accepting, invoked, switching, input, splash, running, accepts>>

\* hold_connection returned; fetch_sub(1).saturating_sub(1)
Close(c) ==
    /\ conn[c] = "open"
    /\ count' = count - 1
    /\ told' = [told EXCEPT ![c] = count - 1]
    /\ conn' = [conn EXCEPT ![c] = "leaving"]
    /\ serial' = (serial /\ ~HandingOver)
    /\ UNCHANGED <<accepting, invoked, switching, input, splash, running, accepts>>

\* notify_client_count from the connection's thread, which ends.
CloseNotify(c) ==
    /\ conn[c] = "leaving"
    /\ invoked' = Append(invoked, told[c])
    /\ told' = [told EXCEPT ![c] = 0]
    /\ conn' = [conn EXCEPT ![c] = "closed"]
    /\ UNCHANGED <<count, accepting, switching, input, splash, running, accepts, serial>>

\* The main loop runs the oldest invocation: first the input pipeline ...
SwitchInput ==
    /\ running
    /\ switching = {}
    /\ invoked # <<>>
    /\ switching' = {Head(invoked)}
    /\ invoked' = Tail(invoked)
    /\ input' = IF Head(invoked) > 0 THEN "PLAYING" ELSE "NULL"
    /\ UNCHANGED <<count, accepting, conn, told, splash, running, accepts, serial>>

\* Fault: the splash pipeline follows the input pipeline.
SwitchSplash_Same ==
    /\ running
    /\ \E n \in switching :
         splash' = IF ~HasSplash THEN "NULL" ELSE IF n > 0 THEN "PLAYING" ELSE "NULL"
    /\ switching' = {}
    /\ UNCHANGED <<count, accepting, conn, told, invoked, input, running, accepts, serial>>

\* ... then the splash pipeline.
SwitchSplash ==
    /\ running
    /\ \E n \in switching :
         splash' = IF ~HasSplash THEN "NULL" ELSE IF n > 0 THEN "NULL" ELSE "PLAYING"
    /\ switching' = {}
    /\ UNCHANGED <<count, accepting, conn, told, invoked, input, running, accepts, serial>>

\* An error or end of stream on the output pipeline: the main loop quits and
\* main sets every pipeline to NULL.
Quit ==
    /\ running
    /\ switching = {}
    /\ running' = FALSE
    /\ input' = "NULL" /\ splash' = "NULL"
    /\ UNCHANGED <<count, accepting, conn, told, invoked, switching, accepts, serial>>

RelayNext ==
    \/ \E c \in Clients : Accept(c) \/ Close(c) \/ CloseNotify(c)
    \/ AcceptNotify
    \/ SwitchInput \/ SwitchSplash
    \/ Quit

\* Threads and the main loop go on; clients need not come or go.
RelaySpec ==
    /\ RelayInit /\ [][RelayNext]_relayVars
    /\ WF_relayVars(AcceptNotify)
    /\ \A c \in Clients : WF_relayVars(CloseNotify(c))
    /\ WF_relayVars(SwitchInput) /\ WF_relayVars(SwitchSplash)

--------------------------------------------------------------------------------
\* Type invariant; the count is the number of connections counted in and not out.
RelayTypeOK ==
    /\ accepting \in Clients \cup {Nobody}
    /\ conn \in [Clients -> {"closed", "open", "leaving"}]
    /\ told \in [Clients \cup {Listener} -> 0 .. Cardinality(Clients)]
    /\ \A k \in 1 .. Len(invoked) : invoked[k] \in 0 .. Cardinality(Clients)
    /\ input \in {"NULL", "PLAYING"} /\ splash \in {"NULL", "PLAYING"}
    /\ count = Cardinality({c \in Clients : conn[c] = "open" \/ accepting = c})

\* Nothing is left to hand over, to run or to finish.
Settled == running /\ ~HandingOver /\ invoked = <<>> /\ switching = {}

InputFollows == Settled => (input = "PLAYING" <=> count > 0)

\* As long as no two count changes overlapped, once all is handed over and run
\* the input pipeline plays exactly if a client is connected: overlapping is the
\* only way notify_client_count leaves the wrong state behind.
SerialInputFollows == serial => InputFollows

\* With a splash pipeline, between two invocations exactly one of input and
\* splash plays, so the output's appsrc has one feeder, in whatever order the
\* counts arrive.
OneFeeder ==
    HasSplash /\ running /\ switching = {} => (input = "PLAYING" <=> splash = "NULL")

\* The last client's leaving reaches the input pipeline: with no client left for
\* good and no overlap the input ends up NULL, or the daemon quits.
IdleInputStops == (count = 0 /\ serial) ~> (input = "NULL" \/ count > 0 \/ ~running)

================================================================================
