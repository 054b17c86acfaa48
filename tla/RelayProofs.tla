------------------------------- MODULE RelayProofs ------------------------------
(***************************************************************************)
(* For every finite set of clients and every number of connections: the    *)
(* count is the number of connections, the output has one feeder, and the  *)
(* input follows the count once all is handed over and run, unless two     *)
(* count changes overlapped.                                               *)
(***************************************************************************)
EXTENDS Relay, FiniteSetTheorems, SequenceTheorems, TLAPS

Counts    == 0 .. Cardinality(Clients)
Connected == {c \in Clients : conn[c] = "open" \/ accepting = c}

\* RelayTypeOK, and that the connection the listener hands over has no thread yet.
Types ==
    /\ accepting \in Clients \cup {Nobody}
    /\ conn \in [Clients -> {"closed", "open", "leaving"}]
    /\ accepting # Nobody => conn[accepting] = "closed"
    /\ told \in [Clients \cup {Listener} -> Counts]
    /\ invoked \in Seq(Counts)
    /\ input \in {"NULL", "PLAYING"} /\ splash \in {"NULL", "PLAYING"}
    /\ count = Cardinality(Connected)

\* Half way through an invocation the input already follows the count it was given.
HalfWay == \A n \in switching : input = "PLAYING" <=> n > 0

\* While no changes overlap, at most one thread has a count to hand over, and it is
\* the present one; with none, the newest that was handed over is the present one.
Newest ==
    /\ accepting # Nobody =>
         told[Listener] = count /\ \A c \in Clients : conn[c] # "leaving"
    /\ \A c \in Clients : conn[c] = "leaving" =>
         told[c] = count /\ \A d \in Clients : conn[d] = "leaving" => d = c
    /\ ~HandingOver =>
         /\ invoked # <<>> => invoked[Len(invoked)] = count
         /\ invoked = <<>> => \A n \in switching : n = count
         /\ invoked = <<>> /\ switching = {} /\ running => (input = "PLAYING" <=> count > 0)

RelayInv == Types /\ OneFeeder /\ HalfWay /\ (serial => Newest)

\* A set of connections counts at most all clients.
LEMMA CountsFacts ==
    ASSUME NEW S \in SUBSET Clients
    PROVE  IsFiniteSet(S) /\ Cardinality(S) \in Counts
BY RelayAssumption, FS_Subset, FS_CardinalityType DEF Counts

LEMMA ConnectedFacts == Types => count \in Counts /\ count \in Nat
BY CountsFacts DEF Types, Connected, Counts

\* RelayInv gives the invariants the runs check.
LEMMA RelayInvImplies == RelayInv => RelayTypeOK /\ OneFeeder /\ SerialInputFollows
<1> SUFFICES ASSUME RelayInv PROVE RelayTypeOK /\ OneFeeder /\ SerialInputFollows
  OBVIOUS
<1>1. RelayTypeOK
  <2>1. \A k \in 1 .. Len(invoked) : invoked[k] \in Counts
    BY DEF RelayInv, Types
  <2> QED
    BY <2>1 DEF RelayInv, Types, Counts, Connected, RelayTypeOK
<1>2. OneFeeder
  BY DEF RelayInv
<1>3. SerialInputFollows
  BY DEF RelayInv, Newest, SerialInputFollows, InputFollows, Settled
<1> QED
  BY <1>1, <1>2, <1>3

LEMMA InitRelay == RelayInit => RelayInv
<1> SUFFICES ASSUME RelayInit PROVE RelayInv
  OBVIOUS
<1>1. Connected = {}
  BY RelayAssumption DEF RelayInit, Connected
<1>2. count = Cardinality(Connected)
  BY <1>1, FS_EmptySet DEF RelayInit
<1>3. 0 \in Counts
  BY CountsFacts, FS_EmptySet DEF Counts
<1>4. Types
  BY <1>2, <1>3 DEF RelayInit, Types
<1>5. OneFeeder /\ HalfWay /\ Newest
  BY DEF RelayInit, OneFeeder, HalfWay, Newest
<1> QED
  BY <1>4, <1>5 DEF RelayInv

\* The types after a step, one action at a time.
LEMMA StepTypes == Types /\ [RelayNext]_relayVars => Types'
<1> SUFFICES ASSUME Types, [RelayNext]_relayVars PROVE Types'
  OBVIOUS
<1> USE DEF Types
<1>1. count \in Counts /\ count \in Nat /\ 0 \in Counts
  BY ConnectedFacts, CountsFacts, FS_EmptySet DEF Counts
<1>2. Connected \in SUBSET Clients /\ IsFiniteSet(Connected)
  BY CountsFacts DEF Connected
<1>3. ASSUME NEW c \in Clients, Accept(c) PROVE Types'
  <2>1. Connected' = Connected \cup {c} /\ c \notin Connected
    BY <1>3, RelayAssumption DEF Accept, Connected
  <2>2. count + 1 = Cardinality(Connected')
    BY <2>1, <1>2, FS_AddElement
  <2>3. count + 1 \in Counts
    BY <2>1, <2>2, <1>2, CountsFacts
  <2> QED
    BY <1>3, <2>2, <2>3, RelayAssumption DEF Accept
<1>4. CASE AcceptNotify
  <2>1. Connected' = Connected
    BY <1>4, RelayAssumption DEF AcceptNotify, Connected
  <2> QED
    BY <1>4, <1>1, <2>1 DEF AcceptNotify
<1>5. ASSUME NEW c \in Clients, Close(c) PROVE Types'
  <2>1. Connected' = Connected \ {c} /\ c \in Connected
    BY <1>5, RelayAssumption DEF Close, Connected
  <2>2. count - 1 = Cardinality(Connected')
    BY <2>1, <1>2, FS_RemoveElement
  <2>3. count - 1 \in Counts
    BY <2>1, <2>2, <1>2, CountsFacts
  <2> QED
    BY <1>5, <2>2, <2>3 DEF Close
<1>6. ASSUME NEW c \in Clients, CloseNotify(c) PROVE Types'
  <2>1. Connected' = Connected
    BY <1>6 DEF CloseNotify, Connected
  <2> QED
    BY <1>6, <1>1, <2>1 DEF CloseNotify
<1>7. CASE SwitchInput
  BY <1>7 DEF SwitchInput, Connected
<1>8. CASE SwitchSplash
  BY <1>8 DEF SwitchSplash, Connected
<1>9. CASE Quit
  BY <1>9 DEF Quit, Connected
<1>10. CASE UNCHANGED relayVars
  BY <1>10 DEF relayVars, Connected
<1> QED
  BY <1>3, <1>4, <1>5, <1>6, <1>7, <1>8, <1>9, <1>10 DEF RelayNext

\* One feeder, and the input half way through an invocation, after a step.
LEMMA StepFeeder ==
    OneFeeder /\ HalfWay /\ [RelayNext]_relayVars => OneFeeder' /\ HalfWay'
<1> SUFFICES ASSUME OneFeeder, HalfWay, [RelayNext]_relayVars PROVE OneFeeder' /\ HalfWay'
  OBVIOUS
<1> USE DEF OneFeeder, HalfWay
<1>1. ASSUME NEW c \in Clients, Accept(c) \/ Close(c) \/ CloseNotify(c)
      PROVE  OneFeeder' /\ HalfWay'
  BY <1>1 DEF Accept, Close, CloseNotify
<1>2. CASE AcceptNotify
  BY <1>2 DEF AcceptNotify
<1>3. CASE SwitchInput
  BY <1>3 DEF SwitchInput
<1>4. CASE SwitchSplash
  BY <1>4 DEF SwitchSplash
<1>5. CASE Quit
  BY <1>5 DEF Quit
<1>6. CASE UNCHANGED relayVars
  BY <1>6 DEF relayVars
<1> QED
  BY <1>1, <1>2, <1>3, <1>4, <1>5, <1>6 DEF RelayNext

\* The newest count is on its way, after a step that overlaps no count change.
LEMMA StepNewest ==
    ASSUME Types, HalfWay, serial => Newest, [RelayNext]_relayVars, serial'
    PROVE  Newest'
<1>1. serial /\ Newest
  BY DEF RelayNext, relayVars, Accept, AcceptNotify, Close, CloseNotify, SwitchInput,
         SwitchSplash, Quit
<1> USE DEF Newest, HandingOver
<1>2. ASSUME NEW c \in Clients, Accept(c) PROVE Newest'
  BY <1>2, RelayAssumption DEF Accept, Types
<1>3. CASE AcceptNotify
  <2>1. told[Listener] = count /\ \A c \in Clients : conn[c] # "leaving"
    BY <1>1, <1>3 DEF AcceptNotify
  <2>2. invoked' = Append(invoked, count) /\ count' = count /\ accepting' = Nobody
        /\ \A c \in Clients : conn'[c] # "leaving"
    BY <1>3, <2>1 DEF AcceptNotify, Types
  <2>3. invoked' # <<>> /\ invoked'[Len(invoked')] = count
    BY <2>2 DEF Types
  <2> QED
    BY <2>2, <2>3
<1>4. ASSUME NEW c \in Clients, Close(c) PROVE Newest'
  BY <1>4, <1>1, RelayAssumption DEF Close, Types
<1>5. ASSUME NEW c \in Clients, CloseNotify(c) PROVE Newest'
  <2>1. told[c] = count /\ accepting = Nobody
        /\ \A d \in Clients : conn[d] = "leaving" => d = c
    BY <1>1, <1>5 DEF CloseNotify
  <2>2. invoked' = Append(invoked, count) /\ count' = count /\ accepting' = Nobody
        /\ \A d \in Clients : conn'[d] # "leaving"
    BY <1>5, <2>1 DEF CloseNotify, Types
  <2>3. invoked' # <<>> /\ invoked'[Len(invoked')] = count
    BY <2>2 DEF Types
  <2> QED
    BY <2>2, <2>3
<1>6. CASE SwitchInput
  <2>1. invoked # <<>> /\ invoked' = Tail(invoked) /\ switching' = {Head(invoked)}
        /\ UNCHANGED <<count, accepting, conn, told>>
    BY <1>6 DEF SwitchInput
  <2>2. invoked' # <<>> => invoked'[Len(invoked')] = invoked[Len(invoked)]
    BY <2>1 DEF Types
  <2>3. ASSUME invoked' = <<>> PROVE Head(invoked) = invoked[Len(invoked)]
    <3>1. invoked \in Seq(Counts)
      BY DEF Types
    <3>2. Len(Tail(invoked)) = Len(invoked) - 1 /\ Len(invoked) \in Nat
      BY <2>1, <3>1, HeadTailProperties, LenProperties
    <3>3. Len(Tail(invoked)) = 0
      BY <2>1, <2>3, EmptySeq
    <3> QED
      BY <2>1, <3>1, <3>2, <3>3
  <2> QED
    BY <1>1, <2>1, <2>2, <2>3
<1>7. CASE SwitchSplash
  BY <1>1, <1>7 DEF SwitchSplash, HalfWay
<1>8. CASE Quit
  BY <1>1, <1>8 DEF Quit
<1>9. CASE UNCHANGED relayVars
  BY <1>1, <1>9 DEF relayVars
<1> QED
  BY <1>2, <1>3, <1>4, <1>5, <1>6, <1>7, <1>8, <1>9 DEF RelayNext

LEMMA RelayInvCorrect == RelaySpec => []RelayInv
<1>1. RelayInv /\ [RelayNext]_relayVars => RelayInv'
  <2> SUFFICES ASSUME RelayInv, [RelayNext]_relayVars PROVE RelayInv'
    OBVIOUS
  <2>1. Types'
    BY StepTypes DEF RelayInv
  <2>2. OneFeeder' /\ HalfWay'
    BY StepFeeder DEF RelayInv
  <2>3. serial' => Newest'
    BY StepNewest DEF RelayInv
  <2> QED
    BY <2>1, <2>2, <2>3 DEF RelayInv
<1> QED
  BY InitRelay, <1>1, PTL DEF RelaySpec

\* RelayTypeOK: the shared count is the number of connections counted in and not out,
\* for any number of clients coming and going, so that the daemon's saturating_sub
\* never has to saturate.
THEOREM CountCorrect == RelaySpec => []RelayTypeOK
BY RelayInvCorrect, RelayInvImplies, PTL

\* OneFeeder: in whatever order the counts reach the main loop, between invocations
\* exactly one of input and splash plays.
THEOREM OneFeederCorrect == RelaySpec => []OneFeeder
BY RelayInvCorrect, RelayInvImplies, PTL

\* SerialInputFollows: overlapping count changes are the only way the input is left in
\* the wrong state, for any number of clients.
THEOREM SerialInputCorrect == RelaySpec => []SerialInputFollows
BY RelayInvCorrect, RelayInvImplies, PTL
================================================================================
