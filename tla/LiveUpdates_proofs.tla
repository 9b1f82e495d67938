-------------------------- MODULE LiveUpdates_proofs --------------------------
(***************************************************************************)
(* What holds of the live updates for any matches and sockets, any bounds  *)
(* and any number of failures.                                             *)
(***************************************************************************)
EXTENDS LiveUpdates, FiniteSetTheorems, TLAPS

\* The sequence of the newest message that w has got.
NewestSequence(w) == received[w][Len(received[w])].sequence

\* Where the endpoint of a socket stands tells what the manager knows of it: a
\* socket that waits for its snapshot is registered and not ready, and has got
\* nothing; one that is past it is ready, and has not got more than the manager
\* has noted, which is not more than there is.
SocketInv ==
  \A w \in Sockets :
    /\ endpoint[w] = "closed" <=> peer[w] = "away"
    /\ w \in connections => endpoint[w] # "closed"
    /\ endpoint[w] # "closed" =>
         stream[w] \in Matches /\ snapshot[w] \in 1 .. stored[stream[w]]
    /\ endpoint[w] = "snapshot" =>
         w \in connections /\ ~conn[w].ready /\ received[w] = <<>>
    /\ endpoint[w] \in {"notifying", "receiving"} =>
         /\ conn[w].ready
         /\ conn[w].last_sequence \in 1 .. stored[stream[w]]
         /\ peer[w] = "open" =>
              received[w] # <<>> /\ NewestSequence(w) <= conn[w].last_sequence

\* The broadcast under way is newer than what its targets have got, and is what
\* the manager has noted for them; its owner waits for it.
BroadcastInv ==
  /\ sending.owner # None => endpoint[sending.owner] = "notifying"
  /\ \A w \in sending.targets : endpoint[w] # "closed" =>
       /\ sending.sequence = conn[w].last_sequence
       /\ peer[w] = "open" => NewestSequence(w) < sending.sequence

\* A registered socket to which nothing is being sent has what is noted for it.
DeliveredInv ==
  \A w \in connections \ sending.targets :
    endpoint[w] # "snapshot" /\ peer[w] = "open" => NewestSequence(w) = conn[w].last_sequence

LiveInv == TypeOK /\ SocketInv /\ BroadcastInv /\ StreamOrder /\ DeliveredInv

GaugeInv == IsFiniteSet(connections) /\ GaugeIsRegistered

-----------------------------------------------------------------------------
(***************************************************************************)
(* Types.                                                                  *)
(***************************************************************************)
\* What a process begins with is of the right types.
LEMMA NewProcessType ==
  /\ NoBroadcast \in Broadcast /\ NoBroadcast.targets = {}
  /\ NewConnection \in ManagedConnection
  /\ <<>> \in Seq(Message)
BY DEF NoBroadcast, Broadcast, NewConnection, ManagedConnection

\* A notification is on its way, or it is lost.
LEMMA AnnounceType ==
  ASSUME TypeOK, NEW m \in Matches, Announce(m)
  PROVE  channel' \in [Matches -> Nat] /\ lost' \in [Matches -> BOOLEAN]
<1>1. CASE listener = "listening"
  BY <1>1 DEF Announce, TypeOK
<1>2. CASE listener # "listening"
  BY <1>2 DEF Announce, TypeOK
<1> QED
  BY <1>1, <1>2

\* Who gets the lock either takes a forwarded notification or goes on later.
LEMMA AcquireType ==
  ASSUME TypeOK, NEW m \in Matches, NEW owner \in Sockets \cup {None}, Acquire(m, owner)
  PROVE  /\ waiting' \in [Matches -> Nat]
         /\ Resumed(owner) \in [Sockets -> {"closed", "snapshot", "notifying", "receiving"}]
<1>1. CASE owner = None
  BY <1>1 DEF Acquire, Resumed, TypeOK
<1>2. CASE owner # None
  BY <1>2 DEF Acquire, Resumed, TypeOK
<1> QED
  BY <1>1, <1>2

\* Receiving keeps the received messages messages, and touches one socket.
LEMMA ReceiveType ==
  ASSUME TypeOK, NEW w \in Sockets, NEW type \in {"snapshot", "state_update"},
         NEW sequence \in SequenceOf, Receive(w, type, sequence)
  PROVE  received' \in [Sockets -> Seq(Message)]
<1>1. [type |-> type, sequence |-> sequence] \in Message
  BY DEF Message
<1> QED
  BY <1>1 DEF Receive, TypeOK

\* The end of a send keeps the broadcast a broadcast.
LEMMA SendOverType ==
  ASSUME TypeOK, NEW w \in Sockets, SendOver(w)
  PROVE  /\ sending' \in Broadcast
         /\ IF LockFree' THEN sending' = NoBroadcast ELSE sending'.sequence \in SequenceOf
         /\ endpoint' \in [Sockets -> {"closed", "snapshot", "notifying", "receiving"}]
         /\ sending'.targets \subseteq sending.targets
<1>1. /\ sending \in Broadcast /\ sending.targets \subseteq Sockets
      /\ sending.owner \in Sockets \cup {None}
      /\ w \in sending.targets /\ sending.sequence \in SequenceOf
      /\ endpoint \in [Sockets -> {"closed", "snapshot", "notifying", "receiving"}]
  BY DEF TypeOK, Broadcast, SendOver, LockFree
<1>2. CASE sending.targets = {w}
  <2>1. sending' = NoBroadcast /\ endpoint' = Resumed(sending.owner)
    BY <1>2 DEF SendOver
  <2>2. NoBroadcast \in Broadcast /\ NoBroadcast.targets = {}
    BY DEF NoBroadcast, Broadcast
  <2>3. endpoint' \in [Sockets -> {"closed", "snapshot", "notifying", "receiving"}]
    BY <1>1, <2>1 DEF Resumed
  <2> QED
    BY <2>1, <2>2, <2>3 DEF LockFree
<1>3. CASE sending.targets # {w}
  <2>1. sending' = [sending EXCEPT !.targets = @ \ {w}] /\ endpoint' = endpoint
    BY <1>3 DEF SendOver
  <2>2. /\ sending' \in Broadcast /\ sending'.sequence = sending.sequence
        /\ sending'.targets = sending.targets \ {w}
    BY <1>1, <2>1 DEF Broadcast
  <2> QED
    BY <1>1, <1>3, <2>1, <2>2 DEF LockFree
<1> QED
  BY <1>2, <1>3

\* The sockets that are sent an update, and what the manager notes of them.
LEMMA DispatchType ==
  ASSUME TypeOK, SocketInv, NEW m \in Matches
  PROVE  /\ Targets(m, stored[m]) \subseteq connections
         /\ Targets(m, stored[m]) # {} => stored[m] \in SequenceOf
         /\ Marked(m, stored[m]) \in [Sockets -> ManagedConnection]
         /\ \A w \in Sockets : /\ Marked(m, stored[m])[w].ready = conn[w].ready
                               /\ Marked(m, stored[m])[w].last_sequence =
                                    IF w \in Targets(m, stored[m])
                                    THEN stored[m] ELSE conn[w].last_sequence
<1> USE DEF TypeOK
<1>1. \A w \in Targets(m, stored[m]) : w \in connections /\ stream[w] = m /\ conn[w].ready
  BY DEF Targets, Subscribers
<1>2. \A w \in Targets(m, stored[m]) : stored[m] \in SequenceOf
  BY <1>1, LiveAssumption DEF SocketInv, SequenceOf
<1>3. \A w \in Sockets : conn[w] \in ManagedConnection
  OBVIOUS
<1>4. \A w \in Sockets : Marked(m, stored[m])[w] =
        IF w \in Subscribers(m) /\ ~conn[w].ready
        THEN [conn[w] EXCEPT !.pending_notification = TRUE]
        ELSE IF w \in Targets(m, stored[m])
             THEN [conn[w] EXCEPT !.last_sequence = stored[m]]
             ELSE conn[w]
  BY DEF Marked
<1>5. \A w \in Sockets : /\ Marked(m, stored[m])[w] \in ManagedConnection
                         /\ Marked(m, stored[m])[w].ready = conn[w].ready
                         /\ Marked(m, stored[m])[w].last_sequence =
                              IF w \in Targets(m, stored[m])
                              THEN stored[m] ELSE conn[w].last_sequence
  <2> TAKE w \in Sockets
  <2>1. CASE w \in Subscribers(m) /\ ~conn[w].ready
    <3>1. w \notin Targets(m, stored[m])
      BY <1>1, <2>1
    <3> QED
      BY <1>3, <1>4, <2>1, <3>1 DEF ManagedConnection
  <2>2. CASE ~(w \in Subscribers(m) /\ ~conn[w].ready)
    BY <1>2, <1>3, <1>4, <2>2 DEF ManagedConnection
  <2> QED
    BY <2>1, <2>2
<1>6. Marked(m, stored[m]) \in [Sockets -> ManagedConnection]
  BY <1>5 DEF Marked
<1> QED
  BY <1>1, <1>2, <1>5, <1>6

\* Every step keeps the types.
LEMMA TypeStep == TypeOK /\ SocketInv /\ [Next]_vars => TypeOK'
<1> SUFFICES ASSUME TypeOK, SocketInv, [Next]_vars
             PROVE  TypeOK'
  OBVIOUS
<1> USE DEF database, listening, manager, session, client, Fault
<1>1. ASSUME NEW m \in Matches, Commit(m)
      PROVE  TypeOK'
  <2>1. stored' \in [Matches -> 0 .. MaxSequence]
    BY <1>1, LiveAssumption DEF Commit, TypeOK
  <2> QED
    BY <1>1, <2>1, AnnounceType DEF Commit, TypeOK, LockFree
<1>2. ASSUME NEW m \in Matches, Rebuild(m)
      PROVE  TypeOK'
  <2>1. rebuilds' \in 0 .. MaxRebuilds
    BY <1>2, LiveAssumption DEF Rebuild, TypeOK
  <2> QED
    BY <1>2, <2>1, AnnounceType DEF Rebuild, TypeOK, LockFree
<1>3. CASE Listen
  BY <1>3 DEF Listen, TypeOK, LockFree
<1>4. CASE ListenerFails
  <2>1. faults' \in 0 .. MaxFaults
    BY <1>4, LiveAssumption DEF ListenerFails, TypeOK
  <2>2. lost' \in [Matches -> BOOLEAN]
    BY <1>4 DEF ListenerFails, TypeOK
  <2> QED
    BY <1>4, <2>1, <2>2 DEF ListenerFails, TypeOK, LockFree
<1>5. ASSUME NEW m \in Matches, Forward(m)
      PROVE  TypeOK'
  BY <1>5 DEF Forward, TypeOK, LockFree
<1>6. CASE Serve
  BY <1>6 DEF Serve, TypeOK, LockFree
<1>7. ASSUME NEW m \in Matches, NEW owner \in Sockets \cup {None}, Dispatch(m, owner)
      PROVE  TypeOK'
  <2>1. /\ waiting' \in [Matches -> Nat]
        /\ Resumed(owner) \in [Sockets -> {"closed", "snapshot", "notifying", "receiving"}]
    BY <1>7, AcquireType DEF Dispatch
  <2>2. /\ conn' \in [Sockets -> ManagedConnection]
        /\ \A w \in Sockets : conn'[w].ready = conn[w].ready
    BY <1>7, DispatchType DEF Dispatch
  <2>3. sending' \in Broadcast
    BY <1>7, DispatchType DEF Dispatch, Broadcast, TypeOK
  <2>4. IF LockFree' THEN sending' = NoBroadcast ELSE sending'.sequence \in SequenceOf
    BY <1>7, DispatchType DEF Dispatch, Acquire, LockFree, TypeOK
  <2>5. \A w \in sending'.targets : conn'[w].ready
    <3>1. \A w \in Targets(m, stored[m]) : w \in Sockets /\ conn[w].ready
      BY DispatchType DEF Targets, TypeOK
    <3>2. sending'.targets \subseteq Targets(m, stored[m])
      BY <1>7 DEF Dispatch, Acquire, LockFree
    <3> QED
      BY <2>2, <3>1, <3>2
  <2>6. endpoint' \in [Sockets -> {"closed", "snapshot", "notifying", "receiving"}]
    BY <1>7, <2>1 DEF Dispatch, TypeOK
  <2> QED
    BY <1>7, <2>1, <2>2, <2>3, <2>4, <2>5, <2>6 DEF Dispatch, TypeOK
<1>8. ASSUME NEW m \in Matches, NEW owner \in Sockets \cup {None}, DispatchFails(m, owner)
      PROVE  TypeOK'
  <2>1. faults' \in 0 .. MaxFaults
    BY <1>8, LiveAssumption DEF DispatchFails, TypeOK
  <2>2. /\ waiting' \in [Matches -> Nat]
        /\ endpoint' \in [Sockets -> {"closed", "snapshot", "notifying", "receiving"}]
    BY <1>8, AcquireType DEF DispatchFails
  <2>3. lost' \in [Matches -> BOOLEAN]
    BY <1>8 DEF DispatchFails, TypeOK
  <2> QED
    BY <1>8, <2>1, <2>2, <2>3 DEF DispatchFails, TypeOK, LockFree
<1>9. ASSUME NEW w \in Sockets, Deliver(w)
      PROVE  TypeOK'
  <2>1. SendOver(w) /\ sending.sequence \in SequenceOf
    BY <1>9 DEF Deliver, SendOver, LockFree, TypeOK
  <2>2. received' \in [Sockets -> Seq(Message)]
    BY <1>9, <2>1, ReceiveType DEF Deliver
  <2> QED
    BY <1>9, <2>1, <2>2, SendOverType DEF Deliver, TypeOK
<1>10. ASSUME NEW w \in Sockets, SendFails(w)
       PROVE  TypeOK'
  <2>1. SendOver(w) /\ sending.sequence \in SequenceOf
    BY <1>10 DEF SendFails, SendOver, LockFree, TypeOK
  <2>2. received' \in [Sockets -> Seq(Message)]
    BY <1>10, <2>1, ReceiveType DEF SendFails, TypeOK
  <2>3. faults' \in 0 .. MaxFaults
    BY <1>10, LiveAssumption DEF SendFails, TypeOK
  <2>4. connections' \subseteq Sockets
    BY <1>10 DEF SendFails, Disconnect, TypeOK
  <2> QED
    BY <1>10, <2>1, <2>2, <2>3, <2>4, SendOverType DEF SendFails, TypeOK
<1>11. ASSUME NEW w \in Sockets, NEW m \in Matches, Connect(w, m)
       PROVE  TypeOK'
  <2>1. stored[m] \in SequenceOf
    BY <1>11, LiveAssumption DEF Connect, TypeOK, SequenceOf
  <2>2. NewConnection \in ManagedConnection
    BY DEF NewConnection, ManagedConnection
  <2>3. conn' \in [Sockets -> ManagedConnection] /\ \A v \in Sockets \ {w} : conn'[v] = conn[v]
    BY <1>11, <2>2 DEF Connect, TypeOK
  <2>4. \A v \in sending'.targets : conn'[v].ready
    BY <1>11, <2>3 DEF Connect, TypeOK, Broadcast
  <2> QED
    BY <1>11, <2>1, <2>3, <2>4 DEF Connect, TypeOK, LockFree
<1>12. ASSUME NEW w \in Sockets, SnapshotSent(w)
       PROVE  TypeOK'
  <2>1. snapshot[w] \in SequenceOf
    BY <1>12, LiveAssumption DEF SnapshotSent, SocketInv, TypeOK, SequenceOf
  <2>2. received' \in [Sockets -> Seq(Message)]
    BY <1>12, <2>1, ReceiveType DEF SnapshotSent
  <2>3. Ready(w) \in ManagedConnection /\ Ready(w).ready
    BY <2>1 DEF Ready, ManagedConnection, TypeOK
  <2>4. conn' \in [Sockets -> ManagedConnection] /\ \A v \in sending.targets : conn'[v].ready
    BY <1>12, <2>3 DEF SnapshotSent, TypeOK, Broadcast
  <2>5. endpoint' \in [Sockets -> {"closed", "snapshot", "notifying", "receiving"}]
    BY <1>12 DEF SnapshotSent, AfterSnapshot, TypeOK
  <2> QED
    BY <1>12, <2>2, <2>4, <2>5 DEF SnapshotSent, TypeOK, LockFree
<1>13. ASSUME NEW w \in Sockets, Leave(w)
       PROVE  TypeOK'
  BY <1>13 DEF Leave, TypeOK, LockFree
<1>14. ASSUME NEW w \in Sockets, EndEndpoint(w)
       PROVE  TypeOK'
  BY <1>14 DEF EndEndpoint, Disconnect, TypeOK, LockFree
<1>15. CASE Restart
  <2>1. faults' \in 0 .. MaxFaults
    BY <1>15, LiveAssumption DEF Restart, TypeOK
  <2> QED
    BY <1>15, <2>1, NewProcessType DEF Restart, TypeOK, LockFree
<1>16. CASE UNCHANGED vars
  BY <1>16 DEF vars, TypeOK, LockFree
<1> QED
  BY <1>1, <1>2, <1>3, <1>4, <1>5, <1>6, <1>7, <1>8, <1>9, <1>10, <1>11, <1>12, <1>13,
     <1>14, <1>15, <1>16 DEF Next

\* A new process, with no row in the database, has the right types.
LEMMA TypeInit == Init => TypeOK
<1> SUFFICES ASSUME Init PROVE TypeOK
  OBVIOUS
<1>1. /\ stored \in [Matches -> 0 .. MaxSequence] /\ rebuilds \in 0 .. MaxRebuilds
      /\ channel \in [Matches -> Nat] /\ waiting \in [Matches -> Nat]
      /\ lost \in [Matches -> BOOLEAN] /\ faults \in 0 .. MaxFaults
  BY LiveAssumption DEF Init
<1>2. /\ sending \in Broadcast /\ LockFree /\ sending = NoBroadcast
      /\ conn \in [Sockets -> ManagedConnection]
      /\ received \in [Sockets -> Seq(Message)]
  BY NewProcessType DEF Init, LockFree
<1> QED
  BY <1>1, <1>2 DEF Init, TypeOK, LockFree

-----------------------------------------------------------------------------
(***************************************************************************)
(* The order of what a socket gets.                                        *)
(***************************************************************************)
\* What receiving a message does to the messages of a socket.
LEMMA Received ==
  ASSUME TypeOK, NEW w \in Sockets, NEW type \in {"snapshot", "state_update"},
         NEW sequence \in SequenceOf, Receive(w, type, sequence)
  PROVE  /\ \A v \in Sockets \ {w} : received'[v] = received[v]
         /\ peer[w] # "open" => received'[w] = received[w]
         /\ peer[w] = "open" =>
              /\ received'[w] # <<>>
              /\ NewestSequence(w)' = sequence
              /\ DOMAIN received'[w] = 1 .. Len(received[w]) + 1
              /\ \A i \in DOMAIN received[w] : received'[w][i] = received[w][i]
              /\ received'[w][Len(received[w]) + 1] = [type |-> type, sequence |-> sequence]
<1>1. \A v \in Sockets \ {w} : received'[v] = received[v]
  BY DEF Receive, TypeOK
<1>2. peer[w] # "open" => received'[w] = received[w]
  BY DEF Receive, TypeOK
<1>3. ASSUME peer[w] = "open"
      PROVE  received'[w] = Append(received[w], [type |-> type, sequence |-> sequence])
  BY <1>3 DEF Receive, TypeOK
<1>4. received[w] \in Seq(Message) /\ [type |-> type, sequence |-> sequence] \in Message
  BY DEF TypeOK, Message
<1> QED
  BY <1>1, <1>2, <1>3, <1>4 DEF NewestSequence

\* The newest message of a socket that has got one carries a sequence.
LEMMA NewestType ==
  ASSUME TypeOK, NEW w \in Sockets, received[w] # <<>>
  PROVE  NewestSequence(w) \in SequenceOf /\ NewestSequence(w) \in Int
<1>1. received[w] \in Seq(Message) /\ Len(received[w]) \in DOMAIN received[w]
  BY DEF TypeOK
<1>2. received[w][Len(received[w])] \in Message
  BY <1>1
<1> QED
  BY <1>2 DEF NewestSequence, Message, SequenceOf

\* A socket keeps the order if it gets its snapshot first and then newer states.
LEMMA OrderKept ==
  ASSUME TypeOK, StreamOrder, NEW w \in Sockets, NEW type \in {"snapshot", "state_update"},
         NEW sequence \in SequenceOf, Receive(w, type, sequence),
         peer[w] = "open" =>
           IF type = "snapshot"
           THEN received[w] = <<>>
           ELSE received[w] # <<>> /\ NewestSequence(w) < sequence
  PROVE  StreamOrder'
<1> SUFFICES ASSUME NEW v \in Sockets, NEW i \in DOMAIN received'[v]
             PROVE  /\ received'[v][i].type = IF i = 1 THEN "snapshot" ELSE "state_update"
                    /\ i > 1 => received'[v][i].sequence > received'[v][i - 1].sequence
  BY DEF StreamOrder
<1>0. /\ received[w] \in Seq(Message) /\ sequence \in Int
      /\ \A u \in Sockets \ {w} : received'[u] = received[u]
      /\ peer[w] # "open" => received'[w] = received[w]
  <2>1. received[w] \in Seq(Message) /\ sequence \in Int
    BY DEF TypeOK, SequenceOf
  <2> QED
    BY <2>1, Received
<1>1. CASE received'[v] = received[v]
  BY <1>1 DEF StreamOrder
<1>2. CASE received'[v] # received[v]
  <2>1. v = w /\ peer[w] = "open"
    BY <1>0, <1>2
  <2>2. /\ DOMAIN received'[w] = 1 .. Len(received[w]) + 1
        /\ \A j \in DOMAIN received[w] : received'[w][j] = received[w][j]
        /\ received'[w][Len(received[w]) + 1] = [type |-> type, sequence |-> sequence]
    BY <2>1, Received
  <2>3. DOMAIN received[w] = 1 .. Len(received[w]) /\ Len(received[w]) \in Nat
    BY <1>0
  <2>4. CASE i \in DOMAIN received[w]
    <3>1. i > 1 => i - 1 \in DOMAIN received[w]
      BY <2>3, <2>4
    <3> QED
      BY <2>1, <2>2, <2>4, <3>1 DEF StreamOrder
  <2>5. CASE i = Len(received[w]) + 1
    <3>1. i = 1 <=> received[w] = <<>>
      BY <1>0, <2>5
    <3>2. i > 1 => received'[w][i - 1].sequence = NewestSequence(w)
      BY <2>2, <2>3, <2>5 DEF NewestSequence
    <3>3. received[w] # <<>> => NewestSequence(w) \in Int
      BY NewestType
    <3> QED
      BY <1>0, <2>1, <2>2, <2>5, <3>1, <3>2, <3>3
  <2> QED
    BY <2>1, <2>2, <2>3, <2>4, <2>5
<1> QED
  BY <1>1, <1>2

\* The facts about the sockets, one conjunct of the invariant each.
SocketFacts == SocketInv /\ BroadcastInv /\ DeliveredInv /\ StreamOrder

\* Commits, notifications and the listener do not touch the sockets.
LEMMA DatabaseStep ==
  ASSUME LiveInv, UNCHANGED <<sending, connections, conn, session, client>>,
         \A m \in Matches : stored'[m] \in Int /\ stored'[m] >= stored[m]
  PROVE  SocketFacts'
<1> USE DEF session, client, LiveInv
<1>1. SocketInv'
  <2> SUFFICES ASSUME NEW w \in Sockets, endpoint[w] # "closed"
               PROVE  /\ snapshot[w] \in 1 .. stored'[stream[w]]
                      /\ endpoint[w] \in {"notifying", "receiving"} =>
                           conn[w].last_sequence \in 1 .. stored'[stream[w]]
    BY DEF SocketInv, NewestSequence
  <2>1. stream[w] \in Matches /\ stored[stream[w]] \in Int
    BY DEF SocketInv, TypeOK
  <2> QED
    BY <2>1 DEF SocketInv
<1>2. BroadcastInv' /\ DeliveredInv' /\ StreamOrder'
  BY DEF BroadcastInv, DeliveredInv, StreamOrder, NewestSequence
<1> QED
  BY <1>1, <1>2 DEF SocketFacts

\* Whoever gets the lock, nobody is being sent anything.
LEMMA AcquireFacts ==
  ASSUME LiveInv, NEW m \in Matches, NEW owner \in Sockets \cup {None}, Acquire(m, owner)
  PROVE  /\ sending.targets = {} /\ sending.owner = None
         /\ owner # None => endpoint[owner] = "notifying" /\ stream[owner] = m
         /\ \A w \in Sockets : /\ Resumed(owner)[w] = "closed" <=> endpoint[w] = "closed"
                               /\ Resumed(owner)[w] = "snapshot" <=> endpoint[w] = "snapshot"
<1>1. sending.targets = {} /\ sending.owner = None
  BY DEF Acquire, LockFree, LiveInv, TypeOK, NoBroadcast
<1>2. owner # None => endpoint[owner] = "notifying" /\ stream[owner] = m
  BY DEF Acquire
<1> QED
  BY <1>1, <1>2 DEF Resumed, LiveInv, TypeOK

\* A broadcast begins: the manager notes the new state for those it sends it to.
LEMMA DispatchStep ==
  ASSUME LiveInv, TypeOK', NEW m \in Matches, NEW owner \in Sockets \cup {None},
         Dispatch(m, owner)
  PROVE  SocketFacts'
<1> DEFINE T == Targets(m, stored[m])
<1>0. TypeOK /\ SocketInv /\ BroadcastInv /\ DeliveredInv /\ StreamOrder
  BY DEF LiveInv
<1>1. UNCHANGED <<stored, connections, stream, snapshot, client>>
  BY DEF Dispatch, database, client
<1>2. /\ \A w \in Sockets : /\ conn'[w].ready = conn[w].ready
                            /\ conn'[w].last_sequence =
                                 IF w \in T THEN stored[m] ELSE conn[w].last_sequence
      /\ T \subseteq connections
      /\ T # {} => stored[m] \in SequenceOf
  BY <1>0, DispatchType DEF Dispatch
<1>3. /\ sending.targets = {} /\ sending.owner = None
      /\ owner # None => endpoint[owner] = "notifying"
      /\ \A w \in Sockets : /\ endpoint'[w] = "closed" <=> endpoint[w] = "closed"
                            /\ endpoint'[w] = "snapshot" <=> endpoint[w] = "snapshot"
  BY AcquireFacts DEF Dispatch
<1>4. \A w \in T : w \in Sockets /\ stream[w] = m /\ endpoint[w] \in {"notifying", "receiving"}
  BY <1>0 DEF Targets, Subscribers, TypeOK, SocketInv
<1>5. \A w \in Sockets : endpoint[w] \in {"notifying", "receiving"} <=>
        endpoint'[w] \in {"notifying", "receiving"}
  <2>1. \A w \in Sockets : /\ endpoint[w] \in {"closed", "snapshot", "notifying", "receiving"}
                           /\ endpoint'[w] \in {"closed", "snapshot", "notifying", "receiving"}
    BY <1>0 DEF TypeOK
  <2> QED
    BY <1>3, <2>1
<1>6. IF T = {} THEN sending' = sending
      ELSE endpoint' = endpoint /\ sending' = [sequence |-> stored[m], targets |-> T, owner |-> owner]
  BY DEF Dispatch
<1>7. \A w \in Sockets :
        /\ NewestSequence(w)' = NewestSequence(w)
        /\ peer[w] = "open" /\ endpoint[w] # "snapshot" =>
             NewestSequence(w) = conn[w].last_sequence \/ w \notin connections
  <2>1. \A w \in Sockets : NewestSequence(w)' = NewestSequence(w)
    BY <1>1 DEF client, NewestSequence
  <2>2. \A w \in connections : peer[w] = "open" /\ endpoint[w] # "snapshot" =>
          NewestSequence(w) = conn[w].last_sequence
    BY <1>0, <1>3 DEF DeliveredInv
  <2> QED
    BY <2>1, <2>2
<1>8. \A w \in T :
        /\ conn[w].last_sequence \in Int /\ stored[m] > conn[w].last_sequence
        /\ stored[m] \in 1 .. stored[stream[w]]
        /\ peer[w] = "open" => NewestSequence(w) \in Int /\ NewestSequence(w) < stored[m]
  <2> TAKE w \in T
  <2>1. conn[w].last_sequence \in Int /\ stored[m] \in Int /\ stored[m] >= 1
    BY <1>0, <1>2, <1>4 DEF SocketInv, TypeOK, SequenceOf
  <2>2. stored[m] > conn[w].last_sequence
    BY <2>1, <1>4, LiveAssumption DEF Targets, IsNewer
  <2>3. peer[w] = "open" => NewestSequence(w) = conn[w].last_sequence
    BY <1>2, <1>4, <1>7
  <2> QED
    BY <1>4, <2>1, <2>2, <2>3
<1>9. SocketInv'
  <2> SUFFICES ASSUME NEW w \in Sockets
               PROVE  /\ endpoint'[w] = "closed" <=> peer[w] = "away"
                      /\ w \in connections => endpoint'[w] # "closed"
                      /\ endpoint'[w] # "closed" =>
                           stream[w] \in Matches /\ snapshot[w] \in 1 .. stored[stream[w]]
                      /\ endpoint'[w] = "snapshot" =>
                           w \in connections /\ ~conn'[w].ready /\ received[w] = <<>>
                      /\ endpoint'[w] \in {"notifying", "receiving"} =>
                           /\ conn'[w].ready
                           /\ conn'[w].last_sequence \in 1 .. stored[stream[w]]
                           /\ peer[w] = "open" =>
                                received[w] # <<>> /\ NewestSequence(w) <= conn'[w].last_sequence
    BY <1>1, <1>7 DEF SocketInv, client
  <2>1. endpoint'[w] \in {"notifying", "receiving"} => endpoint[w] \in {"notifying", "receiving"}
    BY <1>5
  <2>2. CASE w \in T
    <3>1. /\ conn'[w].last_sequence = stored[m] /\ conn'[w].ready = conn[w].ready
          /\ stored[m] \in 1 .. stored[stream[w]]
          /\ peer[w] = "open" => NewestSequence(w) \in Int /\ NewestSequence(w) < stored[m]
      BY <1>2, <1>8, <2>2
    <3>2. peer[w] = "open" => NewestSequence(w) <= stored[m]
      BY <3>1, <1>0, LiveAssumption DEF TypeOK
    <3> QED
      BY <1>0, <1>3, <2>1, <3>1, <3>2 DEF SocketInv
  <2>3. CASE w \notin T
    BY <1>0, <1>2, <1>3, <2>1, <2>3 DEF SocketInv
  <2> QED
    BY <2>2, <2>3
<1>10. BroadcastInv'
  <2>1. CASE T = {}
    BY <1>3, <1>6, <2>1 DEF BroadcastInv
  <2>2. CASE T # {}
    <3>1. /\ sending'.targets = T /\ sending'.owner = owner /\ sending'.sequence = stored[m]
          /\ endpoint' = endpoint
      BY <1>6, <2>2
    <3> QED
      BY <1>1, <1>2, <1>3, <1>4, <1>7, <1>8, <3>1 DEF BroadcastInv, client
  <2> QED
    BY <2>1, <2>2
<1>11. DeliveredInv'
  <2> SUFFICES ASSUME NEW w \in connections \ sending'.targets, endpoint'[w] # "snapshot",
                      peer[w] = "open"
               PROVE  NewestSequence(w) = conn'[w].last_sequence
    BY <1>0, <1>1, <1>7 DEF DeliveredInv, client, TypeOK
  <2>1. w \in Sockets /\ w \notin T
    BY <1>0, <1>6 DEF TypeOK
  <2> QED
    BY <1>2, <1>3, <1>7, <2>1
<1>12. StreamOrder'
  BY <1>0, <1>1 DEF StreamOrder, client
<1> QED
  BY <1>9, <1>10, <1>11, <1>12 DEF SocketFacts

\* A read that fails tells nobody anything.
LEMMA DispatchFailsStep ==
  ASSUME LiveInv, NEW m \in Matches, NEW owner \in Sockets \cup {None},
         DispatchFails(m, owner)
  PROVE  SocketFacts'
<1>0. TypeOK /\ SocketInv /\ BroadcastInv /\ DeliveredInv /\ StreamOrder
  BY DEF LiveInv
<1>1. UNCHANGED <<stored, sending, connections, conn, stream, snapshot, peer, received>>
  BY DEF DispatchFails, database, manager, client
<1>2. sending.targets = {} /\ sending.owner = None
  BY AcquireFacts DEF DispatchFails
<1>3. \A w \in Sockets : /\ endpoint'[w] = "closed" <=> endpoint[w] = "closed"
                         /\ endpoint'[w] = "snapshot" <=> endpoint[w] = "snapshot"
                         /\ endpoint'[w] \in {"notifying", "receiving"} =>
                              endpoint[w] \in {"notifying", "receiving"}
  <2>1. \A w \in Sockets : endpoint[w] \in {"closed", "snapshot", "notifying", "receiving"}
    BY <1>0 DEF TypeOK
  <2> QED
    BY <2>1, AcquireFacts DEF DispatchFails
<1>4. SocketInv'
  BY <1>0, <1>1, <1>3 DEF SocketInv, NewestSequence
<1>5. BroadcastInv'
  BY <1>1, <1>2 DEF BroadcastInv
<1>6. DeliveredInv'
  BY <1>0, <1>1, <1>3 DEF DeliveredInv, NewestSequence, TypeOK
<1>7. StreamOrder'
  BY <1>0, <1>1 DEF StreamOrder
<1> QED
  BY <1>4, <1>5, <1>6, <1>7 DEF SocketFacts

\* The end of a send takes its target from the broadcast; the last one lets the
\* owner of the broadcast go on.
LEMMA SendOverFacts ==
  ASSUME LiveInv, NEW w \in Sockets, SendOver(w)
  PROVE  /\ w \in sending.targets /\ sending.sequence \in SequenceOf
         /\ sending'.targets = sending.targets \ {w}
         /\ sending'.targets # {} =>
              sending'.sequence = sending.sequence /\ sending'.owner = sending.owner
         /\ IF sending'.targets = {}
            THEN sending'.owner = None /\ endpoint' = Resumed(sending.owner)
            ELSE endpoint' = endpoint
         /\ \A v \in Sockets : /\ endpoint'[v] = "closed" <=> endpoint[v] = "closed"
                               /\ endpoint'[v] = "snapshot" <=> endpoint[v] = "snapshot"
                               /\ endpoint'[v] \in {"notifying", "receiving"} =>
                                    endpoint[v] \in {"notifying", "receiving"}
<1>0. /\ TypeOK /\ BroadcastInv /\ sending \in Broadcast
      /\ \A v \in Sockets : endpoint[v] \in {"closed", "snapshot", "notifying", "receiving"}
  BY DEF LiveInv, TypeOK
<1>1. w \in sending.targets /\ sending.sequence \in SequenceOf
  BY <1>0 DEF SendOver, LockFree, TypeOK
<1>2. CASE sending.targets = {w}
  <2>1. /\ sending'.targets = {} /\ sending'.owner = None
        /\ endpoint' = Resumed(sending.owner)
    BY <1>2 DEF SendOver, NoBroadcast
  <2>2. sending.owner \in Sockets \cup {None}
    BY <1>0 DEF Broadcast
  <2>3. \A v \in Sockets : endpoint'[v] =
          IF v = sending.owner THEN "receiving" ELSE endpoint[v]
    BY <1>0, <2>1, <2>2, LiveAssumption DEF Resumed, TypeOK
  <2>4. sending.owner # None => endpoint[sending.owner] = "notifying"
    BY <1>0 DEF BroadcastInv
  <2> QED
    BY <1>0, <1>1, <1>2, <2>1, <2>2, <2>3, <2>4, LiveAssumption
<1>3. CASE sending.targets # {w}
  <2>1. sending' = [sending EXCEPT !.targets = @ \ {w}] /\ endpoint' = endpoint
    BY <1>3 DEF SendOver
  <2>2. /\ sending'.targets = sending.targets \ {w}
        /\ sending'.sequence = sending.sequence /\ sending'.owner = sending.owner
    BY <1>0, <2>1 DEF Broadcast
  <2> QED
    BY <1>1, <1>3, <2>1, <2>2
<1> QED
  BY <1>2, <1>3

\* The end of a send, whether the message arrives or not: only if it has arrived
\* may the socket stay registered.
LEMMA SendStep ==
  ASSUME LiveInv, TypeOK', NEW w \in Sockets, SendOver(w),
         UNCHANGED <<stored, conn, stream, snapshot, peer>>,
         \/ Receive(w, "state_update", sending.sequence) /\ connections' \subseteq connections
         \/ UNCHANGED received /\ connections' = connections \ {w},
         \A v \in connections \ {w} : v \in connections'
  PROVE  SocketFacts'
<1>0. TypeOK /\ SocketInv /\ BroadcastInv /\ DeliveredInv /\ StreamOrder
  BY DEF LiveInv
<1>1. /\ w \in sending.targets /\ sending.sequence \in SequenceOf
      /\ sending'.targets = sending.targets \ {w}
      /\ sending'.targets # {} =>
           sending'.sequence = sending.sequence /\ sending'.owner = sending.owner
      /\ IF sending'.targets = {} THEN sending'.owner = None ELSE endpoint' = endpoint
      /\ \A v \in Sockets : /\ endpoint'[v] = "closed" <=> endpoint[v] = "closed"
                            /\ endpoint'[v] = "snapshot" <=> endpoint[v] = "snapshot"
                            /\ endpoint'[v] \in {"notifying", "receiving"} =>
                                 endpoint[v] \in {"notifying", "receiving"}
  BY SendOverFacts
<1>2. \A v \in Sockets \ {w} : received'[v] = received[v] /\ NewestSequence(v)' = NewestSequence(v)
  <2>1. \A v \in Sockets \ {w} : received'[v] = received[v]
    BY <1>0, <1>1, Received
  <2> QED
    BY <2>1 DEF NewestSequence
<1>3. conn[w].ready /\ endpoint[w] # "snapshot"
  BY <1>0, <1>1 DEF TypeOK, SocketInv
<1>4. peer[w] = "open" =>
        /\ endpoint[w] \in {"notifying", "receiving"}
        /\ received[w] # <<>> /\ NewestSequence(w) < sending.sequence
        /\ sending.sequence = conn[w].last_sequence
  BY <1>0, <1>1, <1>3 DEF TypeOK, SocketInv, BroadcastInv
<1>5. peer[w] = "open" =>
        /\ received'[w] # <<>>
        /\ NewestSequence(w)' <= conn[w].last_sequence
        /\ w \in connections' => NewestSequence(w)' = conn[w].last_sequence
  <2>1. CASE Receive(w, "state_update", sending.sequence)
    <3>1. peer[w] = "open" => received'[w] # <<>> /\ NewestSequence(w)' = sending.sequence
      BY <1>0, <1>1, <2>1, Received
    <3> QED
      BY <1>1, <1>4, <3>1 DEF SequenceOf
  <2>2. CASE UNCHANGED received /\ connections' = connections \ {w}
    <3>1. received[w] # <<>> => NewestSequence(w) \in Int
      BY <1>0, NewestType
    <3> QED
      BY <1>1, <1>4, <2>2, <3>1 DEF NewestSequence, SequenceOf
  <2> QED
    BY <2>1, <2>2
<1>6. SocketInv'
  BY <1>0, <1>1, <1>2, <1>3, <1>5 DEF SocketInv
<1>7. BroadcastInv'
  BY <1>0, <1>1, <1>2 DEF BroadcastInv, TypeOK, Broadcast
<1>8. DeliveredInv'
  BY <1>0, <1>1, <1>2, <1>5 DEF DeliveredInv, TypeOK
<1>9. StreamOrder'
  <2>1. CASE Receive(w, "state_update", sending.sequence)
    BY <1>0, <1>1, <1>4, <2>1, OrderKept
  <2>2. CASE UNCHANGED received
    BY <1>0, <2>2 DEF StreamOrder
  <2> QED
    BY <2>1, <2>2
<1> QED
  BY <1>6, <1>7, <1>8, <1>9 DEF SocketFacts

\* A socket is registered before the state is read for its snapshot.
LEMMA ConnectStep ==
  ASSUME LiveInv, NEW w \in Sockets, NEW m \in Matches, Connect(w, m)
  PROVE  SocketFacts'
<1>0. TypeOK /\ SocketInv /\ BroadcastInv /\ DeliveredInv /\ StreamOrder
  BY DEF LiveInv
<1>1. /\ UNCHANGED <<stored, sending>> /\ stored[m] \in 1 .. stored[m]
      /\ endpoint[w] = "closed" /\ w \notin sending.targets
      /\ connections' = connections \cup {w}
  BY <1>0, LiveAssumption DEF Connect, database, TypeOK
<1>2. /\ endpoint'[w] = "snapshot" /\ stream'[w] = m /\ snapshot'[w] = stored[m]
      /\ peer'[w] = "open" /\ received'[w] = <<>> /\ ~conn'[w].ready
  BY <1>0 DEF Connect, TypeOK, NewConnection
<1>3. \A v \in Sockets \ {w} :
        /\ endpoint'[v] = endpoint[v] /\ stream'[v] = stream[v] /\ snapshot'[v] = snapshot[v]
        /\ peer'[v] = peer[v] /\ received'[v] = received[v] /\ conn'[v] = conn[v]
        /\ NewestSequence(v)' = NewestSequence(v)
  BY <1>0 DEF Connect, TypeOK, NewestSequence
<1>4. SocketInv'
  BY <1>0, <1>1, <1>2, <1>3 DEF SocketInv
<1>5. BroadcastInv'
  <2>1. sending.owner # None => sending.owner \in Sockets \ {w}
    BY <1>0, <1>1 DEF BroadcastInv, TypeOK, Broadcast
  <2>2. sending.targets \subseteq Sockets \ {w}
    BY <1>0, <1>1 DEF TypeOK, Broadcast
  <2> QED
    BY <1>0, <1>1, <1>3, <2>1, <2>2 DEF BroadcastInv
<1>6. DeliveredInv'
  BY <1>0, <1>1, <1>2, <1>3 DEF DeliveredInv, TypeOK
<1>7. StreamOrder'
  BY <1>0, <1>2, <1>3 DEF StreamOrder
<1> QED
  BY <1>4, <1>5, <1>6, <1>7 DEF SocketFacts

\* The snapshot arrives, and the manager notes its sequence.
LEMMA SnapshotStep ==
  ASSUME LiveInv, NEW w \in Sockets, SnapshotSent(w)
  PROVE  SocketFacts'
<1>0. TypeOK /\ SocketInv /\ BroadcastInv /\ DeliveredInv /\ StreamOrder
  BY DEF LiveInv
<1>1. /\ UNCHANGED <<stored, sending, connections, stream, snapshot, peer>>
      /\ endpoint[w] = "snapshot"
  BY DEF SnapshotSent, database
<1>2. /\ stream[w] \in Matches /\ snapshot[w] \in 1 .. stored[stream[w]]
      /\ snapshot[w] \in SequenceOf /\ snapshot[w] \in Int
      /\ ~conn[w].ready /\ received[w] = <<>> /\ peer[w] # "away"
  <2>1. stream[w] \in Matches /\ snapshot[w] \in 1 .. stored[stream[w]]
    BY <1>0, <1>1 DEF SocketInv
  <2>2. stored[stream[w]] \in 0 .. MaxSequence
    BY <1>0, <2>1 DEF TypeOK
  <2> QED
    BY <1>0, <1>1, <2>1, <2>2, LiveAssumption DEF SocketInv, SequenceOf
<1>3. /\ endpoint'[w] \in {"notifying", "receiving"}
      /\ conn'[w].ready /\ conn'[w].last_sequence = snapshot[w]
  <2>1. conn[w] \in ManagedConnection /\ conn'[w] = Ready(w)
    BY <1>0 DEF SnapshotSent, TypeOK
  <2> QED
    BY <1>0, <2>1 DEF SnapshotSent, AfterSnapshot, Ready, ManagedConnection, TypeOK
<1>4. Receive(w, "snapshot", snapshot[w])
  BY DEF SnapshotSent
<1>5. \A v \in Sockets \ {w} :
        /\ endpoint'[v] = endpoint[v] /\ conn'[v] = conn[v] /\ received'[v] = received[v]
        /\ NewestSequence(v)' = NewestSequence(v)
  <2>1. \A v \in Sockets \ {w} : received'[v] = received[v]
    BY <1>0, <1>2, <1>4, Received
  <2> QED
    BY <1>0, <2>1 DEF SnapshotSent, TypeOK, NewestSequence
<1>6. peer[w] = "open" => received'[w] # <<>> /\ NewestSequence(w)' = snapshot[w]
  BY <1>0, <1>2, <1>4, Received
<1>7. w \notin sending.targets /\ sending.owner # w
  BY <1>0, <1>1, <1>2, LiveAssumption DEF TypeOK, BroadcastInv
<1>8. SocketInv'
  <2>1. peer[w] = "open" => NewestSequence(w)' <= snapshot[w]
    BY <1>2, <1>6
  <2> QED
    BY <1>0, <1>1, <1>2, <1>3, <1>5, <1>6, <2>1 DEF SocketInv
<1>9. BroadcastInv'
  <2>1. sending.owner # None => sending.owner \in Sockets \ {w}
    BY <1>0, <1>7 DEF BroadcastInv, TypeOK, Broadcast
  <2>2. sending.targets \subseteq Sockets \ {w}
    BY <1>0, <1>7 DEF TypeOK, Broadcast
  <2> QED
    BY <1>0, <1>1, <1>5, <2>1, <2>2 DEF BroadcastInv
<1>10. DeliveredInv'
  <2> SUFFICES ASSUME NEW v \in connections \ sending.targets,
                      endpoint'[v] # "snapshot", peer[v] = "open"
               PROVE  NewestSequence(v)' = conn'[v].last_sequence
    BY <1>1 DEF DeliveredInv
  <2>1. CASE v = w
    BY <1>3, <1>6, <2>1
  <2>2. CASE v # w
    <3>1. v \in Sockets \ {w}
      BY <1>0, <2>2 DEF TypeOK
    <3> QED
      BY <1>0, <1>5, <3>1 DEF DeliveredInv
  <2> QED
    BY <2>1, <2>2
<1>11. StreamOrder'
  BY <1>0, <1>2, <1>4, OrderKept
<1> QED
  BY <1>8, <1>9, <1>10, <1>11 DEF SocketFacts

\* A client that leaves, and its endpoint that ends.
LEMMA EndStep ==
  ASSUME LiveInv, NEW w \in Sockets, Leave(w) \/ EndEndpoint(w)
  PROVE  SocketFacts'
<1>0. TypeOK /\ SocketInv /\ BroadcastInv /\ DeliveredInv /\ StreamOrder
  BY DEF LiveInv
<1>1. /\ UNCHANGED <<stored, sending, conn, stream, snapshot, received>>
      /\ \A v \in Sockets : NewestSequence(v)' = NewestSequence(v)
  BY DEF Leave, EndEndpoint, database, manager, session, NewestSequence
<1>2. \A v \in Sockets \ {w} : endpoint'[v] = endpoint[v] /\ peer'[v] = peer[v]
  BY <1>0 DEF Leave, EndEndpoint, session, TypeOK
<1>3. /\ peer'[w] # "open"
      /\ IF endpoint'[w] = "closed"
         THEN peer'[w] = "away" /\ connections' = connections \ {w}
         ELSE endpoint' = endpoint /\ peer'[w] = "left" /\ connections' = connections
  <2>1. CASE Leave(w)
    BY <1>0, <2>1 DEF Leave, session, manager, SocketInv, TypeOK
  <2>2. CASE EndEndpoint(w)
    BY <1>0, <2>2 DEF EndEndpoint, Disconnect, TypeOK
  <2> QED
    BY <2>1, <2>2
<1>4. endpoint[w] = "notifying" => endpoint' = endpoint
  BY DEF Leave, EndEndpoint, session
<1>5. connections' \subseteq connections /\ \A v \in connections \ {w} : v \in connections'
  BY <1>3
<1>6. SocketInv'
  BY <1>0, <1>1, <1>2, <1>3, <1>5 DEF SocketInv
<1>7. BroadcastInv'
  <2>1. sending.owner # None => endpoint'[sending.owner] = "notifying"
    BY <1>0, <1>2, <1>4 DEF BroadcastInv, TypeOK, Broadcast
  <2>2. \A v \in sending.targets : endpoint'[v] # "closed" =>
          /\ endpoint[v] # "closed"
          /\ peer'[v] = "open" => peer[v] = "open"
    BY <1>0, <1>2, <1>3 DEF TypeOK, Broadcast
  <2> QED
    BY <1>0, <1>1, <2>1, <2>2 DEF BroadcastInv, TypeOK, Broadcast
<1>8. DeliveredInv'
  BY <1>0, <1>1, <1>2, <1>3, <1>5 DEF DeliveredInv, TypeOK
<1>9. StreamOrder'
  BY <1>0, <1>1 DEF StreamOrder
<1> QED
  BY <1>6, <1>7, <1>8, <1>9 DEF SocketFacts

\* A new process knows no socket.
LEMMA NewProcess ==
  ASSUME sending = NoBroadcast, connections = {},
         endpoint = [w \in Sockets |-> "closed"], peer = [w \in Sockets |-> "away"],
         received = [w \in Sockets |-> <<>>]
  PROVE  SocketFacts
BY DEF SocketFacts, SocketInv, BroadcastInv, DeliveredInv, StreamOrder, NoBroadcast

\* Every step preserves the invariant of the sockets.
LEMMA LiveStep == LiveInv /\ [Next]_vars => LiveInv'
<1> SUFFICES ASSUME LiveInv, [Next]_vars
             PROVE  TypeOK' /\ SocketFacts'
  BY DEF LiveInv, SocketFacts
<1>0. TypeOK /\ TypeOK'
  BY TypeStep DEF LiveInv
<1>1. ASSUME UNCHANGED <<stored, sending, connections, conn, session, client>>
      PROVE  SocketFacts'
  <2>1. \A m \in Matches : stored[m] \in Int /\ stored[m] >= stored[m]
    BY <1>0 DEF TypeOK
  <2> QED
    BY <1>1, <2>1, DatabaseStep
<1>2. ASSUME NEW m \in Matches, Commit(m)
      PROVE  SocketFacts'
  <2>1. \A n \in Matches : stored'[n] \in Int /\ stored'[n] >= stored[n]
    BY <1>0, <1>2 DEF Commit, TypeOK
  <2> QED
    BY <1>2, <2>1, DatabaseStep DEF Commit, manager
<1>3. ASSUME NEW m \in Matches, Rebuild(m) \/ Forward(m)
      PROVE  SocketFacts'
  BY <1>1, <1>3 DEF Rebuild, Forward, database, manager
<1>4. CASE Listen \/ ListenerFails \/ Serve
  <2>1. UNCHANGED <<stored, sending, connections, conn, session, client>>
    BY <1>4 DEF Listen, ListenerFails, Serve, database, manager
  <2> QED
    BY <1>0, <1>1, <2>1
<1>5. ASSUME NEW w \in Sockets, Deliver(w) \/ SendFails(w)
      PROVE  SocketFacts'
  <2>1. /\ SendOver(w)
        /\ UNCHANGED <<stored, conn, stream, snapshot, peer>>
    BY <1>5 DEF Deliver, SendFails, database, manager
  <2>2. /\ \/ Receive(w, "state_update", sending.sequence) /\ connections' \subseteq connections
           \/ UNCHANGED received /\ connections' = connections \ {w}
        /\ \A v \in connections \ {w} : v \in connections'
    BY <1>5 DEF Deliver, SendFails, Disconnect, manager
  <2> QED
    BY <1>0, <2>1, <2>2, SendStep
<1>6. CASE Restart
  <2>1. /\ sending'.targets = {} /\ sending'.owner = None /\ connections' = {}
        /\ \A w \in Sockets :
             endpoint'[w] = "closed" /\ peer'[w] = "away" /\ received'[w] = <<>>
    BY <1>6 DEF Restart, NoBroadcast
  <2>2. SocketInv' /\ BroadcastInv' /\ DeliveredInv'
    BY <2>1 DEF SocketInv, BroadcastInv, DeliveredInv
  <2>3. StreamOrder'
    BY <2>1 DEF StreamOrder
  <2> QED
    BY <1>0, <2>2, <2>3 DEF SocketFacts
<1>7. CASE UNCHANGED vars
  <2>1. UNCHANGED <<stored, sending, connections, conn, session, client>>
    BY <1>7 DEF vars, database, manager
  <2> QED
    BY <1>0, <1>1, <2>1
<1> QED
  BY <1>0, <1>2, <1>3, <1>4, <1>5, <1>6, <1>7, DispatchStep, DispatchFailsStep, ConnectStep,
     SnapshotStep, EndStep
  DEF Next

\* The invariant holds at the start.
LEMMA LiveInit == Init => LiveInv
BY TypeInit, NewProcess DEF Init, LiveInv, SocketFacts

(***************************************************************************)
(* Every variable keeps its type, and a broadcast only addresses sockets   *)
(* that are past their snapshot (LiveUpdates' TypeOK).                     *)
(***************************************************************************)
THEOREM TypeCorrect == Spec => []TypeOK
<1>1. LiveInv => TypeOK
  BY DEF LiveInv
<1> QED
  BY <1>1, LiveInit, LiveStep, PTL DEF Spec

(***************************************************************************)
(* Whatever commits, notifications, registrations, failing sends and       *)
(* restarts race, a socket gets its snapshot first and then only newer     *)
(* states (connections.py: broadcast and mark_ready compare sequences).    *)
(***************************************************************************)
THEOREM StreamsInOrder == Spec => []StreamOrder
<1>1. LiveInv => StreamOrder
  BY DEF LiveInv
<1> QED
  BY <1>1, LiveInit, LiveStep, PTL DEF Spec
-----------------------------------------------------------------------------
(***************************************************************************)
(* The gauge of connections.                                               *)
(***************************************************************************)
\* Disconnecting counts down exactly when a connection is forgotten.
LEMMA DisconnectGauge ==
  ASSUME GaugeInv, NEW w \in Sockets, Disconnect(w)
  PROVE  GaugeInv'
<1>1. CASE w \in connections
  <2>1. connections' = connections \ {w} /\ gauge' = gauge - 1
    BY <1>1 DEF Disconnect
  <2> QED
    BY <1>1, <2>1, FS_RemoveElement DEF GaugeInv, GaugeIsRegistered
<1>2. CASE w \notin connections
  BY <1>2 DEF Disconnect, GaugeInv, GaugeIsRegistered
<1> QED
  BY <1>1, <1>2

\* Every step keeps the gauge equal to the number of registered connections.
LEMMA GaugeStep == LiveInv /\ GaugeInv /\ [Next]_vars => GaugeInv'
<1> SUFFICES ASSUME LiveInv, GaugeInv, [Next]_vars
             PROVE  GaugeInv'
  OBVIOUS
<1>1. ASSUME UNCHANGED <<connections, gauge>>
      PROVE  GaugeInv'
  BY <1>1 DEF GaugeInv, GaugeIsRegistered
<1>2. ASSUME NEW m \in Matches, Commit(m) \/ Rebuild(m) \/ Forward(m)
      PROVE  UNCHANGED <<connections, gauge>>
  BY <1>2 DEF Commit, Rebuild, Forward, manager
<1>3. ASSUME NEW m \in Matches, NEW owner \in Sockets \cup {None},
             Dispatch(m, owner) \/ DispatchFails(m, owner)
      PROVE  UNCHANGED <<connections, gauge>>
  BY <1>3 DEF Dispatch, DispatchFails, manager
<1>4. ASSUME NEW w \in Sockets, SnapshotSent(w) \/ Deliver(w) \/ Leave(w)
      PROVE  UNCHANGED <<connections, gauge>>
  BY <1>4 DEF SnapshotSent, Deliver, Leave, manager
<1>5. CASE Listen \/ ListenerFails \/ Serve \/ UNCHANGED vars
  <2>1. UNCHANGED <<connections, gauge>>
    BY <1>5 DEF Listen, ListenerFails, Serve, vars, manager
  <2> QED
    BY <1>1, <2>1
<1>6. ASSUME NEW w \in Sockets, NEW m \in Matches, Connect(w, m)
      PROVE  GaugeInv'
  <2>1. connections' = connections \cup {w} /\ gauge' = gauge + 1
    BY <1>6 DEF Connect
  <2>2. w \notin connections
    BY <1>6 DEF Connect, LiveInv, SocketInv
  <2> QED
    BY <2>1, <2>2, FS_AddElement DEF GaugeInv, GaugeIsRegistered
<1>7. ASSUME NEW w \in Sockets, SendFails(w) \/ EndEndpoint(w)
      PROVE  GaugeInv'
  BY <1>7, DisconnectGauge DEF SendFails, EndEndpoint
<1>8. CASE Restart
  BY <1>8, FS_EmptySet DEF Restart, GaugeInv, GaugeIsRegistered
<1> QED
  BY <1>1, <1>2, <1>3, <1>4, <1>5, <1>6, <1>7, <1>8 DEF Next

(***************************************************************************)
(* The gauge counts the registered connections: no socket is counted down  *)
(* twice, although its failed send and the end of its endpoint may both    *)
(* disconnect it (ConnectionManager.disconnect).                           *)
(***************************************************************************)
THEOREM GaugeCounts == Spec => []GaugeIsRegistered
<1>1. Init => GaugeInv
  BY FS_EmptySet DEF Init, GaugeInv, GaugeIsRegistered
<1>2. GaugeInv => GaugeIsRegistered
  BY DEF GaugeInv
<1> QED
  BY <1>1, <1>2, LiveInit, LiveStep, GaugeStep, PTL DEF Spec

-----------------------------------------------------------------------------
(***************************************************************************)
(* No missed update.                                                       *)
(***************************************************************************)
\* The client has the stored state, or something brings it.
Current(w) == Newest(w) = stored[stream[w]] \/ Coming(w)

\* Unless a notification was lost or the client has gone.
Informed(w) == peer[w] = "open" /\ ~lost[stream[w]] => Current(w)

\* What the newest message of a socket is.
LEMMA NewestIs ==
  /\ \A w : received[w] = <<>> => Newest(w) = None
  /\ \A w : received[w] # <<>> => Newest(w) = NewestSequence(w)
BY DEF Newest, NewestSequence, Last

\* A notification stays outstanding while nobody takes it.
LEMMA OutstandingKept ==
  ASSUME NEW n, Outstanding(n),
         channel[n] > 0 => channel'[n] > 0 \/ waiting'[n] > 0,
         waiting[n] > 0 => waiting'[n] > 0,
         \A v \in Sockets : endpoint[v] = "notifying" /\ stream[v] = n /\ sending.owner # v =>
           endpoint'[v] = "notifying" /\ stream'[v] = n /\ sending'.owner # v
  PROVE  Outstanding(n)'
BY DEF Outstanding

\* A step that leaves a socket alone leaves it informed.
LEMMA InformedKept ==
  ASSUME NEW w \in Sockets, Informed(w),
         stream'[w] = stream[w], snapshot'[w] = snapshot[w], received'[w] = received[w],
         stored'[stream[w]] = stored[stream[w]],
         peer'[w] = "open" => peer[w] = "open",
         ~lost'[stream[w]] => ~lost[stream[w]],
         endpoint[w] = "snapshot" => endpoint'[w] = "snapshot",
         conn[w].pending_notification => conn'[w].pending_notification,
         w \in sending.targets =>
           w \in sending'.targets /\ sending'.sequence = sending.sequence,
         ~lost'[stream[w]] /\ Outstanding(stream[w]) => Outstanding(stream[w])'
  PROVE  Informed(w)'
<1> SUFFICES ASSUME peer'[w] = "open", ~lost'[stream'[w]]
             PROVE  Newest(w)' = stored'[stream'[w]] \/ Coming(w)'
  BY DEF Informed, Current
<1>1. CASE Newest(w) = stored[stream[w]]
  BY <1>1 DEF Newest
<1>2. CASE Coming(w)
  BY <1>2 DEF Coming
<1> QED
  BY <1>1, <1>2 DEF Informed, Current

\* NoMissedUpdate, said of the registered sockets one by one.
LEMMA AllInformed == NoMissedUpdate <=> \A w \in connections : Informed(w)
BY DEF NoMissedUpdate, Informed, Current

\* What is announced is outstanding, or it is noted as lost.
LEMMA AnnounceInforms ==
  ASSUME LiveInv, NoMissedUpdate, NEW m \in Matches, Announce(m),
         UNCHANGED <<waiting, sending, connections, conn, session, client>>,
         \A n \in Matches \ {m} : stored'[n] = stored[n]
  PROVE  \A w \in connections : Informed(w)'
<1> TAKE w \in connections
<1>0. /\ w \in Sockets /\ stream[w] \in Matches /\ Informed(w)
      /\ channel \in [Matches -> Nat] /\ lost \in [Matches -> BOOLEAN]
  BY AllInformed DEF LiveInv, TypeOK, SocketInv
<1>1. CASE stream[w] = m
  <2>1. ~lost'[m] => channel'[m] > 0
    BY <1>0 DEF Announce
  <2> QED
    BY <1>1, <2>1 DEF Informed, Current, Coming, Outstanding, session
<1>2. CASE stream[w] # m
  <2>1. channel'[stream[w]] = channel[stream[w]] /\ lost'[stream[w]] = lost[stream[w]]
    BY <1>0, <1>2 DEF Announce
  <2>2. Outstanding(stream[w]) => Outstanding(stream[w])'
    BY <2>1, OutstandingKept DEF session
  <2> QED
    BY <1>0, <1>2, <2>1, <2>2, InformedKept DEF session, client
<1> QED
  BY <1>1, <1>2

\* What the listener takes from its connection waits for the lock; what a broken
\* connection had not delivered is noted as lost.
LEMMA ListenerInforms ==
  ASSUME LiveInv, NoMissedUpdate, ListenerFails \/ \E m \in Matches : Forward(m)
  PROVE  \A w \in connections : Informed(w)'
<1> TAKE w \in connections
<1>0. /\ w \in Sockets /\ stream[w] \in Matches /\ Informed(w)
      /\ channel \in [Matches -> Nat] /\ waiting \in [Matches -> Nat]
      /\ lost \in [Matches -> BOOLEAN]
  BY AllInformed DEF LiveInv, TypeOK, SocketInv
<1>1. UNCHANGED <<stored, sending, conn, session, client>>
  BY DEF ListenerFails, Forward, database, manager
<1>2. /\ ~lost'[stream[w]] => ~lost[stream[w]]
      /\ ~lost'[stream[w]] /\ channel[stream[w]] > 0 =>
           channel'[stream[w]] > 0 \/ waiting'[stream[w]] > 0
      /\ waiting[stream[w]] > 0 => waiting'[stream[w]] > 0
  <2>1. CASE ListenerFails
    BY <1>0, <2>1 DEF ListenerFails
  <2>2. ASSUME NEW m \in Matches, Forward(m)
        PROVE  <1>2!1 /\ <1>2!2 /\ <1>2!3
    BY <1>0, <2>2 DEF Forward
  <2> QED
    BY <2>1, <2>2
<1>3. ~lost'[stream[w]] /\ Outstanding(stream[w]) => Outstanding(stream[w])'
  BY <1>1, <1>2, OutstandingKept DEF session
<1> QED
  BY <1>0, <1>1, <1>2, <1>3, InformedKept DEF session, client

\* Whoever takes the lock for m leaves the notifications of other matches alone.
LEMMA OthersOutstanding ==
  ASSUME LiveInv, NEW m \in Matches, NEW owner \in Sockets \cup {None}, Acquire(m, owner),
         UNCHANGED <<channel, stream>>, sending'.owner \in {None, owner},
         endpoint' = endpoint \/ endpoint' = Resumed(owner),
         NEW n \in Matches \ {m}, Outstanding(n)
  PROVE  Outstanding(n)'
<1>0. waiting \in [Matches -> Nat] /\ endpoint \in [Sockets -> {"closed", "snapshot", "notifying", "receiving"}]
  BY DEF LiveInv, TypeOK
<1>1. waiting'[n] = waiting[n]
  BY <1>0 DEF Acquire
<1>2. \A v \in Sockets : stream[v] = n => v # owner /\ v # None
  BY LiveAssumption DEF Acquire
<1>3. \A v \in Sockets : v # owner => endpoint'[v] = endpoint[v]
  BY <1>0 DEF Resumed
<1> QED
  BY <1>1, <1>2, <1>3, OutstandingKept

\* The broadcast tells every socket of the match that has not got the state: it
\* sends it, or has it remembered until the snapshot is sent.
LEMMA DispatchInforms ==
  ASSUME LiveInv, NoMissedUpdate, NEW m \in Matches, NEW owner \in Sockets \cup {None},
         Dispatch(m, owner)
  PROVE  \A w \in connections : Informed(w)'
<1> DEFINE T == Targets(m, stored[m])
<1> TAKE w \in connections
<1>0. TypeOK /\ SocketInv /\ DeliveredInv /\ w \in Sockets /\ stream[w] \in Matches /\ Informed(w)
  BY AllInformed DEF LiveInv, TypeOK, SocketInv
<1>1. /\ UNCHANGED <<stored, channel, stream, snapshot, peer, received>>
      /\ lost' = [lost EXCEPT ![m] = FALSE]
      /\ conn'[w] = Marked(m, stored[m])[w]
  BY DEF Dispatch, database, listening, client
<1>2. /\ sending.targets = {} /\ sending.owner = None
      /\ endpoint'[w] = "snapshot" <=> endpoint[w] = "snapshot"
  BY <1>0, AcquireFacts DEF Dispatch
<1>3. IF T = {} THEN endpoint' = Resumed(owner) /\ sending' = sending
      ELSE endpoint' = endpoint /\ sending' = [sequence |-> stored[m], targets |-> T, owner |-> owner]
  BY DEF Dispatch
<1>4. CASE stream[w] # m
  <2>1. conn'[w] = conn[w] /\ lost'[stream[w]] = lost[stream[w]]
    BY <1>0, <1>1, <1>4 DEF Marked, Targets, Subscribers, TypeOK
  <2>2. sending'.owner \in {None, owner} /\ (endpoint' = endpoint \/ endpoint' = Resumed(owner))
    BY <1>2, <1>3
  <2>3. Outstanding(stream[w]) => Outstanding(stream[w])'
    BY <1>0, <1>1, <1>4, <2>2, OthersOutstanding DEF Dispatch
  <2> QED
    BY <1>0, <1>1, <1>2, <2>1, <2>3, InformedKept
<1>5. CASE stream[w] = m /\ ~conn[w].ready
  <2>1. endpoint[w] = "snapshot"
    BY <1>0, <1>5 DEF SocketInv, TypeOK
  <2>2. conn'[w].pending_notification
    BY <1>0, <1>1, <1>5 DEF Marked, Subscribers, TypeOK, ManagedConnection
  <2> QED
    BY <1>2, <2>1, <2>2 DEF Informed, Current, Coming
<1>6. CASE stream[w] = m /\ w \in T
  BY <1>1, <1>3, <1>6 DEF Informed, Current, Coming
<1>7. CASE stream[w] = m /\ conn[w].ready /\ w \notin T
  <2>1. endpoint[w] \in {"notifying", "receiving"}
    BY <1>0, <1>7 DEF SocketInv, TypeOK
  <2>2. /\ conn[w].last_sequence \in 1 .. stored[m] /\ stored[m] \in Int
        /\ ~IsNewer(stored[m], conn[w].last_sequence)
    BY <1>0, <1>7, <2>1 DEF SocketInv, TypeOK, Targets, Subscribers
  <2>3. conn[w].last_sequence = stored[m]
    BY <2>2 DEF IsNewer
  <2>4. peer[w] = "open" => received[w] # <<>> /\ NewestSequence(w) = stored[m]
    BY <1>0, <1>2, <2>1, <2>3 DEF SocketInv, DeliveredInv
  <2>5. peer[w] = "open" => Newest(w) = stored[m]
    BY <2>4, NewestIs
  <2> QED
    BY <1>1, <1>7, <2>5 DEF Informed, Current, Newest
<1> QED
  BY <1>4, <1>5, <1>6, <1>7

\* A read that fails loses the notification, and says so.
LEMMA DispatchFailsInforms ==
  ASSUME LiveInv, NoMissedUpdate, NEW m \in Matches, NEW owner \in Sockets \cup {None},
         DispatchFails(m, owner)
  PROVE  \A w \in connections : Informed(w)'
<1> TAKE w \in connections
<1>0. TypeOK /\ w \in Sockets /\ stream[w] \in Matches /\ Informed(w)
  BY AllInformed DEF LiveInv, TypeOK, SocketInv
<1>1. /\ UNCHANGED <<stored, channel, sending, conn, stream, snapshot, peer, received>>
      /\ lost' = [lost EXCEPT ![m] = TRUE] /\ endpoint' = Resumed(owner)
  BY DEF DispatchFails, database, listening, manager, client
<1>2. CASE stream[w] = m
  BY <1>0, <1>1, <1>2 DEF Informed, TypeOK
<1>3. CASE stream[w] # m
  <2>1. sending.owner = None /\ (endpoint'[w] = "snapshot" <=> endpoint[w] = "snapshot")
    BY <1>0, <1>1, AcquireFacts DEF DispatchFails
  <2>2. Outstanding(stream[w]) => Outstanding(stream[w])'
    BY <1>0, <1>1, <1>3, <2>1, OthersOutstanding DEF DispatchFails
  <2>3. lost'[stream[w]] = lost[stream[w]]
    BY <1>0, <1>1, <1>3 DEF TypeOK
  <2> QED
    BY <1>0, <1>1, <2>1, <2>2, <2>3, InformedKept
<1> QED
  BY <1>2, <1>3

\* The end of a send: its target has the state it was sent, or is forgotten.
LEMMA SendInforms ==
  ASSUME LiveInv, NoMissedUpdate, NEW u \in Sockets, Deliver(u) \/ SendFails(u)
  PROVE  \A w \in connections' : Informed(w)'
<1>0. TypeOK /\ SocketInv /\ BroadcastInv
  BY DEF LiveInv
<1>1. /\ UNCHANGED <<stored, channel, waiting, conn, stream, snapshot, peer, lost>>
      /\ SendOver(u) /\ connections' \subseteq connections
      /\ \/ Receive(u, "state_update", sending.sequence)
         \/ UNCHANGED received /\ u \notin connections'
  BY DEF Deliver, SendFails, Disconnect, database, listening, manager
<1>2. /\ u \in sending.targets /\ sending.sequence \in SequenceOf
      /\ sending'.targets = sending.targets \ {u}
      /\ sending'.targets # {} =>
           sending'.sequence = sending.sequence /\ sending'.owner = sending.owner
      /\ IF sending'.targets = {}
         THEN sending'.owner = None /\ endpoint' = Resumed(sending.owner)
         ELSE endpoint' = endpoint
      /\ \A v \in Sockets : endpoint'[v] = "snapshot" <=> endpoint[v] = "snapshot"
  BY <1>1, SendOverFacts
<1>3. \A n : Outstanding(n) => Outstanding(n)'
  <2> SUFFICES ASSUME NEW n, NEW v \in Sockets,
                      endpoint[v] = "notifying", stream[v] = n, sending.owner # v
               PROVE  endpoint'[v] = "notifying" /\ sending'.owner # v
    BY <1>1 DEF Outstanding
  <2>1. CASE sending'.targets = {}
    <3>1. None # v /\ endpoint'[v] = endpoint[v]
      BY <1>0, <1>2, <2>1, LiveAssumption DEF Resumed, TypeOK
    <3> QED
      BY <1>2, <2>1, <3>1
  <2>2. CASE sending'.targets # {}
    BY <1>2, <2>2
  <2> QED
    BY <2>1, <2>2
<1> TAKE w \in connections'
<1>4. w \in Sockets /\ stream[w] \in Matches /\ Informed(w)
  BY <1>0, <1>1, AllInformed DEF TypeOK, SocketInv
<1>5. CASE w # u
  <2>1. received'[w] = received[w]
    BY <1>0, <1>1, <1>2, <1>4, <1>5, Received
  <2>2. w \in sending.targets => w \in sending'.targets /\ sending'.sequence = sending.sequence
    BY <1>2, <1>5
  <2> QED
    BY <1>1, <1>2, <1>3, <1>4, <2>1, <2>2, InformedKept
<1>6. CASE w = u
  <2> SUFFICES ASSUME peer[w] = "open", ~lost[stream[w]]
               PROVE  Current(w)'
    BY <1>1 DEF Informed
  <2>1. received'[w] # <<>> /\ NewestSequence(w)' = sending.sequence
    BY <1>0, <1>1, <1>2, <1>4, <1>6, Received
  <2>2. Newest(w)' = sending.sequence
    BY <2>1 DEF Newest, NewestSequence, Last
  <2>3. conn[w].ready /\ endpoint[w] \in {"notifying", "receiving"}
    BY <1>0, <1>2, <1>4, <1>6 DEF TypeOK, SocketInv
  <2>4. /\ NewestSequence(w) < sending.sequence /\ sending.sequence = conn[w].last_sequence
        /\ conn[w].last_sequence \in 1 .. stored[stream[w]] /\ received[w] # <<>>
        /\ stored[stream[w]] \in Int
    BY <1>0, <1>2, <1>4, <1>6, <2>3 DEF BroadcastInv, SocketInv, TypeOK
  <2>5. Newest(w) = NewestSequence(w) /\ NewestSequence(w) \in Int
    BY <1>0, <1>4, <2>4, NewestIs, NewestType
  <2>6. CASE Newest(w) = stored[stream[w]]
    BY <2>4, <2>5, <2>6 DEF SequenceOf
  <2>7. CASE Coming(w)
    <3>1. CASE Outstanding(stream[w])
      BY <1>1, <1>3, <3>1 DEF Current, Coming
    <3>2. CASE sending.sequence = stored[stream[w]]
      BY <1>1, <2>2, <3>2 DEF Current
    <3> QED
      BY <2>3, <2>7, <3>1, <3>2 DEF Coming
  <2> QED
    BY <1>4, <2>6, <2>7 DEF Informed, Current
<1> QED
  BY <1>5, <1>6

\* A new socket has read the state that its snapshot will bring.
LEMMA ConnectInforms ==
  ASSUME LiveInv, NoMissedUpdate, NEW u \in Sockets, NEW m \in Matches, Connect(u, m)
  PROVE  \A w \in connections' : Informed(w)'
<1>0. TypeOK /\ SocketInv
  BY DEF LiveInv
<1>1. /\ UNCHANGED <<stored, channel, waiting, sending, lost>>
      /\ endpoint[u] = "closed" /\ connections' = connections \cup {u}
  BY DEF Connect, database, listening
<1>2. \A v \in Sockets \ {u} :
        /\ endpoint'[v] = endpoint[v] /\ stream'[v] = stream[v] /\ snapshot'[v] = snapshot[v]
        /\ peer'[v] = peer[v] /\ received'[v] = received[v] /\ conn'[v] = conn[v]
  BY <1>0 DEF Connect, TypeOK
<1>3. \A n : Outstanding(n) => Outstanding(n)'
  BY <1>1, <1>2 DEF Outstanding
<1> TAKE w \in connections'
<1>4. CASE w = u
  BY <1>0, <1>1, <1>4 DEF Connect, TypeOK, Informed, Current, Coming
<1>5. CASE w # u
  <2>1. w \in Sockets \ {u} /\ w \in connections /\ stream[w] \in Matches /\ Informed(w)
    BY <1>0, <1>1, <1>5, AllInformed DEF TypeOK, SocketInv
  <2> QED
    BY <1>1, <1>2, <1>3, <2>1, InformedKept
<1> QED
  BY <1>4, <1>5

\* The snapshot is the state, or its endpoint goes on to notify.
LEMMA SnapshotInforms ==
  ASSUME LiveInv, NoMissedUpdate, NEW u \in Sockets, SnapshotSent(u)
  PROVE  \A w \in connections : Informed(w)'
<1>0. TypeOK /\ SocketInv /\ BroadcastInv
  BY DEF LiveInv
<1>1. /\ UNCHANGED <<stored, channel, waiting, sending, stream, snapshot, peer, lost>>
      /\ endpoint[u] = "snapshot" /\ Receive(u, "snapshot", snapshot[u])
      /\ endpoint' = [endpoint EXCEPT ![u] = AfterSnapshot(u)]
      /\ conn' = [conn EXCEPT ![u] = Ready(u)]
  BY DEF SnapshotSent, database, listening
<1>2. stream[u] \in Matches /\ snapshot[u] \in SequenceOf /\ received[u] = <<>> /\ ~conn[u].ready
  BY <1>0, <1>1, LiveAssumption DEF SocketInv, TypeOK, SequenceOf
<1>3. u \notin sending.targets /\ sending.owner # u
  BY <1>0, <1>1, <1>2, LiveAssumption DEF TypeOK, BroadcastInv
<1>4. \A v \in Sockets \ {u} :
        endpoint'[v] = endpoint[v] /\ conn'[v] = conn[v] /\ received'[v] = received[v]
  <2>1. \A v \in Sockets \ {u} : received'[v] = received[v]
    BY <1>0, <1>1, <1>2, Received
  <2> QED
    BY <1>0, <1>1, <2>1 DEF TypeOK
<1>5. \A n : Outstanding(n) => Outstanding(n)'
  BY <1>1, <1>4 DEF Outstanding
<1> TAKE w \in connections
<1>6. w \in Sockets /\ stream[w] \in Matches /\ Informed(w)
  BY <1>0, AllInformed DEF TypeOK, SocketInv
<1>7. CASE w # u
  BY <1>1, <1>4, <1>5, <1>6, <1>7, InformedKept
<1>8. CASE w = u
  <2> SUFFICES ASSUME peer[w] = "open", ~lost[stream[w]]
               PROVE  Current(w)'
    BY <1>1 DEF Informed
  <2>1. received'[w] # <<>> /\ NewestSequence(w)' = snapshot[w]
    BY <1>0, <1>1, <1>2, <1>8, Received
  <2>2. Newest(w)' = snapshot[w]
    BY <2>1 DEF Newest, NewestSequence, Last
  <2>3. Newest(w) # stored[stream[w]]
    BY <1>0, <1>2, <1>6, <1>8, NewestIs, LiveAssumption DEF TypeOK
  <2>4. CASE Outstanding(stream[w])
    BY <1>1, <1>5, <2>4 DEF Current, Coming
  <2>5. CASE snapshot[w] = stored[stream[w]]
    BY <1>1, <2>2, <2>5 DEF Current
  <2>6. CASE conn[w].pending_notification
    <3>1. endpoint'[w] = "notifying"
      BY <1>0, <1>1, <1>8, <2>6 DEF AfterSnapshot, TypeOK
    <3> QED
      BY <1>1, <1>3, <1>6, <1>8, <3>1 DEF Current, Coming, Outstanding
  <2> QED
    BY <1>3, <1>6, <1>8, <2>3, <2>4, <2>5, <2>6 DEF Informed, Current, Coming
<1> QED
  BY <1>7, <1>8

\* Who leaves need not be informed any more.
LEMMA EndInforms ==
  ASSUME LiveInv, NoMissedUpdate, NEW u \in Sockets, Leave(u) \/ EndEndpoint(u)
  PROVE  \A w \in connections' : Informed(w)'
<1>0. TypeOK /\ SocketInv
  BY DEF LiveInv
<1>1. /\ UNCHANGED <<stored, channel, waiting, sending, conn, stream, snapshot, received, lost>>
      /\ connections' \subseteq connections /\ peer'[u] # "open"
  BY <1>0 DEF Leave, EndEndpoint, Disconnect, database, listening, manager, session, TypeOK
<1>2. /\ \A v \in Sockets \ {u} : endpoint'[v] = endpoint[v] /\ peer'[v] = peer[v]
      /\ \A v \in Sockets : endpoint[v] = "notifying" => endpoint'[v] = "notifying"
  BY <1>0 DEF Leave, EndEndpoint, session, TypeOK
<1>3. \A n : Outstanding(n) => Outstanding(n)'
  BY <1>1, <1>2 DEF Outstanding
<1> TAKE w \in connections'
<1>4. w \in Sockets /\ stream[w] \in Matches /\ Informed(w)
  BY <1>0, <1>1, AllInformed DEF TypeOK, SocketInv
<1>5. CASE w = u
  BY <1>1, <1>5 DEF Informed
<1>6. CASE w # u
  BY <1>1, <1>2, <1>3, <1>4, <1>6, InformedKept
<1> QED
  BY <1>5, <1>6

\* Every step keeps NoMissedUpdate.
LEMMA InformedStep == LiveInv /\ NoMissedUpdate /\ [Next]_vars => NoMissedUpdate'
<1> SUFFICES ASSUME LiveInv, NoMissedUpdate, [Next]_vars
             PROVE  \A w \in connections' : Informed(w)'
  BY DEF NoMissedUpdate, Informed, Current
<1>1. ASSUME NEW m \in Matches, Commit(m) \/ Rebuild(m)
      PROVE  \A w \in connections' : Informed(w)'
  <2>1. /\ UNCHANGED <<waiting, sending, connections, conn, session, client>>
        /\ \A n \in Matches \ {m} : stored'[n] = stored[n]
        /\ Announce(m)
    BY <1>1 DEF Commit, Rebuild, manager, LiveInv, TypeOK
  <2> QED
    BY <2>1, AnnounceInforms
<1>2. CASE ListenerFails \/ \E m \in Matches : Forward(m)
  <2>1. UNCHANGED connections
    BY <1>2 DEF ListenerFails, Forward, manager
  <2> QED
    BY <1>2, <2>1, ListenerInforms
<1>3. ASSUME NEW m \in Matches, NEW owner \in Sockets \cup {None},
             Dispatch(m, owner) \/ DispatchFails(m, owner)
      PROVE  \A w \in connections' : Informed(w)'
  <2>1. UNCHANGED connections
    BY <1>3 DEF Dispatch, DispatchFails, manager
  <2> QED
    BY <1>3, <2>1, DispatchInforms, DispatchFailsInforms
<1>4. ASSUME NEW u \in Sockets, SnapshotSent(u)
      PROVE  \A w \in connections' : Informed(w)'
  BY <1>4, SnapshotInforms DEF SnapshotSent
<1>5. CASE Listen \/ Serve \/ UNCHANGED vars
  <2>1. UNCHANGED <<stored, channel, waiting, sending, connections, conn, endpoint, stream,
                    snapshot, peer, received, lost>>
    BY <1>5 DEF Listen, Serve, vars, database, listening, manager, session, client
  <2> SUFFICES ASSUME NEW w \in connections
               PROVE  Informed(w)'
    BY <2>1
  <2>2. w \in Sockets /\ Informed(w)
    BY AllInformed DEF LiveInv, TypeOK
  <2>3. Outstanding(stream[w]) => Outstanding(stream[w])'
    BY <2>1 DEF Outstanding
  <2> QED
    BY <2>1, <2>2, <2>3, InformedKept
<1>6. CASE Restart
  BY <1>6 DEF Restart
<1> QED
  BY <1>1, <1>2, <1>3, <1>4, <1>5, <1>6, SendInforms, ConnectInforms, EndInforms DEF Next

(***************************************************************************)
(* A registered client has the stored state, or something is under way     *)
(* that brings it, unless the listener's connection or a failed read lost  *)
(* the notification.  No interleaving of registration, snapshot, pending   *)
(* notification and broadcast lets an update fall between them             *)
(* (ConnectionManager.broadcast, mark_ready, and stream_match).            *)
(***************************************************************************)
THEOREM NoUpdateIsMissed == Spec => []NoMissedUpdate
<1>1. Init => NoMissedUpdate
  BY DEF Init, NoMissedUpdate
<1> QED
  BY <1>1, LiveInit, LiveStep, InformedStep, PTL DEF Spec
=============================================================================
