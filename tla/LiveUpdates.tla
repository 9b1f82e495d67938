----------------------------- MODULE LiveUpdates -----------------------------
(***************************************************************************)
(* The API's live updates: the LISTEN thread (api/notifications.py), the   *)
(* dispatcher and the stream endpoint (api/app.py), and the connection     *)
(* manager (api/connections.py).                                           *)
(*                                                                         *)
(* Everything but the listener runs in one asyncio loop, whose repository  *)
(* calls block it: an action runs from one await that may suspend to the   *)
(* next.  No critical section of the manager's lock suspends, so that lock *)
(* is never waited for; the dispatcher's lock is held during a broadcast.  *)
(*                                                                         *)
(* A durable state is represented by its latest_sequence: commits only     *)
(* advance it, by one (OnlyForward and HistoryGapFree of ProjectionStore). *)
(* A socket is a slot, used again when nothing refers to its last life.    *)
(***************************************************************************)
EXTENDS Integers, FiniteSets, Sequences, SequencesExt

CONSTANTS
  Matches,      \* match identifiers
  Sockets,      \* WebSocket connections that may exist at once
  None,         \* Python's None
  MaxSequence,  \* bound on latest_sequence of a match
  MaxRebuilds,  \* bound on rebuilds, which notify without changing a state
  MaxFaults     \* bound on failures

ASSUME LiveAssumption ==
  /\ MaxSequence \in Nat \ {0} /\ MaxRebuilds \in Nat /\ MaxFaults \in Nat
  /\ None \notin Nat \cup Sockets \cup Matches

VARIABLES
  stored,       \* stored[m]: latest_sequence of the row of m; 0: no row
  rebuilds,     \* how many rebuilds have been committed
  channel,      \* channel[m]: notifications on their way to the listener
  listener,     \* the LISTEN connection: "connecting" or "listening"
  serving,      \* lifespan has let the server accept connections
  waiting,      \* waiting[m]: forwarded notify(m) coroutines without the lock
  sending,      \* the broadcast in progress, under the dispatcher's lock
  connections,  \* the manager's registered connections
  conn,         \* conn[w]: the ManagedConnection of socket w
  gauge,        \* metric websocket_connections
  endpoint,     \* endpoint[w]: where stream_match of w stands
  stream,       \* stream[w]: the match it streams
  snapshot,     \* snapshot[w]: the sequence it read for its snapshot
  peer,         \* peer[w]: the client's side of the socket
  received,     \* received[w]: the messages the client has got (history)
  lost,         \* lost[m]: an announcement was lost since the last read (history)
  faults        \* failures so far

database == <<stored, rebuilds>>
listening == <<channel, listener>>
manager == <<connections, conn, gauge>>
session == <<endpoint, stream, snapshot>>
client == <<peer, received>>
vars == <<database, listening, serving, waiting, sending, manager, session,
          client, lost, faults>>

SequenceOf == 1..MaxSequence

ManagedConnection ==
  [ready : BOOLEAN, pending_notification : BOOLEAN, last_sequence : SequenceOf \cup {None}]

NewConnection == [ready |-> FALSE, pending_notification |-> FALSE, last_sequence |-> None]

Message == [type : {"snapshot", "state_update"}, sequence : SequenceOf]

Broadcast ==
  [sequence : SequenceOf \cup {None}, targets : SUBSET Sockets, owner : Sockets \cup {None}]

\* The lock is free when no send is under way.
NoBroadcast == [sequence |-> None, targets |-> {}, owner |-> None]
LockFree == sending.targets = {}

Fault == faults < MaxFaults /\ faults' = faults + 1

Init ==
  /\ stored = [m \in Matches |-> 0] /\ rebuilds = 0
  /\ channel = [m \in Matches |-> 0] /\ listener = "connecting"
  /\ serving = FALSE /\ waiting = [m \in Matches |-> 0] /\ sending = NoBroadcast
  /\ connections = {} /\ conn = [w \in Sockets |-> NewConnection] /\ gauge = 0
  /\ endpoint = [w \in Sockets |-> "closed"]
  /\ stream = [w \in Sockets |-> None] /\ snapshot = [w \in Sockets |-> None]
  /\ peer = [w \in Sockets |-> "away"] /\ received = [w \in Sockets |-> <<>>]
  /\ lost = [m \in Matches |-> FALSE] /\ faults = 0

-----------------------------------------------------------------------------
(* The database and the listener thread *)

\* NOTIFY reaches the sessions that listen when the transaction commits.
Announce(m) ==
  IF listener = "listening"
  THEN channel' = [channel EXCEPT ![m] = @ + 1] /\ UNCHANGED lost
  ELSE lost' = [lost EXCEPT ![m] = TRUE] /\ UNCHANGED channel

Commit(m) ==
  /\ stored[m] < MaxSequence
  /\ stored' = [stored EXCEPT ![m] = @ + 1]
  /\ Announce(m)
  /\ UNCHANGED <<rebuilds, listener, serving, waiting, sending, manager,
                 session, client, faults>>

Rebuild(m) ==
  /\ stored[m] > 0
  /\ rebuilds < MaxRebuilds /\ rebuilds' = rebuilds + 1
  /\ Announce(m)
  /\ UNCHANGED <<stored, listener, serving, waiting, sending, manager,
                 session, client, faults>>

Listen ==
  /\ listener = "connecting"
  /\ listener' = "listening"
  /\ UNCHANGED <<database, channel, serving, waiting, sending, manager, session,
                 client, lost, faults>>

\* What the broken connection had not delivered is gone.
ListenerFails ==
  /\ listener = "listening"
  /\ Fault
  /\ listener' = "connecting"
  /\ lost' = [m \in Matches |-> lost[m] \/ channel[m] > 0]
  /\ channel' = [m \in Matches |-> 0]
  /\ UNCHANGED <<database, serving, waiting, sending, manager, session, client>>

\* run_coroutine_threadsafe(handler(match_id)): the coroutine asks for the lock.
Forward(m) ==
  /\ listener = "listening" /\ channel[m] > 0
  /\ channel' = [channel EXCEPT ![m] = @ - 1]
  /\ waiting' = [waiting EXCEPT ![m] = @ + 1]
  /\ UNCHANGED <<database, listener, serving, sending, manager, session,
                 client, lost, faults>>

\* lifespan: start returns when the listener is ready, or after two seconds.
Serve ==
  /\ ~serving /\ serving' = TRUE
  /\ UNCHANGED <<database, listening, waiting, sending, manager, session, client,
                 lost, faults>>

-----------------------------------------------------------------------------
(* The dispatcher and the manager *)

\* Deviation: a socket is also sent the state that it already has.
IsNotOlder(sequence, previous) == previous = None \/ sequence >= previous

IsNewer(sequence, previous) == previous = None \/ sequence > previous

\* Deviation: every socket is told of every match.
EverySocket(m) == connections

Subscribers(m) == {w \in connections : stream[w] = m}

\* Deviation: sockets still waiting for their snapshot are sent updates.
TargetsUnready(m, sequence) ==
  {w \in Subscribers(m) : IsNewer(sequence, conn[w].last_sequence)}

Targets(m, sequence) ==
  {w \in Subscribers(m) : conn[w].ready /\ IsNewer(sequence, conn[w].last_sequence)}

\* Deviation: a notification during the snapshot is not remembered.
MarkedIfReady(m, sequence) ==
  [w \in Sockets |->
     IF w \in Targets(m, sequence)
     THEN [conn[w] EXCEPT !.last_sequence = sequence]
     ELSE conn[w]]

\* broadcast, its part under the manager's lock
Marked(m, sequence) ==
  [w \in Sockets |->
     IF w \in Subscribers(m) /\ ~conn[w].ready
     THEN [conn[w] EXCEPT !.pending_notification = TRUE]
     ELSE IF w \in Targets(m, sequence)
          THEN [conn[w] EXCEPT !.last_sequence = sequence]
          ELSE conn[w]]

\* A notify(m) coroutine gets the lock: one that the listener forwarded
\* (owner None), or the one that the endpoint of socket owner awaits.
Acquire(m, owner) ==
  /\ LockFree
  /\ IF owner = None
     THEN waiting[m] > 0 /\ waiting' = [waiting EXCEPT ![m] = @ - 1]
     ELSE endpoint[owner] = "notifying" /\ stream[owner] = m /\ UNCHANGED waiting

\* An endpoint that awaited notify goes on to receive_text.
Resumed(owner) ==
  IF owner = None THEN endpoint ELSE [endpoint EXCEPT ![owner] = "receiving"]

\* The row exists: rows are never deleted, and only commits notify.
Dispatch(m, owner) ==
  /\ Acquire(m, owner)
  /\ conn' = Marked(m, stored[m])
  /\ IF Targets(m, stored[m]) = {}
     THEN endpoint' = Resumed(owner) /\ UNCHANGED sending
     ELSE /\ sending' = [sequence |-> stored[m], targets |-> Targets(m, stored[m]),
                         owner |-> owner]
          /\ UNCHANGED endpoint
  /\ lost' = [lost EXCEPT ![m] = FALSE]
  /\ UNCHANGED <<database, listening, serving, connections, gauge, stream, snapshot,
                 client, faults>>

\* DurableStorageError: logged, and nobody is told.
DispatchFails(m, owner) ==
  /\ Acquire(m, owner)
  /\ Fault
  /\ endpoint' = Resumed(owner)
  /\ lost' = [lost EXCEPT ![m] = TRUE]
  /\ UNCHANGED <<database, listening, serving, sending, manager, stream, snapshot, client>>

\* Deviation: no check that the connection is still registered.
DisconnectAlways(w) == connections' = connections \ {w} /\ gauge' = gauge - 1

Disconnect(w) ==
  IF w \in connections
  THEN connections' = connections \ {w} /\ gauge' = gauge - 1
  ELSE UNCHANGED <<connections, gauge>>

\* The send to w is over; the last one ends the broadcast and frees the lock.
SendOver(w) ==
  /\ w \in sending.targets
  /\ IF sending.targets = {w}
     THEN sending' = NoBroadcast /\ endpoint' = Resumed(sending.owner)
     ELSE sending' = [sending EXCEPT !.targets = @ \ {w}] /\ UNCHANGED endpoint

\* A message arrives unless the client has gone.
Receive(w, type, sequence) ==
  received' = [received EXCEPT ![w] =
                 IF peer[w] = "open"
                 THEN Append(@, [type |-> type, sequence |-> sequence])
                 ELSE @]

Deliver(w) ==
  /\ SendOver(w)
  /\ Receive(w, "state_update", sending.sequence)
  /\ UNCHANGED <<database, listening, serving, waiting, manager, stream, snapshot,
                 peer, lost, faults>>

\* The send raises, or times out after a second; what was written may still
\* arrive.  The connection is forgotten, the socket is not closed.
SendFails(w) ==
  /\ SendOver(w)
  /\ IF peer[w] = "open" THEN Fault ELSE UNCHANGED faults
  /\ Disconnect(w)
  /\ \/ Receive(w, "state_update", sending.sequence)
     \/ UNCHANGED received
  /\ UNCHANGED <<database, listening, serving, waiting, conn, stream, snapshot, peer, lost>>

-----------------------------------------------------------------------------
(* The stream endpoint *)

\* stream_match up to the send of the snapshot: the socket is registered, then
\* the state is read.  Without a row, or when the read fails, it is closed
\* (4404, 1011) and disconnected again, which leaves nothing behind.
Connect(w, m) ==
  /\ serving /\ stored[m] > 0
  /\ endpoint[w] = "closed" /\ peer[w] = "away" /\ w \notin sending.targets
  /\ connections' = connections \cup {w} /\ gauge' = gauge + 1
  /\ conn' = [conn EXCEPT ![w] = NewConnection]
  /\ endpoint' = [endpoint EXCEPT ![w] = "snapshot"]
  /\ stream' = [stream EXCEPT ![w] = m]
  /\ snapshot' = [snapshot EXCEPT ![w] = stored[m]]
  /\ peer' = [peer EXCEPT ![w] = "open"]
  /\ received' = [received EXCEPT ![w] = <<>>]
  /\ UNCHANGED <<database, listening, serving, waiting, sending, lost, faults>>

\* mark_ready; it cannot find the connection gone, for only a ready one is
\* sent updates that fail.
Ready(w) ==
  [conn[w] EXCEPT !.ready = TRUE, !.pending_notification = FALSE, !.last_sequence = snapshot[w]]

\* Deviation: the pending notification is cleared and not answered.
AlwaysReceiving(w) == "receiving"

AfterSnapshot(w) == IF conn[w].pending_notification THEN "notifying" ELSE "receiving"

SnapshotSent(w) ==
  /\ endpoint[w] = "snapshot"
  /\ Receive(w, "snapshot", snapshot[w])
  /\ conn' = [conn EXCEPT ![w] = Ready(w)]
  /\ endpoint' = [endpoint EXCEPT ![w] = AfterSnapshot(w)]
  /\ UNCHANGED <<database, listening, serving, waiting, sending, connections, gauge,
                 stream, snapshot, peer, lost, faults>>

Leave(w) ==
  /\ peer[w] = "open"
  /\ peer' = [peer EXCEPT ![w] = "left"]
  /\ UNCHANGED <<database, listening, serving, waiting, sending, manager, session,
                 received, lost, faults>>

\* WebSocketDisconnect, noticed by the snapshot's send or by receive_text
EndEndpoint(w) ==
  /\ peer[w] = "left" /\ endpoint[w] \in {"snapshot", "receiving"}
  /\ Disconnect(w)
  /\ endpoint' = [endpoint EXCEPT ![w] = "closed"]
  /\ peer' = [peer EXCEPT ![w] = "away"]
  /\ UNCHANGED <<database, listening, serving, waiting, sending, conn, stream, snapshot,
                 received, lost, faults>>

\* The API process ends, with all it knows, and is started again.
Restart ==
  /\ Fault
  /\ channel' = [m \in Matches |-> 0] /\ listener' = "connecting"
  /\ serving' = FALSE /\ waiting' = [m \in Matches |-> 0] /\ sending' = NoBroadcast
  /\ connections' = {} /\ conn' = [w \in Sockets |-> NewConnection] /\ gauge' = 0
  /\ endpoint' = [w \in Sockets |-> "closed"]
  /\ stream' = [w \in Sockets |-> None] /\ snapshot' = [w \in Sockets |-> None]
  /\ peer' = [w \in Sockets |-> "away"] /\ received' = [w \in Sockets |-> <<>>]
  /\ lost' = [m \in Matches |-> FALSE]
  /\ UNCHANGED database

Next ==
  \/ \E m \in Matches :
       \/ Commit(m) \/ Rebuild(m) \/ Forward(m)
       \/ \E owner \in Sockets \cup {None} : Dispatch(m, owner) \/ DispatchFails(m, owner)
       \/ \E w \in Sockets : Connect(w, m)
  \/ \E w \in Sockets :
       \/ SnapshotSent(w) \/ Deliver(w) \/ SendFails(w) \/ Leave(w) \/ EndEndpoint(w)
  \/ Listen \/ ListenerFails \/ Serve \/ Restart

Spec == Init /\ [][Next]_vars

(***************************************************************************)
(* The loop and the listener run; asyncio.Lock serves its waiters in       *)
(* order; a send ends, by its timeout if by nothing else; a client reads   *)
(* the snapshot it asked for (that send has no timeout).                   *)
(***************************************************************************)
Fairness ==
  /\ \A m \in Matches :
       /\ WF_vars(Forward(m))
       /\ \A owner \in Sockets \cup {None} : SF_vars(Dispatch(m, owner) \/ DispatchFails(m, owner))
  /\ \A w \in Sockets : WF_vars(SnapshotSent(w)) /\ WF_vars(Deliver(w) \/ SendFails(w))

FairSpec == Spec /\ Fairness

-----------------------------------------------------------------------------
(* Properties *)

\* Every variable keeps its type; the locked broadcast addresses subscribers of
\* one match that are past their snapshot.
TypeOK ==
  /\ stored \in [Matches -> 0..MaxSequence] /\ rebuilds \in 0..MaxRebuilds
  /\ channel \in [Matches -> Nat] /\ waiting \in [Matches -> Nat]
  /\ listener \in {"connecting", "listening"} /\ serving \in BOOLEAN
  /\ sending \in Broadcast
  /\ IF LockFree THEN sending = NoBroadcast ELSE sending.sequence \in SequenceOf
  /\ connections \subseteq Sockets /\ conn \in [Sockets -> ManagedConnection]
  /\ endpoint \in [Sockets -> {"closed", "snapshot", "notifying", "receiving"}]
  /\ stream \in [Sockets -> Matches \cup {None}]
  /\ snapshot \in [Sockets -> SequenceOf \cup {None}]
  /\ peer \in [Sockets -> {"away", "open", "left"}]
  /\ received \in [Sockets -> Seq(Message)]
  /\ lost \in [Matches -> BOOLEAN] /\ faults \in 0..MaxFaults
  /\ \A w \in sending.targets : conn[w].ready

\* A socket gets its snapshot first and then only newer states, whatever
\* notifications, rebuilds and commits race with its registration.
StreamOrder ==
  \A w \in Sockets : \A i \in DOMAIN received[w] :
    /\ received[w][i].type = IF i = 1 THEN "snapshot" ELSE "state_update"
    /\ i > 1 => received[w][i].sequence > received[w][i - 1].sequence

Newest(w) == IF received[w] = <<>> THEN None ELSE Last(received[w]).sequence

\* A notify(m) that has not read the state of m yet, or the cause of one
Outstanding(m) ==
  \/ channel[m] > 0
  \/ waiting[m] > 0
  \/ \E w \in Sockets : endpoint[w] = "notifying" /\ stream[w] = m /\ sending.owner # w

Coming(w) ==
  \/ Outstanding(stream[w])
  \/ w \in sending.targets /\ sending.sequence = stored[stream[w]]
  \/ endpoint[w] = "snapshot"
       /\ (snapshot[w] = stored[stream[w]] \/ conn[w].pending_notification)

\* A registered client has the stored state, or something is under way that
\* brings it, unless a notification was lost with the listener's connection or
\* a failed read; and then the next notification of the match repairs it.
NoMissedUpdate ==
  \A w \in connections :
    peer[w] = "open" /\ ~lost[stream[w]] => Newest(w) = stored[stream[w]] \/ Coming(w)

\* The gauge counts the registered connections, although a failed send and the
\* end of the endpoint both disconnect the same socket.
GaugeIsRegistered == gauge = Cardinality(connections)

\* A client that stays registered gets the stored state in the end, with the
\* same exception as NoMissedUpdate, and slow clients do not prevent it.
EventuallyCurrent ==
  \A w \in Sockets :
    []<>(w \in connections /\ peer[w] = "open" /\ ~lost[stream[w]]
           => Newest(w) = stored[stream[w]])

\* observability/metrics.py:116: the gauge is of "Currently connected
\* MatchStream WebSocket clients."  A client whose send failed is still
\* connected, and its endpoint still receives from it, but is not counted.
ClientsCounted ==
  gauge >= Cardinality({w \in Sockets : endpoint[w] # "closed" /\ peer[w] = "open"})
=============================================================================
