-------------------------- MODULE DashboardSession --------------------------
(***************************************************************************)
(* The browser's match session, frontend/src/hooks/useMatchSession.ts: one *)
(* effect per selected match (or retry), which loads the durable state and *)
(* the recent events over HTTP, follows a WebSocket, and reconciles when a *)
(* live update skips a sequence.                                           *)
(*                                                                         *)
(* Handlers run one at a time, each up to its next await.  HTTP responses  *)
(* come in any order and show the database at some moment since the        *)
(* request.  A state is its match and latest_sequence; an event of a match *)
(* is its sequence, 1..latest (HistoryGapFree of ProjectionStore).  The    *)
(* server sends what StreamOrder of LiveUpdates allows; it may skip        *)
(* updates, and it may stop sending without closing.                       *)
(***************************************************************************)
EXTENDS Integers, FiniteSets, Sequences, Bags

CONSTANTS
  Matches,       \* match identifiers
  None,          \* null
  Window,        \* MAX_TIMELINE_EVENTS
  MaxReconnect,  \* MAX_RECONNECT_ATTEMPTS
  MaxSequence,   \* bound on latest_sequence of a match
  MaxSessions    \* bound on selections and retries

Event == [match : Matches, sequence : 1..MaxSequence]

ASSUME SessionAssumption ==
  /\ {Window, MaxSequence, MaxSessions} \subseteq Nat \ {0} /\ MaxReconnect \in Nat
  /\ None \notin Matches \cup Nat \cup Event

VARIABLES
  latest,     \* latest[m]: latest_sequence in the database
  selected,   \* the match on display
  session,    \* number of the effect that is active
  state,      \* stateRef.current
  events,     \* eventsRef.current, a set
  loading,    \* the flag of the same name
  error,      \* the flag of the same name: the dashboard shows an error instead
  status,     \* connectionStatus
  attempts,   \* reconnectAttempts
  socket,     \* "none", "open", or "waiting" for the reconnection timer
  inbox,      \* messages on their way to the open socket
  sent,       \* newest sequence the server has sent on it, or None
  requests,   \* HTTP requests in flight, a bag
  missing,    \* this session has had a request that failed (history)
  overrun,    \* it has asked for events more than one page behind (history)
  lost        \* number of sockets that it has lost (history)

view == <<state, events, loading, error, status>>
connection == <<socket, inbox, sent>>
history == <<missing, overrun, lost>>
vars == <<latest, selected, session, view, attempts, connection, requests, history>>

Larger(a, b) == IF a > b THEN a ELSE b
Smaller(a, b) == IF a < b THEN a ELSE b

\* Deviation: a page of the history that is shorter than the timeline
ShortPage == Window - 1

\* The limit that getEvents asks for: the same number as MAX_TIMELINE_EVENTS
PageSize == Window

\* list_match_events in a history that ends at last
Page(m, after, last) ==
  {[match |-> m, sequence |-> n] : n \in after + 1 .. Smaller(after + PageSize, last)}

NewestSequence(evs) ==
  IF evs = {} THEN 0 ELSE CHOOSE n \in {e.sequence : e \in evs} : \A e \in evs : e.sequence <= n

\* Sorted, and the last Window of them
MergeEvents(previous, incoming) ==
  LET all == previous \cup incoming
  IN {e \in all : Cardinality({f \in all : f.sequence > e.sequence}) < Window}

ShouldReconcile(current, incoming) == incoming > current + 1

Request(purpose, after) ==
  [session |-> session, match |-> selected, purpose |-> purpose, after |-> after,
   issued |-> latest[selected]]

InFlight == BagToSet(requests)
Issue(r) == requests' = requests (+) SetToBag({r})
Done(r) == requests (-) SetToBag({r})

\* Deviation: responses for an earlier selection are taken as well.
AlwaysActive(r) == TRUE

\* The flag active of the effect that issued the request
Active(r) == r.session = session

\* Deviation: the window starts one event early.
EarlyWindowStart(sequence) == Larger(0, sequence - Window - 1)

\* loadEventsAfter's argument when the recent window is loaded
WindowStart(sequence) == Larger(0, sequence - Window)

\* A history load for the state of sequence would need more than one page.
Overrun(sequence) == sequence > NewestSequence(events) + PageSize

-----------------------------------------------------------------------------
(* Selecting a match, retrying *)

\* Deviation: the counter outlives the effect.
AttemptsKept == attempts

\* let reconnectAttempts = 0
NoAttempts == 0

Fresh(m) ==
  /\ selected' = m
  /\ state' = None /\ events' = {} /\ loading' = TRUE /\ error' = FALSE
  /\ attempts' = NoAttempts
  /\ socket' = "none" /\ inbox' = <<>> /\ sent' = None
  /\ missing' = FALSE /\ overrun' = FALSE /\ lost' = 0

Initial(m, number) ==
  [session |-> number, match |-> m, purpose |-> "initial", after |-> 0, issued |-> latest[m]]

Init ==
  /\ latest = [m \in Matches |-> 1]
  /\ selected \in Matches /\ session = 1
  /\ state = None /\ events = {} /\ loading = TRUE /\ error = FALSE
  /\ status = "DISCONNECTED" /\ attempts = 0
  /\ socket = "none" /\ inbox = <<>> /\ sent = None
  /\ requests = SetToBag({Initial(selected, 1)})
  /\ missing = FALSE /\ overrun = FALSE /\ lost = 0

\* The cleanup of the old effect and initialize of the new one.  The status is
\* not reset, and an aborted request may have been answered already.
Select(m) ==
  /\ session < MaxSessions
  /\ session' = session + 1
  /\ Fresh(m)
  /\ Issue(Initial(m, session + 1))
  /\ UNCHANGED <<latest, status>>

Commit(m) ==
  /\ latest[m] < MaxSequence
  /\ latest' = [latest EXCEPT ![m] = @ + 1]
  /\ UNCHANGED <<selected, session, view, attempts, connection, requests, history>>

-----------------------------------------------------------------------------
(* HTTP responses; sequence is what the server read *)

Read(r) == r.issued .. latest[r.match]

\* connect
Open ==
  /\ socket' = "open" /\ inbox' = <<>> /\ sent' = None
  /\ status' = IF attempts = 0 THEN "CONNECTING" ELSE "RECONNECTING"

\* Deviation: the loading screen ends with the state, before the events.
LoadedAtOnce == FALSE

StillLoading == TRUE

InitialAnswered(r, sequence) ==
  /\ r.purpose = "initial" /\ Active(r)
  /\ state' = [match |-> r.match, sequence |-> sequence]
  /\ requests' = Done(r) (+) SetToBag({Request("window", WindowStart(sequence))})
  /\ loading' = StillLoading
  /\ UNCHANGED <<latest, selected, session, events, error, status, attempts, connection, history>>

\* initialize opens the socket after its load of events, also when that failed.
WindowLoaded(r, incoming) ==
  /\ r.purpose = "window"
  /\ events' = MergeEvents(events, incoming)
  /\ loading' = FALSE
  /\ Open

EventsAnswered(r, sequence) ==
  /\ Active(r)
  /\ LET incoming == Page(r.match, r.after, sequence)
     IN \/ WindowLoaded(r, incoming)
        \/ /\ r.purpose = "history"
           /\ events' = MergeEvents(events, incoming)
           /\ UNCHANGED <<loading, status, connection>>
  /\ requests' = Done(r)
  /\ UNCHANGED <<latest, selected, session, state, error, attempts, history>>

\* reconcile: whatever the state is by now, it is replaced.
ReconcileAnswered(r, sequence) ==
  /\ r.purpose = "reconcile" /\ Active(r)
  /\ state' = [match |-> r.match, sequence |-> sequence]
  /\ requests' = Done(r) (+) SetToBag({Request("history", NewestSequence(events))})
  /\ overrun' = (overrun \/ Overrun(sequence))
  /\ UNCHANGED <<latest, selected, session, events, loading, error, status, attempts,
                 connection, missing, lost>>

\* The catch blocks: of initialize, of loadEventsAfter, of reconcile
RequestFails(r) ==
  /\ Active(r)
  /\ \/ /\ r.purpose = "initial"
        /\ error' = TRUE /\ status' = "DISCONNECTED" /\ loading' = FALSE
        /\ UNCHANGED <<events, connection>>
     \/ WindowLoaded(r, {}) /\ UNCHANGED error
     \/ r.purpose = "history" /\ UNCHANGED <<events, loading, error, status, connection>>
     \/ /\ r.purpose = "reconcile" /\ error' = TRUE
        /\ UNCHANGED <<events, loading, status, connection>>
  /\ requests' = Done(r)
  /\ missing' = TRUE
  /\ UNCHANGED <<latest, selected, session, state, attempts, overrun, lost>>

\* if (!active) return, or AbortError
TooLate(r) ==
  /\ ~Active(r)
  /\ requests' = Done(r)
  /\ UNCHANGED <<latest, selected, session, view, attempts, connection, history>>

-----------------------------------------------------------------------------
(* The WebSocket *)

Send(type) ==
  /\ socket = "open"
  /\ inbox' = Append(inbox, [type |-> type, sequence |-> latest[selected]])
  /\ sent' = latest[selected]
  /\ UNCHANGED <<latest, selected, session, view, attempts, socket, requests, history>>

SendSnapshot == sent = None /\ Send("snapshot")

SendUpdate == sent # None /\ latest[selected] > sent /\ Send("state_update")

Replace(sequence) == state' = [match |-> selected, sequence |-> sequence]

HandleSnapshot(sequence) ==
  /\ Replace(sequence)
  /\ Issue(Request("history", WindowStart(sequence)))
  /\ status' = "LIVE"
  /\ UNCHANGED overrun

\* Deviation: live updates are not compared with the displayed state.
NothingStale(sequence) == FALSE

\* The state is there: the socket is opened after it was loaded.
Stale(sequence) == sequence <= state.sequence

HandleUpdate(sequence) ==
  /\ UNCHANGED status
  /\ \/ Stale(sequence) /\ UNCHANGED <<state, requests, overrun>>
     \/ /\ ~Stale(sequence) /\ ShouldReconcile(state.sequence, sequence)
        /\ Issue(Request("reconcile", 0))
        /\ UNCHANGED <<state, overrun>>
     \/ /\ ~Stale(sequence) /\ ~ShouldReconcile(state.sequence, sequence)
        /\ Replace(sequence)
        /\ Issue(Request("history", NewestSequence(events)))
        /\ overrun' = (overrun \/ Overrun(sequence))

HandleMessage ==
  /\ inbox # <<>> /\ inbox' = Tail(inbox)
  /\ IF Head(inbox).type = "snapshot"
     THEN HandleSnapshot(Head(inbox).sequence)
     ELSE HandleUpdate(Head(inbox).sequence)
  /\ UNCHANGED <<latest, selected, session, events, loading, error, attempts, socket, sent,
                 missing, lost>>

\* Deviation: one reconnection too many
LastAttemptIncluded == attempts > MaxReconnect

GiveUp == attempts >= MaxReconnect

\* onclose; messages still on their way are gone.
SocketCloses ==
  /\ socket = "open"
  /\ IF GiveUp
     THEN status' = "DISCONNECTED" /\ socket' = "none" /\ UNCHANGED attempts
     ELSE status' = "RECONNECTING" /\ socket' = "waiting" /\ attempts' = attempts + 1
  /\ inbox' = <<>> /\ sent' = None /\ lost' = lost + 1
  /\ UNCHANGED <<latest, selected, session, state, events, loading, error, requests,
                 missing, overrun>>

\* The timer calls connect.
Reconnect ==
  /\ socket = "waiting"
  /\ Open
  /\ UNCHANGED <<latest, selected, session, state, events, loading, error, attempts,
                 requests, history>>

-----------------------------------------------------------------------------
Answered(r) ==
  \E sequence \in Read(r) :
    InitialAnswered(r, sequence) \/ EventsAnswered(r, sequence) \/ ReconcileAnswered(r, sequence)

Next ==
  \/ \E m \in Matches : Select(m) \/ Commit(m)
  \/ \E r \in InFlight : Answered(r) \/ RequestFails(r) \/ TooLate(r)
  \/ SendSnapshot \/ SendUpdate \/ HandleMessage \/ SocketCloses \/ Reconnect

Spec == Init /\ [][Next]_vars

(***************************************************************************)
(* The browser runs its handlers and timers and ends every request; a      *)
(* reachable server sends the snapshot.  Nothing is assumed of updates.    *)
(***************************************************************************)
Fairness ==
  /\ WF_vars(\E r \in InFlight : Answered(r) \/ RequestFails(r) \/ TooLate(r))
  /\ WF_vars(HandleMessage) /\ WF_vars(Reconnect) /\ WF_vars(SendSnapshot)

FairSpec == Spec /\ Fairness

-----------------------------------------------------------------------------
(* Properties *)

\* Every variable keeps its type; a session opens at most MaxReconnect more
\* sockets and displays at most Window events.
TypeOK ==
  /\ latest \in [Matches -> 1..MaxSequence]
  /\ selected \in Matches /\ session \in 1..MaxSessions
  /\ state = None \/ state \in Event
  /\ events \subseteq Event /\ Cardinality(events) <= Window
  /\ loading \in BOOLEAN /\ error \in BOOLEAN
  /\ status \in {"CONNECTING", "LIVE", "RECONNECTING", "DISCONNECTED"}
  /\ attempts \in 0..MaxReconnect /\ lost \in Nat
  /\ socket \in {"none", "open", "waiting"}
  /\ sent \in 1..MaxSequence \cup {None}
  /\ \A i \in DOMAIN inbox :
       inbox[i] \in [type : {"snapshot", "state_update"}, sequence : 1..MaxSequence]
  /\ \A r \in InFlight :
       r \in [session : 1..MaxSessions, match : Matches, after : 0..MaxSequence,
              purpose : {"initial", "window", "reconcile", "history"}, issued : 1..MaxSequence]
  /\ socket = "open" => state # None

\* State and timeline are the selected match's, although requests of earlier
\* selections are answered after the switch.
OwnMatch ==
  /\ state # None => state.match = selected
  /\ \A e \in events : e.match = selected

\* The timeline has no hole, whatever loads overlap, fail or come out of order.
TimelineContiguous ==
  \A e, f \in events : \A n \in e.sequence .. f.sequence : [match |-> selected, sequence |-> n] \in events

\* When all requests of the session have ended and none has failed, the
\* timeline reaches the displayed state, unless the session was more than one
\* page behind when it asked for the events after its newest one.
TimelineComplete ==
  state # None /\ (\A r \in InFlight : ~Active(r)) /\ ~missing /\ ~overrun
    => NewestSequence(events) >= state.sequence

\* What is displayed as LIVE is a socket that is open and has given its
\* snapshot; DISCONNECTED is final for the session.
StatusHonest ==
  ~loading =>
    /\ status = "LIVE" =>
         /\ socket = "open" /\ sent # None
         /\ \A i \in DOMAIN inbox : inbox[i].type # "snapshot"
    /\ status = "DISCONNECTED" <=> socket = "none"

SnapshotHandled == inbox # <<>> /\ Head(inbox).type = "snapshot" /\ inbox' = Tail(inbox)

Regresses ==
  session' = session /\ state # None /\ state' # None /\ state'.sequence < state.sequence

\* The step ends r, a reconciliation of this session, and displays its answer.
Reconciled(r) ==
  /\ r.purpose = "reconcile" /\ Active(r)
  /\ r \in InFlight' => requests'[r] < requests[r]
  /\ state'.match = r.match /\ state'.sequence \in Read(r)

\* Only a snapshot on a reconnected socket, or the answer to a reconciliation,
\* takes the displayed state back, and the answer never to before what was
\* stored when it was asked for.  No live update does, also while a
\* reconciliation is in flight.
OnlyAuthorityRegresses ==
  [][Regresses => \/ SnapshotHandled /\ attempts > 0
                  \/ \E r \in InFlight : Reconciled(r)]_vars

\* A session that has lost its connection becomes LIVE again, or its successor
\* connects, unless the initial load fails or the session itself has lost more
\* sockets than it may reopen, since it began (reconnectAttempts counts on when
\* a new socket works).
Reconnects ==
  status = "RECONNECTING" ~>
    \/ status \in {"LIVE", "CONNECTING"}
    \/ error /\ state = None
    \/ lost > MaxReconnect

\* docs/milestone-8.md:32-33: a snapshot "replaces local state; stale updates
\* are ignored"; :44-46: the sequence number is "used to reject stale data".
\* But reconcile replaces the state by a response that may be the older one.
StaleIgnored == [][Regresses => SnapshotHandled]_vars
=============================================================================
