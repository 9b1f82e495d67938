--------------------------- MODULE ProjectionStore ---------------------------
(***************************************************************************)
(* The durable projection: PostgresProjectionRepository.process_event      *)
(* (storage/postgres.py), run by several sessions at once.  Each session   *)
(* is one PostgreSQL backend in READ COMMITTED mode; an action is one SQL  *)
(* statement, and the writes of a transaction stay in the session's own    *)
(* variables until Commit makes them visible.                              *)
(*                                                                         *)
(* A session stands for a backend, not for a client: a client whose        *)
(* connection broke, and that calls again, is another session, while the   *)
(* first backend may still be finishing its commit.                        *)
(***************************************************************************)
EXTENDS MatchTransition

CONSTANTS
  Backends,  \* PostgreSQL backends, which may hold locks
  Sessions,  \* those that run process_event
  Events,    \* the canonical events that callers submit
  hashtext   \* hashtext[m]: the advisory-lock key of match m; may collide

ASSUME StoreAssumption ==
  /\ Events \subseteq CanonicalEvent
  /\ hashtext \in [Matches -> Nat]
  /\ Sessions \subseteq Backends
  /\ None \notin Backends \cup CanonicalEvent \cup MatchState

LockKeys == {hashtext[m] : m \in Matches}

VARIABLES
  match_states,       \* table match_states: [match -> MatchState or no row]
  processed_events,   \* table processed_events: rows [event_id, match_id]
  projection_events,  \* table projection_events: the canonical events
  advisory,           \* advisory[k]: backend holding the transaction lock k
  pc,                 \* pc[s]: the statement session s runs next
  call,               \* call[s]: the event of the current call
  inserted,           \* inserted[s]: this transaction reserved the identity
  row,                \* row[s]: the match_states row it read, or None
  next_state,         \* next_state[s]: the state it is going to store
  result,             \* result[s]: how the last call of s ended
  notified,           \* matches whose NOTIFY was committed and not yet received
  heard               \* heard[m]: the state read when m was last received

tables == <<match_states, processed_events, projection_events>>
channel == <<notified, heard>>
locals == <<call, inserted, row, next_state>>
vars == <<tables, channel, advisory, pc, locals, result>>

Results == {"none", "applied", "duplicate", "poison", "storage_error"}

Statements == {"lock", "reserve", "read", "verify", "transition", "write", "commit"}

\* The statements a session runs while its transaction holds the match lock.
Locked == Statements \ {"lock"}

Key(e) == hashtext[e.match_id]

Row(e) == [event_id |-> e.event_id, match_id |-> e.match_id]

\* MatchState.initial when the match has no row yet
Previous(s) ==
  IF row[s] = None THEN InitialState(call[s].match_id) ELSE row[s]

Init ==
  /\ match_states = [m \in Matches |-> None]
  /\ processed_events = {}
  /\ projection_events = {}
  /\ advisory = [k \in LockKeys |-> None]
  /\ pc = [s \in Sessions |-> "idle"]
  /\ call = [s \in Sessions |-> None]
  /\ inserted = [s \in Sessions |-> FALSE]
  /\ row = [s \in Sessions |-> None]
  /\ next_state = [s \in Sessions |-> None]
  /\ result = [s \in Sessions |-> "none"]
  /\ notified = {}
  /\ heard = [m \in Matches |-> None]

Goto(s, l) == pc' = [pc EXCEPT ![s] = l]

\* Deviation: a session-level lock, which outlives the transaction.
KeptLocks(s) == advisory

Released(s) == [k \in LockKeys |-> IF advisory[k] = s THEN None ELSE advisory[k]]

\* The transaction ends: the session's lock goes and its caller gets r.
Finish(s, r) ==
  /\ Goto(s, "idle")
  /\ result' = [result EXCEPT ![s] = r]
  /\ advisory' = Released(s)
  /\ call' = [call EXCEPT ![s] = None]
  /\ inserted' = [inserted EXCEPT ![s] = FALSE]
  /\ row' = [row EXCEPT ![s] = None]
  /\ next_state' = [next_state EXCEPT ![s] = None]

-----------------------------------------------------------------------------
(***************************************************************************)
(* process_event, statement by statement.                                  *)
(***************************************************************************)
\* A caller enters process_event: connect, BEGIN.
Begin(s) ==
  /\ pc[s] = "idle"
  /\ \E e \in Events : call' = [call EXCEPT ![s] = e]
  /\ Goto(s, "lock")
  /\ UNCHANGED <<tables, channel, advisory, inserted, row, next_state, result>>

\* Deviation: no advisory lock.
NeverHeld(k) == TRUE

Free(k) == advisory[k] = None

\* SELECT pg_advisory_xact_lock(hashtext(match_id)) waits for the holder.
Lock(s) ==
  /\ pc[s] = "lock"
  /\ Free(Key(call[s]))
  /\ advisory' = [advisory EXCEPT ![Key(call[s])] = s]
  /\ Goto(s, "reserve")
  /\ UNCHANGED <<tables, channel, locals, result>>

\* INSERT INTO processed_events ... ON CONFLICT (event_id) DO NOTHING waits
\* for another transaction that has inserted the same identity and not ended.
Reserve(s) ==
  /\ pc[s] = "reserve"
  /\ ~ \E t \in Sessions \ {s} :
         inserted[t] /\ call[t].event_id = call[s].event_id
  /\ inserted' = [inserted EXCEPT ![s] =
       ~ \E r \in processed_events : r.event_id = call[s].event_id]
  /\ Goto(s, "read")
  /\ UNCHANGED <<tables, channel, advisory, call, row, next_state, result>>

\* SELECT state FROM match_states ... FOR UPDATE.  Every writer of the row
\* holds the advisory lock, so the row lock is never waited for.
Read(s) ==
  /\ pc[s] = "read"
  /\ row' = [row EXCEPT ![s] = match_states[call[s].match_id]]
  /\ Goto(s, IF inserted[s] THEN "transition" ELSE "verify")
  /\ UNCHANGED <<tables, channel, advisory, call, inserted, next_state, result>>

\* Deviation: _ensure_duplicate_matches_event is left out.
IdentityOfAnyMatch(e) == \E r \in processed_events : r.event_id = e.event_id

IdentityOfItsMatch(e) == Row(e) \in processed_events

\* A known identity: a no-op if it is this match's and the match has a state.
Verify(s) ==
  /\ pc[s] = "verify"
  /\ IF IdentityOfItsMatch(call[s]) /\ row[s] # None
     THEN Finish(s, "duplicate")
     ELSE Finish(s, "storage_error")
  /\ UNCHANGED <<tables, channel>>

\* transition(previous, event); MatchTransitionError rolls everything back.
Transition(s) ==
  /\ pc[s] = "transition"
  /\ \/ /\ Accepts(Previous(s), call[s])
        /\ next_state' = [next_state EXCEPT ![s] = ApplyEvent(Previous(s), call[s])]
        /\ Goto(s, "write")
        /\ UNCHANGED <<advisory, call, inserted, row, result>>
     \/ /\ ~Accepts(Previous(s), call[s])
        /\ Finish(s, "poison")
  /\ UNCHANGED <<tables, channel>>

\* Upsert match_states, insert into projection_events, pg_notify.  A history
\* row of the same identity or the same (match_id, sequence) is an error.
HistoryConflict(e) ==
  \E f \in projection_events :
    \/ f.event_id = e.event_id
    \/ f.match_id = e.match_id /\ f.sequence = e.sequence

Write(s) ==
  /\ pc[s] = "write"
  /\ IF HistoryConflict(call[s])
     THEN Finish(s, "storage_error")
     ELSE /\ Goto(s, "commit")
          /\ UNCHANGED <<advisory, locals, result>>
  /\ UNCHANGED <<tables, channel>>

\* What the transaction has inserted, and what pg_notify has queued.
\* Deviation: the identity is reserved in no transaction.
NoIdentity(s) == {}

IdentityRow(s) == {Row(call[s])}

\* Deviation: the history numbers the events itself.
RenumberedRow(s) == {[call[s] EXCEPT !.sequence = next_state[s].total]}

HistoryRow(s) == {call[s]}

\* Deviation: no pg_notify.
NoNotification(s) == {}

Notification(s) == {call[s].match_id}

\* COMMIT, which also sends the notification.  The connection may be lost
\* before the caller hears of it: the caller then gets psycopg.Error for a
\* transaction that did happen.
Commit(s) ==
  /\ pc[s] = "commit"
  /\ match_states' = [match_states EXCEPT ![call[s].match_id] = next_state[s]]
  /\ processed_events' = processed_events \cup IdentityRow(s)
  /\ projection_events' = projection_events \cup HistoryRow(s)
  /\ notified' = notified \cup Notification(s)
  /\ UNCHANGED heard
  /\ \/ Finish(s, "applied")
     \/ Finish(s, "storage_error")

\* psycopg.Error at any statement, or while connecting: PostgreSQL rolls back.
Fail(s) ==
  /\ pc[s] # "idle"
  /\ Finish(s, "storage_error")
  /\ UNCHANGED <<tables, channel>>

\* A listener receives the match id and reads the committed row, as the API's
\* dispatcher does with get_match.
Receive(m) ==
  /\ m \in notified
  /\ notified' = notified \ {m}
  /\ heard' = [heard EXCEPT ![m] = match_states[m]]
  /\ UNCHANGED <<tables, advisory, pc, locals, result>>

Step(s) ==
  \/ Lock(s) \/ Reserve(s) \/ Read(s) \/ Verify(s)
  \/ Transition(s) \/ Write(s) \/ Commit(s)

Next ==
  \/ \E s \in Sessions : Begin(s) \/ Step(s) \/ Fail(s)
  \/ \E m \in Matches : Receive(m)

Spec == Init /\ [][Next]_vars

(***************************************************************************)
(* A backend keeps executing its transaction.  PostgreSQL grants a lock to *)
(* its waiters in the order they asked, so a waiter is not passed over for *)
(* ever: strong fairness of the two statements that wait.                  *)
(***************************************************************************)
Fairness ==
  \A s \in Sessions :
    /\ WF_vars(Step(s))
    /\ SF_vars(Lock(s))
    /\ SF_vars(Reserve(s))

FairSpec == Spec /\ Fairness

-----------------------------------------------------------------------------
(***************************************************************************)
(* What is true of every state.                                            *)
(***************************************************************************)
History(m) == {e \in projection_events : e.match_id = m}

\* Types of the tables, of the locks and of every session's variables.
TypeOK ==
  /\ match_states \in [Matches -> MatchState \cup {None}]
  /\ processed_events \subseteq [event_id : EventIds, match_id : Matches]
  /\ projection_events \subseteq Events
  /\ advisory \in [LockKeys -> Backends \cup {None}]
  /\ pc \in [Sessions -> Statements \cup {"idle"}]
  /\ call \in [Sessions -> Events \cup {None}]
  /\ inserted \in [Sessions -> BOOLEAN]
  /\ row \in [Sessions -> MatchState \cup {None}]
  /\ next_state \in [Sessions -> MatchState \cup {None}]
  /\ result \in [Sessions -> Results]
  /\ notified \subseteq Matches
  /\ heard \in [Matches -> MatchState \cup {None}]

(***************************************************************************)
(* The stored snapshot of a match is what rebuild_match would compute from *)
(* its stored history, whatever the sessions interleaved and wherever they *)
(* failed: no update is lost, and sorting by event_order_key restores the  *)
(* order of application (storage/postgres.py rebuild_match).               *)
(***************************************************************************)
SnapshotIsRebuild ==
  \A m \in Matches :
    IF match_states[m] = None
    THEN History(m) = {}
    ELSE match_states[m] = RebuildState(m, History(m))

(***************************************************************************)
(* processed_events is the durable idempotency boundary: a reserved        *)
(* identity is the identity of exactly one event of the history, of the    *)
(* same match, and every event of the history has reserved its own.        *)
(***************************************************************************)
IdentityExactlyOnce ==
  /\ processed_events = {Row(e) : e \in projection_events}
  /\ \A e, f \in projection_events : e.event_id = f.event_id => e = f

(***************************************************************************)
(* A match with a state has a history without gaps that ends at its latest *)
(* sequence; a match without one has no history.                           *)
(***************************************************************************)
HistoryGapFree ==
  \A m \in Matches :
    LET sequences == {e.sequence : e \in History(m)}
    IN  IF match_states[m] = None
        THEN sequences = {}
        ELSE \E first \in sequences :
               sequences = first .. match_states[m].latest_sequence

(***************************************************************************)
(* A committed change is announced: whoever has received all notifications *)
(* of a match has read its current state.                                  *)
(***************************************************************************)
ChangesAnnounced ==
  \A m \in Matches : m \notin notified => heard[m] = match_states[m]

(***************************************************************************)
(* The figures of a snapshot count its history: every event once in total  *)
(* and by type, and as many goals for a team as it scored; the two sides   *)
(* are different teams (state/models.py MatchState.__post_init__).         *)
(***************************************************************************)
SnapshotTallies ==
  \A m \in Matches : match_states[m] # None =>
    LET s == match_states[m]
    IN  /\ s.total = Cardinality(History(m))
        /\ s.total = SumFunctionOnSet(s.counts, {k \in EventTypes : s.counts[k] # None})
        /\ \A t \in Teams : Lookup(s.score, t) =
             Cardinality({e \in History(m) : IsGoal(e) /\ e.team = t})
        /\ s.home # None => s.home # s.away

(***************************************************************************)
(* A stored match only moves forward, one sequence at a time: no step of   *)
(* any session takes back an event, a sequence or a goal.                  *)
(***************************************************************************)
MatchAdvances(m) ==
  LET old == match_states[m]
      new == match_states'[m]
  IN  \/ new = old
      \/ old = None /\ new # None
      \/ /\ old # None /\ new # None
         /\ new.latest_sequence = old.latest_sequence + 1
         /\ \A t \in Teams : Lookup(new.score, t) >= Lookup(old.score, t)

OnlyForward == [][ /\ \A m \in Matches : MatchAdvances(m)
                   /\ projection_events \subseteq projection_events' ]_vars

(***************************************************************************)
(* The sessions implement the atomic projection: each call takes effect at *)
(* one instant, and its answer tells the truth about it.                   *)
(***************************************************************************)
Atomic == INSTANCE AtomicProjection
            WITH current <- match_states, log <- projection_events,
                 pending <- call, answer <- result

Linearizable == Atomic!ASpec

(***************************************************************************)
(* No session waits for ever: neither the advisory lock nor the insertion  *)
(* of an identity that another match is inserting can block it for good.   *)
(***************************************************************************)
CallsReturn == \A s \in Sessions : pc[s] = "lock" ~> pc[s] = "idle"
=============================================================================
