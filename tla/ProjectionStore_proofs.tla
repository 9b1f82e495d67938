------------------------ MODULE ProjectionStore_proofs ------------------------
(***************************************************************************)
(* What holds of the durable projection for any set of sessions, matches   *)
(* and events, however the sessions interleave and wherever they fail.     *)
(***************************************************************************)
EXTENDS ProjectionStore, MatchTransition_proofs

\* A session inside a call works on an event, whose match has a lock key.
LEMMA CallType ==
  ASSUME TypeOK, NEW s \in Sessions, call[s] # None
  PROVE  /\ call[s] \in Events
         /\ call[s] \in CanonicalEvent
         /\ call[s].match_id \in Matches
         /\ call[s].event_id \in EventIds
         /\ Key(call[s]) \in LockKeys
BY StoreAssumption DEF TypeOK, CanonicalEvent, Key, LockKeys

\* The state before the event is a match state.
LEMMA PreviousType ==
  ASSUME TypeOK, NEW s \in Sessions, call[s] # None
  PROVE  Previous(s) \in MatchState
BY CallType, InitialStateType DEF Previous, TypeOK

\* A session is inside a call exactly when it has an event.
CallInv == \A s \in Sessions : pc[s] = "idle" <=> call[s] = None

\* The end of a transaction preserves the types of what it touches.
LEMMA FinishType ==
  ASSUME TypeOK, NEW s \in Sessions, NEW r \in Results, Finish(s, r)
  PROVE  /\ advisory' \in [LockKeys -> Backends \cup {None}]
         /\ pc' \in [Sessions -> Statements \cup {"idle"}]
         /\ call' \in [Sessions -> Events \cup {None}]
         /\ inserted' \in [Sessions -> BOOLEAN]
         /\ row' \in [Sessions -> MatchState \cup {None}]
         /\ next_state' \in [Sessions -> MatchState \cup {None}]
         /\ result' \in [Sessions -> Results]
BY DEF Finish, Released, Goto, TypeOK

\* Every step of every session preserves the types and CallInv.
LEMMA TypeStep == TypeOK /\ CallInv /\ [Next]_vars => TypeOK' /\ CallInv'
<1> SUFFICES ASSUME TypeOK, CallInv, [Next]_vars
             PROVE  TypeOK' /\ CallInv'
  OBVIOUS
<1> USE DEF channel, tables, locals, Statements, Goto
<1>1. ASSUME NEW s \in Sessions, Begin(s)
      PROVE  TypeOK' /\ CallInv'
  BY <1>1, StoreAssumption DEF Begin, TypeOK, CallInv
<1>2. ASSUME NEW s \in Sessions, Lock(s)
      PROVE  TypeOK' /\ CallInv'
  <2>1. s \in Backends /\ advisory' \in [LockKeys -> Backends \cup {None}]
    BY <1>2, StoreAssumption DEF Lock, TypeOK
  <2> QED
    BY <1>2, <2>1 DEF Lock, TypeOK, CallInv
<1>3. ASSUME NEW s \in Sessions, Reserve(s)
      PROVE  TypeOK' /\ CallInv'
  BY <1>3 DEF Reserve, TypeOK, CallInv
<1>4. ASSUME NEW s \in Sessions, Read(s)
      PROVE  TypeOK' /\ CallInv'
  <2>1. call[s].match_id \in Matches
    BY <1>4, CallType DEF Read, CallInv
  <2> QED
    BY <1>4, <2>1 DEF Read, TypeOK, CallInv
<1>5. ASSUME NEW s \in Sessions, NEW r \in Results, Finish(s, r), pc[s] # "idle",
             UNCHANGED <<tables, channel>>
      PROVE  TypeOK' /\ CallInv'
  <2>1. TypeOK'
    BY <1>5, FinishType DEF TypeOK
  <2>2. CallInv'
    BY <1>5 DEF Finish, CallInv, TypeOK
  <2> QED
    BY <2>1, <2>2
<1>6. ASSUME NEW s \in Sessions, Verify(s)
      PROVE  TypeOK' /\ CallInv'
  BY <1>5, <1>6 DEF Verify, Results
<1>7. ASSUME NEW s \in Sessions, Transition(s)
      PROVE  TypeOK' /\ CallInv'
  <2>1. CASE Accepts(Previous(s), call[s])
    <3>1. ApplyEvent(Previous(s), call[s]) \in MatchState
      BY <1>7, <2>1, CallType, PreviousType, ApplyEventType DEF Transition, CallInv
    <3> QED
      BY <1>7, <2>1, <3>1 DEF Transition, TypeOK, CallInv
  <2>2. CASE ~Accepts(Previous(s), call[s])
    BY <1>5, <1>7, <2>2 DEF Transition, Results
  <2> QED
    BY <2>1, <2>2
<1>8. ASSUME NEW s \in Sessions, Write(s)
      PROVE  TypeOK' /\ CallInv'
  <2>1. CASE HistoryConflict(call[s])
    BY <1>5, <1>8, <2>1 DEF Write, Results
  <2>2. CASE ~HistoryConflict(call[s])
    BY <1>8, <2>2 DEF Write, TypeOK, CallInv
  <2> QED
    BY <2>1, <2>2
<1>9. ASSUME NEW s \in Sessions, Commit(s)
      PROVE  TypeOK' /\ CallInv'
  <2>1. PICK r \in Results : Finish(s, r)
    BY <1>9 DEF Commit, Results
  <2>2. call[s] # None
    BY <1>9 DEF Commit, CallInv
  <2>3. match_states' \in [Matches -> MatchState \cup {None}]
    BY <1>9, <2>2, CallType DEF Commit, TypeOK
  <2>4. processed_events' \subseteq [event_id : EventIds, match_id : Matches]
    BY <1>9, <2>2, CallType DEF Commit, TypeOK, IdentityRow, Row
  <2>5. projection_events' \subseteq Events
    BY <1>9, <2>2, CallType DEF Commit, TypeOK, HistoryRow
  <2>6. notified' \subseteq Matches /\ heard' \in [Matches -> MatchState \cup {None}]
    BY <1>9, <2>2, CallType DEF Commit, TypeOK, Notification
  <2>7. CallInv'
    BY <2>1 DEF Finish, CallInv, TypeOK
  <2> QED
    BY <2>1, <2>3, <2>4, <2>5, <2>6, <2>7, FinishType DEF TypeOK
<1>10. ASSUME NEW s \in Sessions, Fail(s)
       PROVE  TypeOK' /\ CallInv'
  BY <1>5, <1>10 DEF Fail, Results
<1>11. ASSUME NEW m \in Matches, Receive(m)
       PROVE  TypeOK' /\ CallInv'
  BY <1>11 DEF Receive, TypeOK, CallInv
<1>12. CASE UNCHANGED vars
  BY <1>12 DEF vars, TypeOK, CallInv
<1> QED
  BY <1>1, <1>2, <1>3, <1>4, <1>6, <1>7, <1>8, <1>9, <1>10, <1>11, <1>12
  DEF Next, Step

\* The initial state has the right types, and nobody is inside a call.
LEMMA TypeInit == Init => TypeOK /\ CallInv
BY StoreAssumption DEF Init, TypeOK, CallInv, Statements, Results

\* Every variable of the store keeps its type (ProjectionStore's TypeOK).
THEOREM TypeCorrect == Spec => []TypeOK
BY TypeInit, TypeStep, PTL DEF Spec

-----------------------------------------------------------------------------
(***************************************************************************)
(* The reservation of identities.  A transaction whose INSERT took effect  *)
(* has an identity that the history does not know and that no other open   *)
(* transaction has inserted; only such a transaction goes on to commit.    *)
(***************************************************************************)
ReservedInv ==
  \A s \in Sessions :
    /\ pc[s] \in {"transition", "write", "commit"} => inserted[s]
    /\ inserted[s] =>
         /\ pc[s] \in {"read", "transition", "write", "commit"}
         /\ \A f \in projection_events : f.event_id # call[s].event_id
         /\ \A t \in Sessions \ {s} :
              inserted[t] => call[t].event_id # call[s].event_id

IdentityInv == TypeOK /\ CallInv /\ IdentityExactlyOnce /\ ReservedInv

\* A commit adds one row to each table: its identity is new to both.
LEMMA IdentityCommit ==
  ASSUME IdentityInv, NEW s \in Sessions, Commit(s)
  PROVE  IdentityExactlyOnce'
<1> DEFINE e == call[s]
<1>1. \A f \in projection_events : f.event_id # e.event_id
  BY DEF IdentityInv, ReservedInv, Commit
<1>2. /\ processed_events' = processed_events \cup {Row(e)}
      /\ projection_events' = projection_events \cup {e}
  BY DEF Commit, IdentityRow, HistoryRow
<1>3. processed_events' = {Row(f) : f \in projection_events'}
  BY <1>2 DEF IdentityInv, IdentityExactlyOnce
<1> QED
  BY <1>1, <1>2, <1>3 DEF IdentityInv, IdentityExactlyOnce, Row

\* Every step preserves the identities and their reservation.
LEMMA IdentityStep == IdentityInv /\ [Next]_vars => IdentityInv'
<1> SUFFICES ASSUME IdentityInv, [Next]_vars
             PROVE  IdentityExactlyOnce' /\ ReservedInv'
  BY TypeStep DEF IdentityInv
<1> USE DEF channel, tables, locals, Statements, Goto
<1>0. TypeOK /\ CallInv /\ IdentityExactlyOnce /\ ReservedInv
  BY DEF IdentityInv
<1>1. ASSUME UNCHANGED <<processed_events, projection_events>>
      PROVE  IdentityExactlyOnce'
  BY <1>0, <1>1 DEF IdentityExactlyOnce, Row
<1>2. ASSUME NEW s \in Sessions, Begin(s)
      PROVE  ReservedInv'
  BY <1>0, <1>2 DEF Begin, ReservedInv, TypeOK
<1>3. ASSUME NEW s \in Sessions, Lock(s)
      PROVE  ReservedInv'
  BY <1>0, <1>3 DEF Lock, ReservedInv, TypeOK
<1>4. ASSUME NEW s \in Sessions, Reserve(s)
      PROVE  ReservedInv'
  <2>1. inserted'[s] => \A f \in projection_events : f.event_id # call[s].event_id
    <3>1. \A f \in projection_events : Row(f) \in processed_events
      BY <1>0 DEF IdentityExactlyOnce
    <3>2. \A f \in projection_events : Row(f).event_id = f.event_id
      BY DEF Row
    <3>3. inserted'[s] => ~ \E r \in processed_events : r.event_id = call[s].event_id
      BY <1>0, <1>4 DEF Reserve, TypeOK
    <3> QED
      BY <3>1, <3>2, <3>3
  <2> QED
    BY <1>0, <1>4, <2>1 DEF Reserve, ReservedInv, TypeOK
<1>5. ASSUME NEW s \in Sessions, Read(s)
      PROVE  ReservedInv'
  BY <1>0, <1>5 DEF Read, ReservedInv, TypeOK
<1>6. ASSUME NEW s \in Sessions, NEW r \in Results, Finish(s, r),
             UNCHANGED projection_events
      PROVE  ReservedInv'
  BY <1>0, <1>6 DEF Finish, ReservedInv, TypeOK
<1>7. ASSUME NEW s \in Sessions, Verify(s)
      PROVE  ReservedInv'
  BY <1>6, <1>7 DEF Verify, Results
<1>8. ASSUME NEW s \in Sessions, Transition(s)
      PROVE  ReservedInv'
  <2>1. CASE Accepts(Previous(s), call[s])
    BY <1>0, <1>8, <2>1 DEF Transition, ReservedInv, TypeOK
  <2>2. CASE ~Accepts(Previous(s), call[s])
    BY <1>6, <1>8, <2>2 DEF Transition, Results
  <2> QED
    BY <2>1, <2>2
<1>9. ASSUME NEW s \in Sessions, Write(s)
      PROVE  ReservedInv'
  <2>1. CASE HistoryConflict(call[s])
    BY <1>6, <1>9, <2>1 DEF Write, Results
  <2>2. CASE ~HistoryConflict(call[s])
    BY <1>0, <1>9, <2>2 DEF Write, ReservedInv, TypeOK
  <2> QED
    BY <2>1, <2>2
<1>10. ASSUME NEW s \in Sessions, Commit(s)
       PROVE  ReservedInv'
  <2>1. PICK r \in Results : Finish(s, r)
    BY <1>10 DEF Commit, Results
  <2>2. inserted[s] /\ projection_events' = projection_events \cup {call[s]}
    BY <1>0, <1>10 DEF Commit, HistoryRow, ReservedInv
  <2> QED
    BY <1>0, <2>1, <2>2 DEF Finish, ReservedInv, TypeOK
<1>11. ASSUME NEW s \in Sessions, Fail(s)
       PROVE  ReservedInv'
  BY <1>6, <1>11 DEF Fail, Results
<1>12. ASSUME NEW m \in Matches, Receive(m)
       PROVE  ReservedInv'
  BY <1>0, <1>12 DEF Receive, ReservedInv
<1>13. CASE UNCHANGED vars
  BY <1>0, <1>1, <1>13 DEF vars, ReservedInv
<1>14. ASSUME NEW s \in Sessions, Begin(s) \/ Step(s) \/ Fail(s), ~Commit(s)
       PROVE  IdentityExactlyOnce'
  BY <1>1, <1>14
  DEF Begin, Step, Lock, Reserve, Read, Verify, Transition, Write, Fail
<1>15. ASSUME NEW m \in Matches, Receive(m)
       PROVE  IdentityExactlyOnce'
  BY <1>1, <1>15 DEF Receive
<1> QED
  BY <1>2, <1>3, <1>4, <1>5, <1>7, <1>8, <1>9, <1>10, <1>11, <1>12, <1>13,
     <1>14, <1>15, IdentityCommit
  DEF Next, Step

\* The empty tables and idle sessions satisfy it.
LEMMA IdentityInit == Init => IdentityInv
<1> SUFFICES ASSUME Init PROVE IdentityInv
  OBVIOUS
<1>1. IdentityExactlyOnce /\ ReservedInv
  BY DEF Init, IdentityExactlyOnce, ReservedInv
<1> QED
  BY <1>1, TypeInit DEF IdentityInv

(***************************************************************************)
(* The identities of processed_events are those of the stored events, one  *)
(* event each: no delivery is applied twice and no identity is used up     *)
(* without an effect, for any number of sessions (process_event's INSERT   *)
(* ... ON CONFLICT inside the transaction).                                *)
(***************************************************************************)
THEOREM IdentityCorrect == Spec => []IdentityExactlyOnce
<1>1. IdentityInv => IdentityExactlyOnce
  BY DEF IdentityInv
<1> QED
  BY <1>1, IdentityInit, IdentityStep, PTL DEF Spec

-----------------------------------------------------------------------------
(***************************************************************************)
(* The advisory lock.  A session that works inside its transaction holds   *)
(* the lock of its match; therefore the row it has read is still the row   *)
(* of the match when it commits, and the state it stores is the            *)
(* transition of that row.                                                 *)
(***************************************************************************)
LockInv == \A s \in Sessions : pc[s] \in Locked => advisory[Key(call[s])] = s

RowInv ==
  \A s \in Sessions :
    pc[s] \in {"verify", "transition", "write", "commit"} =>
      row[s] = match_states[call[s].match_id]

NextInv ==
  \A s \in Sessions :
    pc[s] \in {"write", "commit"} =>
      /\ Accepts(Previous(s), call[s])
      /\ next_state[s] = ApplyEvent(Previous(s), call[s])

SerialInv == IdentityInv /\ LockInv /\ RowInv /\ NextInv

\* The end of a transaction disturbs no other transaction's lock.
LEMMA SerialFinish ==
  ASSUME SerialInv, NEW s \in Sessions, NEW r \in Results, Finish(s, r),
         UNCHANGED tables
  PROVE  LockInv' /\ RowInv' /\ NextInv'
<1> USE DEF SerialInv, IdentityInv, TypeOK, Statements
<1>1. \A t \in Sessions \ {s} : /\ pc'[t] = pc[t] /\ call'[t] = call[t]
                                /\ row'[t] = row[t] /\ next_state'[t] = next_state[t]
  BY DEF Finish, Goto
<1>2. pc'[s] = "idle"
  BY DEF Finish, Goto
<1>3. LockInv'
  <2>1. \A k \in LockKeys : advisory[k] # s => advisory'[k] = advisory[k]
    BY DEF Finish, Released
  <2> SUFFICES ASSUME NEW t \in Sessions, pc'[t] \in Locked
               PROVE  advisory'[Key(call'[t])] = t
    BY DEF LockInv, Key
  <2>2. t # s /\ call'[t] = call[t] /\ advisory[Key(call[t])] = t
    BY <1>1, <1>2 DEF LockInv, Locked
  <2>3. Key(call[t]) \in LockKeys
    BY <1>1, <1>2, CallType DEF CallInv, Locked
  <2> QED
    BY <2>1, <2>2, <2>3
<1>4. RowInv'
  BY <1>1, <1>2 DEF RowInv, tables
<1>5. NextInv'
  BY <1>1, <1>2 DEF NextInv, Previous
<1> QED
  BY <1>3, <1>4, <1>5

\* Every step preserves the locks and what they protect.
LEMMA SerialStep == SerialInv /\ [Next]_vars => SerialInv'
<1> SUFFICES ASSUME SerialInv, [Next]_vars
             PROVE  LockInv' /\ RowInv' /\ NextInv'
  BY IdentityStep DEF SerialInv
<1> USE DEF channel, tables, locals, Statements, Locked, Goto
<1>0. TypeOK /\ CallInv /\ LockInv /\ RowInv /\ NextInv
  BY DEF SerialInv, IdentityInv
<1>1. ASSUME NEW s \in Sessions, Begin(s)
      PROVE  LockInv' /\ RowInv' /\ NextInv'
  BY <1>0, <1>1 DEF Begin, LockInv, RowInv, NextInv, TypeOK, Key, Previous
<1>2. ASSUME NEW s \in Sessions, Lock(s)
      PROVE  LockInv' /\ RowInv' /\ NextInv'
  <2>1. Key(call[s]) \in LockKeys
    BY <1>0, <1>2, CallType DEF Lock, CallInv
  <2>2. LockInv'
    BY <1>0, <1>2, <2>1, StoreAssumption DEF Lock, LockInv, TypeOK, Key, Free
  <2>3. RowInv' /\ NextInv'
    BY <1>0, <1>2 DEF Lock, RowInv, NextInv, TypeOK, Previous
  <2> QED
    BY <2>2, <2>3
<1>3. ASSUME NEW s \in Sessions, Reserve(s)
      PROVE  LockInv' /\ RowInv' /\ NextInv'
  BY <1>0, <1>3 DEF Reserve, LockInv, RowInv, NextInv, TypeOK, Key, Previous
<1>4. ASSUME NEW s \in Sessions, Read(s)
      PROVE  LockInv' /\ RowInv' /\ NextInv'
  BY <1>0, <1>4 DEF Read, LockInv, RowInv, NextInv, TypeOK, Key, Previous
<1>5. ASSUME NEW s \in Sessions, Verify(s)
      PROVE  LockInv' /\ RowInv' /\ NextInv'
  BY <1>5, SerialFinish DEF Verify, Results
<1>6. ASSUME NEW s \in Sessions, Transition(s)
      PROVE  LockInv' /\ RowInv' /\ NextInv'
  <2>1. CASE Accepts(Previous(s), call[s])
    BY <1>0, <1>6, <2>1 DEF Transition, LockInv, RowInv, NextInv, TypeOK, Key, Previous
  <2>2. CASE ~Accepts(Previous(s), call[s])
    BY <1>6, <2>2, SerialFinish DEF Transition, Results
  <2> QED
    BY <2>1, <2>2
<1>7. ASSUME NEW s \in Sessions, Write(s)
      PROVE  LockInv' /\ RowInv' /\ NextInv'
  <2>1. CASE HistoryConflict(call[s])
    BY <1>7, <2>1, SerialFinish DEF Write, Results
  <2>2. CASE ~HistoryConflict(call[s])
    BY <1>0, <1>7, <2>2 DEF Write, LockInv, RowInv, NextInv, TypeOK, Key, Previous
  <2> QED
    BY <2>1, <2>2
<1>8. ASSUME NEW s \in Sessions, Commit(s)
      PROVE  LockInv' /\ RowInv' /\ NextInv'
  <2>1. PICK r \in Results : Finish(s, r)
    BY <1>8 DEF Commit, Results
  <2>2. \A t \in Sessions \ {s} : /\ pc'[t] = pc[t] /\ call'[t] = call[t]
                                  /\ row'[t] = row[t] /\ next_state'[t] = next_state[t]
    BY <1>0, <2>1 DEF Finish, TypeOK
  <2>3. pc'[s] = "idle"
    BY <1>0, <2>1 DEF Finish, TypeOK
  <2>4. LockInv'
    <3>1. \A k \in LockKeys : advisory[k] # s => advisory'[k] = advisory[k]
      BY <1>0, <2>1 DEF Finish, Released, TypeOK
    <3> SUFFICES ASSUME NEW t \in Sessions, pc'[t] \in Locked
                 PROVE  advisory'[Key(call'[t])] = t
      BY DEF LockInv, Key
    <3>2. t # s /\ call'[t] = call[t] /\ advisory[Key(call[t])] = t
      BY <1>0, <2>2, <2>3 DEF LockInv
    <3>3. Key(call[t]) \in LockKeys
      BY <1>0, <2>2, <2>3, CallType DEF CallInv
    <3> QED
      BY <3>1, <3>2, <3>3
  <2>5. RowInv'
    \* another session in its transaction works on another match
    <3> SUFFICES ASSUME NEW t \in Sessions,
                        pc'[t] \in {"verify", "transition", "write", "commit"}
                 PROVE  row'[t] = match_states'[call'[t].match_id]
      BY DEF RowInv
    <3>1. t # s /\ advisory[Key(call[t])] = t /\ advisory[Key(call[s])] = s
      BY <1>0, <1>8, <2>2, <2>3 DEF LockInv, Commit
    <3>2. call[t].match_id # call[s].match_id
      BY <3>1 DEF Key
    <3>3. match_states'[call[t].match_id] = match_states[call[t].match_id]
      BY <1>0, <1>8, <3>2 DEF Commit, TypeOK
    <3> QED
      BY <1>0, <2>2, <3>1, <3>3 DEF RowInv
  <2>6. NextInv'
    BY <1>0, <2>2, <2>3 DEF NextInv, Previous
  <2> QED
    BY <2>4, <2>5, <2>6
<1>9. ASSUME NEW s \in Sessions, Fail(s)
      PROVE  LockInv' /\ RowInv' /\ NextInv'
  BY <1>9, SerialFinish DEF Fail, Results
<1>10. ASSUME NEW m \in Matches, Receive(m)
       PROVE  LockInv' /\ RowInv' /\ NextInv'
  BY <1>0, <1>10 DEF Receive, LockInv, RowInv, NextInv, Key, Previous
<1>11. CASE UNCHANGED vars
  BY <1>0, <1>11 DEF vars, LockInv, RowInv, NextInv, Key, Previous
<1> QED
  BY <1>1, <1>2, <1>3, <1>4, <1>5, <1>6, <1>7, <1>8, <1>9, <1>10, <1>11
  DEF Next, Step

\* The inductive invariant holds in every state of the store.
LEMMA Serial == Spec => []SerialInv
<1>1. Init => LockInv /\ RowInv /\ NextInv
  BY DEF Init, LockInv, RowInv, NextInv, Locked, Statements
<1>2. Init => SerialInv
  BY <1>1, IdentityInit DEF SerialInv
<1> QED
  BY <1>2, SerialStep, PTL DEF Spec

-----------------------------------------------------------------------------
(***************************************************************************)
(* Refinement: a commit is the atomic application of the event, the other  *)
(* ends of a transaction are the other answers, and what a session does in *)
(* between is invisible.                                                   *)
(***************************************************************************)
\* The end of a call answers its caller.
LEMMA FinishAnswers ==
  ASSUME TypeOK, CallInv, NEW s \in Sessions, NEW r \in Results, Finish(s, r),
         pc[s] # "idle"
  PROVE  Atomic!Answer(s, r)
BY DEF Finish, Atomic!Answer, CallInv

\* The two modules speak of the same transition.
LEMMA SameTransition ==
  /\ \A m : Atomic!InitialState(m) = InitialState(m)
  /\ \A p, e : Atomic!Accepts(p, e) <=> Accepts(p, e)
  /\ \A p, e : Atomic!ApplyEvent(p, e) = ApplyEvent(p, e)
<1>1. \A m : Atomic!InitialState(m) = InitialState(m)
  BY DEF InitialState, EmptyTally, Atomic!InitialState, Atomic!EmptyTally
<1>2. \A e : Atomic!IsGoal(e) <=> IsGoal(e)
  BY DEF IsGoal, Atomic!IsGoal
<1>3. \A p, e : Atomic!ValidTransition(p, e) <=> ValidTransition(p, e)
  BY DEF ValidTransition, Stale, SequenceGap, ClockRegression,
         Atomic!ValidTransition, Atomic!Stale, Atomic!SequenceGap,
         Atomic!ClockRegression
<1>4. \A p, e : Atomic!Accepts(p, e) <=> Accepts(p, e)
  BY <1>2, <1>3 DEF Accepts, Atomic!Accepts
<1>5. \A p, e : /\ Atomic!HomeTeam(p, e) = HomeTeam(p, e)
                /\ Atomic!AwayTeam(p, e) = AwayTeam(p, e)
  BY DEF HomeTeam, AwayTeam, FirstLineup, SecondLineup, Atomic!HomeTeam,
         Atomic!AwayTeam, Atomic!FirstLineup, Atomic!SecondLineup
<1>6. \A f, k : Atomic!Bump(f, k) = Bump(f, k) /\ Atomic!WithKeys(f, k) = WithKeys(f, k)
  BY DEF Bump, Lookup, WithKeys, Atomic!Bump, Atomic!Lookup, Atomic!WithKeys
<1>7. \A p, e : Atomic!Scores(p, e) = Scores(p, e)
  BY <1>2, <1>5, <1>6 DEF Scores, Atomic!Scores
<1>8. \A p, e : Atomic!ApplyEvent(p, e) = ApplyEvent(p, e)
  BY <1>5, <1>6, <1>7 DEF ApplyEvent, Atomic!ApplyEvent
<1> QED
  BY <1>1, <1>4, <1>8

\* What the session read is the current state of the match.
LEMMA PreviousIsCurrent ==
  ASSUME RowInv, NEW s \in Sessions, pc[s] \in {"transition", "write", "commit"}
  PROVE  Previous(s) =
           Atomic!StateOrInitial(match_states[call[s].match_id], call[s].match_id)
BY SameTransition DEF RowInv, Previous, Atomic!StateOrInitial

\* Every step of the store is a step of the atomic projection or a stutter.
LEMMA RefinementStep == SerialInv /\ [Next]_vars => [Atomic!ANext]_(Atomic!aVars)
<1> SUFFICES ASSUME SerialInv, [Next]_vars
             PROVE  [Atomic!ANext]_(Atomic!aVars)
  OBVIOUS
<1> USE DEF channel, tables, locals, Goto, Atomic!aVars
<1>0. /\ TypeOK /\ CallInv /\ RowInv /\ NextInv
      /\ IdentityExactlyOnce /\ ReservedInv
  BY DEF SerialInv, IdentityInv
<1>1. ASSUME NEW s \in Sessions, Begin(s)
      PROVE  Atomic!ANext
  <2>1. PICK e \in Events : call' = [call EXCEPT ![s] = e]
    BY <1>1 DEF Begin
  <2>2. Atomic!Call(s, e)
    BY <1>0, <1>1, <2>1 DEF Begin, CallInv, Atomic!Call
  <2> QED
    BY <2>2 DEF Atomic!ANext
<1>2. ASSUME NEW s \in Sessions, Lock(s) \/ Reserve(s) \/ Read(s)
      PROVE  UNCHANGED Atomic!aVars
  BY <1>2 DEF Lock, Reserve, Read
<1>3. ASSUME NEW s \in Sessions, Finish(s, "storage_error"), UNCHANGED tables,
             pc[s] # "idle"
      PROVE  Atomic!ANext
  <2>1. Atomic!FailCall(s)
    BY <1>0, <1>3, FinishAnswers DEF Results, Atomic!FailCall
  <2> QED
    BY <2>1 DEF Atomic!ANext
<1>4. ASSUME NEW s \in Sessions, Verify(s)
      PROVE  Atomic!ANext
  <2>1. CASE IdentityOfItsMatch(call[s]) /\ row[s] # None
    <3>1. PICK f \in projection_events : Row(call[s]) = Row(f)
      BY <1>0, <2>1 DEF IdentityOfItsMatch, IdentityExactlyOnce
    <3>2. Atomic!KnownToItsMatch(call[s])
      BY <3>1 DEF Row, Atomic!KnownToItsMatch
    <3>3. Atomic!Answer(s, "duplicate")
      BY <1>0, <1>4, <2>1, FinishAnswers DEF Verify, Results
    <3>4. Atomic!Repeat(s)
      BY <1>4, <3>2, <3>3 DEF Verify, Atomic!Repeat
    <3> QED
      BY <3>4 DEF Atomic!ANext
  <2>2. CASE ~(IdentityOfItsMatch(call[s]) /\ row[s] # None)
    BY <1>3, <1>4, <2>2 DEF Verify
  <2> QED
    BY <2>1, <2>2
<1>5. ASSUME NEW s \in Sessions, Transition(s)
      PROVE  [Atomic!ANext]_(Atomic!aVars)
  <2>1. CASE Accepts(Previous(s), call[s])
    BY <1>5, <2>1 DEF Transition
  <2>2. CASE ~Accepts(Previous(s), call[s])
    <3>1. Atomic!Answer(s, "poison")
      BY <1>0, <1>5, <2>2, FinishAnswers DEF Transition, Results
    <3>2. ~Atomic!Known(call[s])
      BY <1>0, <1>5 DEF Transition, ReservedInv, Atomic!Known
    <3>3. Atomic!Reject(s)
      BY <1>0, <1>5, <2>2, <3>1, <3>2, PreviousIsCurrent, SameTransition
      DEF Transition, Atomic!Reject
    <3> QED
      BY <3>3 DEF Atomic!ANext
  <2> QED
    BY <2>1, <2>2
<1>6. ASSUME NEW s \in Sessions, Write(s)
      PROVE  [Atomic!ANext]_(Atomic!aVars)
  <2>1. CASE HistoryConflict(call[s])
    BY <1>3, <1>6, <2>1 DEF Write
  <2>2. CASE ~HistoryConflict(call[s])
    BY <1>6, <2>2 DEF Write
  <2> QED
    BY <2>1, <2>2
<1>7. ASSUME NEW s \in Sessions, Commit(s)
      PROVE  Atomic!ANext
  <2>1. Atomic!Answer(s, "applied") \/ Atomic!Answer(s, "storage_error")
    BY <1>0, <1>7, FinishAnswers DEF Commit, Results
  <2>2. ~Atomic!Known(call[s])
    BY <1>0, <1>7 DEF Commit, ReservedInv, Atomic!Known
  <2>3. /\ Accepts(Previous(s), call[s])
        /\ next_state[s] = ApplyEvent(Previous(s), call[s])
    BY <1>0, <1>7 DEF Commit, NextInv
  <2>4. /\ match_states' = [match_states EXCEPT ![call[s].match_id] = next_state[s]]
        /\ projection_events' = projection_events \cup {call[s]}
    BY <1>7 DEF Commit, HistoryRow
  <2>5. Atomic!Apply(s)
    BY <1>0, <1>7, <2>1, <2>2, <2>3, <2>4, PreviousIsCurrent, SameTransition
    DEF Commit, Atomic!Apply
  <2> QED
    BY <2>5 DEF Atomic!ANext
<1>8. ASSUME NEW s \in Sessions, Fail(s)
      PROVE  Atomic!ANext
  BY <1>3, <1>8 DEF Fail
<1>9. ASSUME NEW m \in Matches, Receive(m)
      PROVE  UNCHANGED Atomic!aVars
  BY <1>9 DEF Receive
<1>10. CASE UNCHANGED vars
  BY <1>10 DEF vars
<1> QED
  BY <1>1, <1>2, <1>4, <1>5, <1>6, <1>7, <1>8, <1>9, <1>10 DEF Next, Step

(***************************************************************************)
(* Any number of concurrent process_event transactions behave as if each   *)
(* call took effect at one instant, and tell their callers the truth.      *)
(***************************************************************************)
THEOREM StoreLinearizable == Spec => Linearizable
<1>1. Init => Atomic!AInit
  BY DEF Init, Atomic!AInit
<1>2. Linearizable <=> Atomic!AInit /\ [][Atomic!ANext]_(Atomic!aVars)
  BY DEF Linearizable, Atomic!ASpec
<1> QED
  BY <1>1, <1>2, Serial, RefinementStep, PTL DEF Spec

-----------------------------------------------------------------------------
(***************************************************************************)
(* The history.  Only a commit changes the tables, and it appends the      *)
(* event that continues the stored state.                                  *)
(***************************************************************************)
\* What a commit does to the tables.
LEMMA CommitEffect ==
  ASSUME SerialInv, NEW s \in Sessions, Commit(s)
  PROVE  \E e \in CanonicalEvent, p \in MatchState :
           /\ p = IF match_states[e.match_id] = None
                  THEN InitialState(e.match_id) ELSE match_states[e.match_id]
           /\ Accepts(p, e)
           /\ match_states' = [match_states EXCEPT ![e.match_id] = ApplyEvent(p, e)]
           /\ projection_events' = projection_events \cup {e}
<1>1. call[s] # None
  BY DEF SerialInv, IdentityInv, CallInv, Commit
<1>2. /\ Accepts(Previous(s), call[s])
      /\ next_state[s] = ApplyEvent(Previous(s), call[s])
      /\ row[s] = match_states[call[s].match_id]
  BY DEF SerialInv, NextInv, RowInv, Commit
<1>3. call[s] \in CanonicalEvent /\ Previous(s) \in MatchState
  BY <1>1, CallType, PreviousType DEF SerialInv, IdentityInv
<1>4. /\ match_states' = [match_states EXCEPT ![call[s].match_id] = next_state[s]]
      /\ projection_events' = projection_events \cup {call[s]}
  BY DEF Commit, HistoryRow
<1> QED
  BY <1>2, <1>3, <1>4 DEF Previous

\* No other step changes the tables.
LEMMA OnlyCommitWrites ==
  ASSUME [Next]_vars, \A s \in Sessions : ~Commit(s)
  PROVE  UNCHANGED tables
BY DEF Next, Step, Begin, Lock, Reserve, Read, Verify, Transition, Write, Fail,
       Receive, vars, tables

\* The latest sequence of a stored match is a number.
LatestInv ==
  \A m \in Matches :
    match_states[m] # None => match_states[m].latest_sequence \in Nat

\* A commit extends the sequences of its match by the next one.
LEMMA GapFreeStep ==
  SerialInv /\ LatestInv /\ HistoryGapFree /\ [Next]_vars
    => LatestInv' /\ HistoryGapFree'
<1> DEFINE sequences(m) == {e.sequence : e \in History(m)}
<1> SUFFICES ASSUME SerialInv, LatestInv, HistoryGapFree, [Next]_vars
             PROVE  LatestInv' /\ HistoryGapFree'
  OBVIOUS
<1>1. CASE \A s \in Sessions : ~Commit(s)
  <2>1. UNCHANGED <<match_states, projection_events>>
    BY <1>1, OnlyCommitWrites DEF tables
  <2> QED
    BY <2>1 DEF LatestInv, HistoryGapFree, History
<1>2. ASSUME NEW s \in Sessions, Commit(s)
      PROVE  LatestInv' /\ HistoryGapFree'
  <2>1. PICK e \in CanonicalEvent, p \in MatchState :
          /\ p = IF match_states[e.match_id] = None
                 THEN InitialState(e.match_id) ELSE match_states[e.match_id]
          /\ Accepts(p, e)
          /\ match_states' = [match_states EXCEPT ![e.match_id] = ApplyEvent(p, e)]
          /\ projection_events' = projection_events \cup {e}
    BY <1>2, CommitEffect
  <2> DEFINE old == match_states[e.match_id]
             new == ApplyEvent(p, e)
  <2>2. /\ e.match_id \in Matches
        /\ e.sequence \in Nat /\ new \in MatchState /\ new # None
        /\ new.latest_sequence = e.sequence
    BY <2>1, ApplyEventType, StoreAssumption DEF CanonicalEvent
  <2>3. match_states \in [Matches -> MatchState \cup {None}]
    BY DEF SerialInv, IdentityInv, TypeOK
  <2>4. /\ match_states'[e.match_id] = new
        /\ \A m \in Matches \ {e.match_id} : match_states'[m] = match_states[m]
    BY <2>1, <2>2, <2>3
  <2>5. LatestInv'
    BY <2>2, <2>4 DEF LatestInv
  <2>6. \A m \in Matches \ {e.match_id} : sequences(m)' = sequences(m)
    BY <2>1 DEF History
  <2>7. sequences(e.match_id)' = sequences(e.match_id) \cup {e.sequence}
    <3>1. History(e.match_id)' = History(e.match_id) \cup {e}
      BY <2>1 DEF History
    <3> QED
      BY <3>1
  <2>8. ASSUME NEW m \in Matches, m # e.match_id
        PROVE  IF match_states'[m] = None
               THEN sequences(m)' = {}
               ELSE \E first \in sequences(m)' :
                      sequences(m)' = first .. match_states'[m].latest_sequence
    BY <2>4, <2>6, <2>8 DEF HistoryGapFree
  <2>9. \E first \in sequences(e.match_id)' :
          sequences(e.match_id)' = first .. new.latest_sequence
    <3>1. CASE old = None
      <4>1. sequences(e.match_id)' = {e.sequence}
        BY <2>2, <2>7, <3>1 DEF HistoryGapFree
      <4> QED
        BY <2>2, <4>1
    <3>2. CASE old # None
      <4> DEFINE S == sequences(e.match_id)
      <4>1. PICK first \in S : S = first .. old.latest_sequence
        BY <2>2, <3>2 DEF HistoryGapFree
      <4>2. old.latest_sequence \in Nat
        BY <2>2, <3>2 DEF LatestInv
      <4>3. e.sequence = old.latest_sequence + 1
        BY <2>1, <3>2, <4>2, NoneAssumption
        DEF Accepts, ValidTransition, SequenceGap
      <4>4. \A f \in History(e.match_id) : f.sequence \in Nat
        BY StoreAssumption
        DEF History, SerialInv, IdentityInv, TypeOK, CanonicalEvent
      <4>5. first \in Nat
        BY <4>1, <4>4
      <4>6. S \cup {e.sequence} = first .. e.sequence
        <5> HIDE DEF S
        <5> QED
          BY <4>1, <4>2, <4>3, <4>5
      <4> QED
        BY <2>2, <2>7, <4>1, <4>6
    <3> QED
      BY <3>1, <3>2
  <2>10. HistoryGapFree'
    <3> HIDE DEF new
    <3>1. new # None /\ match_states'[e.match_id] = new
      BY <2>2, <2>4
    <3> QED
      BY <2>8, <2>9, <3>1 DEF HistoryGapFree
  <2> QED
    BY <2>5, <2>10
<1> QED
  BY <1>1, <1>2

\* Both hold in every state.
LEMMA GapFree == Spec => [](LatestInv /\ HistoryGapFree)
<1>1. Init => LatestInv /\ HistoryGapFree
  BY DEF Init, LatestInv, HistoryGapFree, History
<1> QED
  BY <1>1, Serial, GapFreeStep, PTL DEF Spec

(***************************************************************************)
(* The history of a match never has a gap, and its end is the latest       *)
(* sequence of the snapshot.                                               *)
(***************************************************************************)
THEOREM HistoryCorrect == Spec => []HistoryGapFree
BY GapFree, PTL

\* What one step may do to the tables.
LEMMA ForwardStep ==
  SerialInv /\ LatestInv /\ [Next]_vars =>
    /\ \A m \in Matches : MatchAdvances(m)
    /\ projection_events \subseteq projection_events'
<1> SUFFICES ASSUME SerialInv, LatestInv, [Next]_vars
             PROVE  /\ \A m \in Matches : MatchAdvances(m)
                    /\ projection_events \subseteq projection_events'
  OBVIOUS
<1>1. CASE \A s \in Sessions : ~Commit(s)
  BY <1>1, OnlyCommitWrites DEF tables, MatchAdvances
<1>2. ASSUME NEW s \in Sessions, Commit(s)
      PROVE  /\ \A m \in Matches : MatchAdvances(m)
             /\ projection_events \subseteq projection_events'
  <2>1. PICK e \in CanonicalEvent, p \in MatchState :
          /\ p = IF match_states[e.match_id] = None
                 THEN InitialState(e.match_id) ELSE match_states[e.match_id]
          /\ Accepts(p, e)
          /\ match_states' = [match_states EXCEPT ![e.match_id] = ApplyEvent(p, e)]
          /\ projection_events' = projection_events \cup {e}
    BY <1>2, CommitEffect
  <2>2. match_states \in [Matches -> MatchState \cup {None}]
    BY DEF SerialInv, IdentityInv, TypeOK
  <2>3. /\ ApplyEvent(p, e) \in MatchState /\ ApplyEvent(p, e) # None
        /\ ApplyEvent(p, e).latest_sequence = e.sequence
    BY <2>1, ApplyEventType, StoreAssumption
  <2>4. ASSUME NEW m \in Matches PROVE MatchAdvances(m)
    <3>1. CASE m # e.match_id
      BY <2>1, <2>2, <3>1 DEF MatchAdvances
    <3>2. CASE m = e.match_id /\ match_states[m] = None
      BY <2>1, <2>2, <2>3, <3>2 DEF MatchAdvances
    <3>3. CASE m = e.match_id /\ match_states[m] # None
      <4>1. match_states[m] = p /\ match_states'[m] = ApplyEvent(p, e)
        BY <2>1, <2>2, <3>3
      <4>2. p.latest_sequence \in Nat
        BY <3>3, <4>1 DEF LatestInv
      <4>3. e.sequence = p.latest_sequence + 1
        BY <2>1, <4>2, NoneAssumption DEF Accepts, ValidTransition, SequenceGap
      <4>4. \A t \in Teams :
              Lookup(ApplyEvent(p, e).score, t) >= Lookup(p.score, t)
        BY <2>1, ScoresGrow
      <4> QED
        BY <2>3, <3>3, <4>1, <4>3, <4>4 DEF MatchAdvances
    <3> QED
      BY <3>1, <3>2, <3>3
  <2> QED
    BY <2>1, <2>4
<1> QED
  BY <1>1, <1>2

(***************************************************************************)
(* No step of any session takes back an event, a sequence or a goal.       *)
(***************************************************************************)
THEOREM ForwardCorrect == Spec => OnlyForward
<1>1. SerialInv /\ LatestInv /\ [Next]_vars =>
        [ /\ \A m \in Matches : MatchAdvances(m)
          /\ projection_events \subseteq projection_events' ]_vars
  BY ForwardStep
<1> QED
  BY <1>1, Serial, GapFree, PTL DEF Spec, OnlyForward

-----------------------------------------------------------------------------
(***************************************************************************)
(* The snapshot.  The events of a match were applied in the order of their *)
(* sequences and their times never went back, so event_order_key restores  *)
(* the order of application, whatever order the table returns them in.     *)
(***************************************************************************)
RebuildInv ==
  \A m \in Matches :
    /\ Chronicle(History(m))
    /\ IF match_states[m] = None
       THEN History(m) = {}
       ELSE /\ Reaches(History(m), match_states[m])
            /\ match_states[m] = RebuildState(m, History(m))

\* The state before an event is what its match's history rebuilds to.
LEMMA BeforeEvent ==
  ASSUME RebuildInv, TypeOK, NEW m \in Matches,
         NEW p, p = IF match_states[m] = None THEN InitialState(m) ELSE match_states[m]
  PROVE  /\ Chronicle(History(m)) /\ Reaches(History(m), p)
         /\ p = RebuildState(m, History(m)) /\ p # None
<1>1. CASE match_states[m] = None
  <2>1. History(m) = {} /\ p = InitialState(m)
    BY <1>1 DEF RebuildInv
  <2>2. p = RebuildState(m, History(m)) /\ Chronicle(History(m))
    BY <2>1, RebuildNothing
  <2>3. Reaches(History(m), p)
    BY <2>1 DEF Reaches
  <2>4. p # None
    BY <2>1, InitialStateType, StoreAssumption
  <2> QED
    BY <2>2, <2>3, <2>4
<1>2. CASE match_states[m] # None
  BY <1>2 DEF RebuildInv
<1> QED
  BY <1>1, <1>2

\* A commit extends history and snapshot alike; no other step touches them.
LEMMA RebuildInvStep == SerialInv /\ RebuildInv /\ [Next]_vars => RebuildInv'
<1> SUFFICES ASSUME SerialInv, RebuildInv, [Next]_vars
             PROVE  RebuildInv'
  OBVIOUS
<1>1. CASE \A s \in Sessions : ~Commit(s)
  <2>1. UNCHANGED <<match_states, projection_events>>
    BY <1>1, OnlyCommitWrites DEF tables
  <2> QED
    BY <2>1 DEF RebuildInv, History
<1>2. ASSUME NEW s \in Sessions, Commit(s)
      PROVE  RebuildInv'
  <2>1. PICK e \in CanonicalEvent, p \in MatchState :
          /\ p = IF match_states[e.match_id] = None
                 THEN InitialState(e.match_id) ELSE match_states[e.match_id]
          /\ Accepts(p, e)
          /\ match_states' = [match_states EXCEPT ![e.match_id] = ApplyEvent(p, e)]
          /\ projection_events' = projection_events \cup {e}
    BY <1>2, CommitEffect
  <2> DEFINE m == e.match_id
             H == History(m)
  <2>2. /\ TypeOK /\ m \in Matches
        /\ match_states \in [Matches -> MatchState \cup {None}]
    BY DEF SerialInv, IdentityInv, TypeOK, CanonicalEvent
  <2>3. Chronicle(H) /\ Reaches(H, p) /\ p = RebuildState(m, H) /\ p # None
    <3> HIDE DEF m
    <3>1. p = IF match_states[m] = None THEN InitialState(m) ELSE match_states[m]
      BY <2>1 DEF m
    <3> QED
      BY <2>2, <3>1, BeforeEvent
  <2>4. Chronicle(H \cup {e}) /\ Reaches(H \cup {e}, ApplyEvent(p, e))
    <3> HIDE DEF H
    <3> QED
      BY <2>1, <2>3, AcceptedIsLater
  <2>5. RebuildState(m, H \cup {e}) = ApplyEvent(p, e)
    <3> HIDE DEF H, m
    <3> QED
      BY <2>1, <2>3, RebuildExtends
  <2>6. ApplyEvent(p, e) # None
    BY <2>1, ApplyEventType, StoreAssumption
  <2>7. /\ match_states'[m] = ApplyEvent(p, e)
        /\ \A l \in Matches \ {m} : match_states'[l] = match_states[l]
    BY <2>1, <2>2
  <2>8. History(m)' = H \cup {e} /\ \A l \in Matches \ {m} : History(l)' = History(l)
    BY <2>1 DEF History
  <2>9. ASSUME NEW l \in Matches \ {m}
        PROVE  /\ Chronicle(History(l)')
               /\ IF match_states'[l] = None
                  THEN History(l)' = {}
                  ELSE /\ Reaches(History(l)', match_states'[l])
                       /\ match_states'[l] = RebuildState(l, History(l)')
    BY <2>7, <2>8 DEF RebuildInv
  <2>10. /\ Chronicle(History(m)')
         /\ match_states'[m] # None
         /\ Reaches(History(m)', match_states'[m])
         /\ match_states'[m] = RebuildState(m, History(m)')
    BY <2>4, <2>5, <2>6, <2>7, <2>8
  <2> QED
    BY <2>9, <2>10 DEF RebuildInv
<1> QED
  BY <1>1, <1>2

\* It holds in every state of the store.
LEMMA Rebuilds == Spec => []RebuildInv
<1>1. ASSUME Init
      PROVE  RebuildInv
  <2>1. \A m \in Matches : History(m) = {} /\ match_states[m] = None
    BY <1>1 DEF Init, History
  <2> QED
    BY <2>1, RebuildNothing DEF RebuildInv
<1> QED
  BY <1>1, Serial, RebuildInvStep, PTL DEF Spec

(***************************************************************************)
(* The stored snapshot of a match is what rebuild_match would compute from *)
(* its stored history, for any number of sessions, matches and events.     *)
(***************************************************************************)
THEOREM RebuildCorrect == Spec => []SnapshotIsRebuild
<1>1. RebuildInv => SnapshotIsRebuild
  BY DEF RebuildInv, SnapshotIsRebuild
<1> QED
  BY <1>1, Rebuilds, PTL

-----------------------------------------------------------------------------
(***************************************************************************)
(* The announcements.  A commit queues its notification in the same        *)
(* transaction, and a listener reads the row after it has taken the        *)
(* notification from the channel.                                          *)
(***************************************************************************)
LEMMA AnnouncedStep == SerialInv /\ ChangesAnnounced /\ [Next]_vars => ChangesAnnounced'
<1> SUFFICES ASSUME SerialInv, ChangesAnnounced, [Next]_vars
             PROVE  ChangesAnnounced'
  OBVIOUS
<1>0. /\ match_states \in [Matches -> MatchState \cup {None}]
      /\ heard \in [Matches -> MatchState \cup {None}]
  BY DEF SerialInv, IdentityInv, TypeOK
<1>1. ASSUME NEW s \in Sessions, Commit(s)
      PROVE  ChangesAnnounced'
  <2>1. /\ match_states' = [match_states EXCEPT ![call[s].match_id] = next_state[s]]
        /\ notified' = notified \cup {call[s].match_id} /\ heard' = heard
    BY <1>1 DEF Commit, Notification
  <2>2. \A m \in Matches : m # call[s].match_id => match_states'[m] = match_states[m]
    BY <1>0, <2>1
  <2> QED
    BY <2>1, <2>2 DEF ChangesAnnounced
<1>2. ASSUME NEW m \in Matches, Receive(m)
      PROVE  ChangesAnnounced'
  <2>1. /\ notified' = notified \ {m} /\ match_states' = match_states
        /\ heard' = [heard EXCEPT ![m] = match_states[m]]
    BY <1>2 DEF Receive, tables
  <2>2. /\ heard'[m] = match_states[m]
        /\ \A l \in Matches : l # m => heard'[l] = heard[l]
    BY <1>0, <2>1
  <2> QED
    BY <2>1, <2>2 DEF ChangesAnnounced
<1>3. CASE UNCHANGED <<match_states, notified, heard>>
  BY <1>3 DEF ChangesAnnounced
<1>4. ASSUME NEW s \in Sessions, Begin(s) \/ (Step(s) /\ ~Commit(s)) \/ Fail(s)
      PROVE  UNCHANGED <<match_states, notified, heard>>
  BY <1>4 DEF Begin, Step, Lock, Reserve, Read, Verify, Transition, Write, Fail,
              tables, channel
<1>5. UNCHANGED vars => UNCHANGED <<match_states, notified, heard>>
  BY DEF vars, tables, channel
<1> QED
  BY <1>1, <1>2, <1>3, <1>4, <1>5 DEF Next, Step

(***************************************************************************)
(* Whoever has received all notifications of a match has read its current  *)
(* state, whatever commits, rollbacks and lost connections come between.   *)
(***************************************************************************)
THEOREM AnnouncementsComplete == Spec => []ChangesAnnounced
<1>1. Init => ChangesAnnounced
  BY DEF Init, ChangesAnnounced
<1> QED
  BY <1>1, Serial, AnnouncedStep, PTL DEF Spec

-----------------------------------------------------------------------------
(***************************************************************************)
(* The figures.  Each commit counts its event once, in every figure.       *)
(***************************************************************************)
TallyInv ==
  \A m \in Matches : match_states[m] # None => Counts(History(m), match_states[m])

\* Every step keeps the counters of the snapshots those of the history.
LEMMA TallyStep == SerialInv /\ RebuildInv /\ TallyInv /\ [Next]_vars => TallyInv'
<1> SUFFICES ASSUME SerialInv, RebuildInv, TallyInv, [Next]_vars
             PROVE  TallyInv'
  OBVIOUS
<1>1. CASE \A s \in Sessions : ~Commit(s)
  <2>1. UNCHANGED <<match_states, projection_events>>
    BY <1>1, OnlyCommitWrites DEF tables
  <2> QED
    BY <2>1 DEF TallyInv, History
<1>2. ASSUME NEW s \in Sessions, Commit(s)
      PROVE  TallyInv'
  <2>1. PICK e \in CanonicalEvent, p \in MatchState :
          /\ p = IF match_states[e.match_id] = None
                 THEN InitialState(e.match_id) ELSE match_states[e.match_id]
          /\ Accepts(p, e)
          /\ match_states' = [match_states EXCEPT ![e.match_id] = ApplyEvent(p, e)]
          /\ projection_events' = projection_events \cup {e}
    BY <1>2, CommitEffect
  <2> DEFINE m == e.match_id
             H == History(m)
  <2>2. /\ TypeOK /\ m \in Matches
        /\ match_states \in [Matches -> MatchState \cup {None}]
    BY DEF SerialInv, IdentityInv, TypeOK, CanonicalEvent
  <2>3. Chronicle(H) /\ Reaches(H, p)
    <3> HIDE DEF m
    <3>1. p = IF match_states[m] = None THEN InitialState(m) ELSE match_states[m]
      BY <2>1 DEF m
    <3> QED
      BY <2>2, <3>1, BeforeEvent
  <2>4. e \notin H /\ IsFiniteSet(H)
    <3> HIDE DEF H
    <3> QED
      BY <2>1, <2>3, AcceptedIsLater DEF Chronicle
  <2>5. Counts(H, p)
    <3>1. CASE match_states[m] = None
      <4>1. H = {} /\ p = InitialState(m)
        BY <2>1, <2>2, <3>1 DEF RebuildInv
      <4> HIDE DEF H, m
      <4> QED
        BY <4>1, NothingCounted
    <3>2. CASE match_states[m] # None
      BY <2>1, <2>2, <3>2 DEF TallyInv
    <3> QED
      BY <3>1, <3>2
  <2>6. Counts(H \cup {e}, ApplyEvent(p, e))
    <3> HIDE DEF H
    <3> QED
      BY <2>1, <2>4, <2>5, EventCounted
  <2>7. /\ match_states'[m] = ApplyEvent(p, e)
        /\ \A l \in Matches \ {m} : match_states'[l] = match_states[l]
    BY <2>1, <2>2
  <2>8. History(m)' = H \cup {e} /\ \A l \in Matches \ {m} : History(l)' = History(l)
    BY <2>1 DEF History
  <2>9. \A l \in Matches \ {m} : match_states'[l] # None => Counts(History(l)', match_states'[l])
    BY <2>7, <2>8 DEF TallyInv
  <2> QED
    BY <2>6, <2>7, <2>8, <2>9 DEF TallyInv
<1> QED
  BY <1>1, <1>2

\* The counters are those of the history in every state.
LEMMA Tallies == Spec => []TallyInv
<1>1. Init => TallyInv
  BY DEF Init, TallyInv
<1> QED
  BY <1>1, Serial, Rebuilds, TallyStep, PTL DEF Spec

\* What the counts say of a snapshot.
LEMMA TalliesOfHistory == TallyInv => SnapshotTallies
<1> SUFFICES ASSUME TallyInv, NEW m \in Matches, match_states[m] # None
             PROVE  LET s == match_states[m]
                    IN  /\ s.total = Cardinality(History(m))
                        /\ s.total = SumFunctionOnSet(s.counts, {k \in EventTypes : s.counts[k] # None})
                        /\ \A t \in Teams : Lookup(s.score, t) =
                             Cardinality({e \in History(m) : IsGoal(e) /\ e.team = t})
                        /\ s.home # None => s.home # s.away
  BY DEF SnapshotTallies
<1> QED
  BY DEF TallyInv, Counts, Kinds, GoalsOf

(***************************************************************************)
(* The figures of a snapshot count its history, for any matches, teams and *)
(* event types, and however many sessions work on it.                      *)
(***************************************************************************)
THEOREM TalliesCorrect == Spec => []SnapshotTallies
BY Tallies, TalliesOfHistory, PTL
=============================================================================
