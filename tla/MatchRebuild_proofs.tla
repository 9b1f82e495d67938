-------------------------- MODULE MatchRebuild_proofs --------------------------
(***************************************************************************)
(* What holds of the durable projection while rebuilds run beside the      *)
(* projectors.  A rebuild works on a match whose lock it holds, so its     *)
(* history stands still from the scan to the update; and the snapshot is   *)
(* already what the history folds to, so the update writes what is there.  *)
(***************************************************************************)
EXTENDS MatchRebuild, ProjectionStore_proofs

allVars == <<vars, rebuildVars>>

StoreInv ==
  /\ SerialInv /\ LatestInv /\ HistoryGapFree
  /\ RebuildInv /\ TallyInv /\ ChangesAnnounced

RTypeInv ==
  /\ rpc \in [Rebuilders -> {"idle", "lock", "scan", "update"}]
  /\ target \in [Rebuilders -> Matches \cup {None}]
  /\ rebuilt \in [Rebuilders -> MatchState \cup {None}]
  /\ \A r \in Rebuilders : rpc[r] # "idle" => target[r] # None

RLockInv ==
  \A r \in Rebuilders :
    rpc[r] \in {"scan", "update"} => advisory[hashtext[target[r]]] = r

RebuiltInv ==
  \A r \in Rebuilders :
    rpc[r] = "update" =>
      rebuilt[r] = match_states[target[r]] /\ match_states[target[r]] # None

RInv == StoreInv /\ RTypeInv /\ RLockInv /\ RebuiltInv

\* A rebuilder is a backend of its own, and its match has a lock key.
LEMMA RebuilderFacts ==
  ASSUME RTypeInv, NEW r \in Rebuilders
  PROVE  /\ r \in Backends /\ r # None /\ r \notin Sessions
         /\ rpc[r] # "idle" => /\ target[r] \in Matches
                               /\ hashtext[target[r]] \in LockKeys
BY RebuildersAssumption, StoreAssumption DEF RTypeInv, LockKeys

-----------------------------------------------------------------------------
(***************************************************************************)
(* The steps of the store.                                                 *)
(***************************************************************************)
LEMMA StoreStep == StoreInv /\ [Next]_vars => StoreInv'
BY SerialStep, GapFreeStep, RebuildInvStep, TallyStep, AnnouncedStep DEF StoreInv

\* A session takes only a free lock and releases only its own.
LEMMA LocksOfOthers ==
  ASSUME SerialInv, [Next]_vars, NEW b, b # None, b \notin Sessions,
         NEW k \in LockKeys, advisory[k] = b
  PROVE  advisory'[k] = b
<1>0. advisory \in [LockKeys -> Backends \cup {None}]
  BY DEF SerialInv, IdentityInv, TypeOK
<1>1. ASSUME NEW s \in Sessions, Lock(s)
      PROVE  advisory'[k] = b
  BY <1>0, <1>1 DEF Lock, Free
<1>2. ASSUME NEW s \in Sessions, NEW r, Finish(s, r)
      PROVE  advisory'[k] = b
  BY <1>2 DEF Finish, Released
<1>3. ASSUME NEW s \in Sessions,
             Begin(s) \/ Reserve(s) \/ Read(s) \/ Verify(s) \/ Transition(s) \/ Write(s)
               \/ Commit(s) \/ Fail(s)
      PROVE  UNCHANGED advisory \/ \E r : Finish(s, r)
  BY <1>3 DEF Begin, Reserve, Read, Verify, Transition, Write, Commit, Fail
<1>4. ASSUME NEW m \in Matches, Receive(m)
      PROVE  UNCHANGED advisory
  BY <1>4 DEF Receive
<1>5. UNCHANGED vars => UNCHANGED advisory
  BY DEF vars
<1> QED
  BY <1>1, <1>2, <1>3, <1>4, <1>5 DEF Next, Step

\* The state of a match does not change while another backend has its lock.
LEMMA LockedStateStays ==
  ASSUME SerialInv, [Next]_vars, NEW b, b # None, b \notin Sessions,
         NEW m \in Matches, advisory[hashtext[m]] = b
  PROVE  match_states'[m] = match_states[m]
<1>1. CASE \A s \in Sessions : ~Commit(s)
  BY <1>1, OnlyCommitWrites DEF tables
<1>2. ASSUME NEW s \in Sessions, Commit(s)
      PROVE  match_states'[m] = match_states[m]
  <2>1. pc[s] = "commit"
    BY <1>2 DEF Commit
  <2>2. advisory[Key(call[s])] = s
    BY <2>1 DEF SerialInv, LockInv, Locked, Statements
  <2>3. call[s].match_id # m
    BY <2>2 DEF Key
  <2>4. match_states' = [match_states EXCEPT ![call[s].match_id] = next_state[s]]
    BY <1>2 DEF Commit
  <2>5. match_states \in [Matches -> MatchState \cup {None}]
    BY DEF SerialInv, IdentityInv, TypeOK
  <2> QED
    BY <2>3, <2>4, <2>5
<1> QED
  BY <1>1, <1>2

\* So no step of the store disturbs a rebuild.
LEMMA StoreBesideRebuilds ==
  ASSUME RInv, [Next]_vars, UNCHANGED rebuildVars
  PROVE  RInv'
<1>1. StoreInv'
  BY StoreStep DEF RInv
<1>2. UNCHANGED <<rpc, target, rebuilt, outcome>> /\ SerialInv
  BY DEF rebuildVars, RInv, StoreInv
<1>3. RTypeInv'
  BY <1>2 DEF RTypeInv, RInv
<1>4. ASSUME NEW r \in Rebuilders, rpc[r] \in {"scan", "update"}
      PROVE  /\ advisory'[hashtext[target[r]]] = r
             /\ match_states'[target[r]] = match_states[target[r]]
  <2>1. /\ r # None /\ r \notin Sessions
        /\ target[r] \in Matches /\ hashtext[target[r]] \in LockKeys
    BY <1>4, RebuilderFacts DEF RInv
  <2>2. advisory[hashtext[target[r]]] = r
    BY <1>4 DEF RInv, RLockInv
  <2>3. advisory'[hashtext[target[r]]] = r
    BY <1>2, <2>1, <2>2, LocksOfOthers
  <2>4. match_states'[target[r]] = match_states[target[r]]
    BY <1>2, <2>1, <2>2, LockedStateStays
  <2> QED
    BY <2>3, <2>4
<1>5. RLockInv'
  BY <1>2, <1>4 DEF RLockInv
<1>6. RebuiltInv'
  BY <1>2, <1>4 DEF RebuiltInv, RInv
<1> QED
  BY <1>1, <1>3, <1>5, <1>6 DEF RInv

-----------------------------------------------------------------------------
(***************************************************************************)
(* The steps of a rebuild.                                                 *)
(***************************************************************************)
\* What they do to the store: they take a free lock, release their own,
\* announce a match, and change no table.
LEMMA RebuildEffect ==
  ASSUME RInv, NEW r \in Rebuilders, Rebuild(r)
  PROVE  /\ UNCHANGED <<tables, heard, pc, locals, result>>
         /\ notified \subseteq notified' /\ notified' \subseteq Matches
         /\ advisory' \in [LockKeys -> Backends \cup {None}]
         /\ \A k \in LockKeys : advisory[k] \notin {None, r} => advisory'[k] = advisory[k]
<1>0. /\ RTypeInv /\ RebuiltInv
      /\ match_states \in [Matches -> MatchState \cup {None}]
      /\ notified \subseteq Matches
      /\ advisory \in [LockKeys -> Backends \cup {None}]
  BY DEF RInv, StoreInv, SerialInv, IdentityInv, TypeOK
<1>1. ASSUME NEW o, EndRebuild(r, o)
      PROVE  /\ advisory' \in [LockKeys -> Backends \cup {None}]
             /\ \A k \in LockKeys : advisory[k] \notin {None, r} => advisory'[k] = advisory[k]
  BY <1>0, <1>1 DEF EndRebuild, Released
<1>2. CASE StartRebuild(r)
  BY <1>0, <1>2 DEF StartRebuild, vars, channel
<1>3. CASE LockRebuild(r)
  <2>1. /\ UNCHANGED <<tables, channel, pc, locals, result>>
        /\ rpc[r] = "lock" /\ Free(hashtext[target[r]])
        /\ advisory' = [advisory EXCEPT ![hashtext[target[r]]] = r]
    BY <1>3 DEF LockRebuild
  <2>2. r \in Backends
    BY <1>0, RebuilderFacts
  <2> QED
    BY <1>0, <2>1, <2>2 DEF channel, Free
<1>4. CASE ScanHistory(r)
  <2>1. UNCHANGED <<tables, channel, pc, locals, result>>
    BY <1>4 DEF ScanHistory
  <2>2. UNCHANGED advisory \/ \E o : EndRebuild(r, o)
    BY <1>4 DEF ScanHistory
  <2> QED
    BY <1>0, <1>1, <2>1, <2>2 DEF channel
<1>5. CASE CommitRebuild(r)
  <2>1. /\ rpc[r] = "update"
        /\ match_states' = [match_states EXCEPT ![target[r]] = rebuilt[r]]
        /\ notified' = notified \cup {target[r]}
        /\ UNCHANGED <<processed_events, projection_events, heard, pc, locals, result>>
    BY <1>5 DEF CommitRebuild
  <2>2. target[r] \in Matches /\ rebuilt[r] = match_states[target[r]]
    BY <1>0, <2>1, RebuilderFacts DEF RebuiltInv
  <2>3. match_states' = match_states
    BY <1>0, <2>1, <2>2
  <2>4. EndRebuild(r, "rebuilt")
    BY <1>5 DEF CommitRebuild
  <2> QED
    BY <1>0, <1>1, <2>1, <2>2, <2>3, <2>4 DEF tables
<1>6. CASE FailRebuild(r)
  BY <1>0, <1>1, <1>6 DEF FailRebuild, channel
<1> QED
  BY <1>2, <1>3, <1>4, <1>5, <1>6 DEF Rebuild

\* They preserve what holds of the store.
LEMMA RebuildKeepsStore ==
  ASSUME RInv, NEW r \in Rebuilders, Rebuild(r)
  PROVE  StoreInv'
<1>1. /\ UNCHANGED <<tables, heard, pc, locals, result>>
      /\ notified \subseteq notified' /\ notified' \subseteq Matches
      /\ advisory' \in [LockKeys -> Backends \cup {None}]
      /\ \A k \in LockKeys : advisory[k] \notin {None, r} => advisory'[k] = advisory[k]
  BY RebuildEffect
<1>2. /\ UNCHANGED <<match_states, processed_events, projection_events>>
      /\ UNCHANGED <<heard, pc, call, inserted, row, next_state, result>>
  BY <1>1 DEF tables, locals
<1>3. StoreInv
  BY DEF RInv
<1>4. TypeOK' /\ CallInv'
  BY <1>1, <1>2, <1>3 DEF StoreInv, SerialInv, IdentityInv, TypeOK, CallInv
<1>5. LockInv'
  <2> SUFFICES ASSUME NEW s \in Sessions, pc[s] \in Locked
               PROVE  advisory'[Key(call[s])] = s
    BY <1>2 DEF LockInv, Key
  <2>1. advisory[Key(call[s])] = s
    BY <1>3 DEF StoreInv, SerialInv, LockInv
  <2>2. s \notin {None, r}
    BY RebuilderFacts, StoreAssumption DEF RInv
  <2>3. Key(call[s]) \in LockKeys
    BY <1>3, CallType DEF StoreInv, SerialInv, IdentityInv, CallInv, Locked, Statements
  <2> QED
    BY <1>1, <2>1, <2>2, <2>3
<1>6. IdentityInv' /\ RowInv' /\ NextInv'
  <2>1. IdentityExactlyOnce'
    BY <1>2, <1>3 DEF StoreInv, SerialInv, IdentityInv, IdentityExactlyOnce, Row
  <2>2. ReservedInv'
    BY <1>2, <1>3 DEF StoreInv, SerialInv, IdentityInv, ReservedInv
  <2>3. RowInv' /\ NextInv'
    BY <1>2, <1>3 DEF StoreInv, SerialInv, RowInv, NextInv, Previous
  <2> QED
    BY <1>4, <2>1, <2>2, <2>3 DEF IdentityInv
<1>7. LatestInv' /\ HistoryGapFree' /\ RebuildInv' /\ TallyInv'
  BY <1>2, <1>3 DEF StoreInv, LatestInv, HistoryGapFree, RebuildInv, TallyInv, History
<1>8. ChangesAnnounced'
  BY <1>1, <1>2, <1>3 DEF StoreInv, ChangesAnnounced
<1> QED
  BY <1>5, <1>6, <1>7, <1>8 DEF StoreInv, SerialInv

\* A rebuild that has scanned has folded the state that is stored.
LEMMA ScanFolds ==
  ASSUME RInv, NEW r \in Rebuilders, ScanHistory(r)
  PROVE  \/ \E o : EndRebuild(r, o)
         \/ /\ match_states[target[r]] # None /\ match_states[target[r]] \in MatchState
            /\ rebuilt' = [rebuilt EXCEPT ![r] = match_states[target[r]]]
            /\ rpc' = [rpc EXCEPT ![r] = "update"]
            /\ UNCHANGED <<advisory, target>>
<1> DEFINE m == target[r]
           state == RebuildState(m, History(m))
<1>1. m \in Matches
  BY RebuilderFacts DEF RInv, ScanHistory
<1>2. \/ \E o : EndRebuild(r, o)
      \/ /\ History(m) # {} /\ rebuilt' = [rebuilt EXCEPT ![r] = state]
         /\ rpc' = [rpc EXCEPT ![r] = "update"]
         /\ UNCHANGED <<advisory, target>>
  BY DEF ScanHistory
<1>3. History(m) # {} => match_states[m] # None /\ match_states[m] = state
  BY <1>1 DEF RInv, StoreInv, RebuildInv
<1>4. match_states[m] # None => match_states[m] \in MatchState
  BY <1>1 DEF RInv, StoreInv, SerialInv, IdentityInv, TypeOK
<1> QED
  BY <1>2, <1>3, <1>4

\* The other rebuilds keep what they have: their locks are not free.
LEMMA RebuildKeepsRebuilds ==
  ASSUME RInv, NEW r \in Rebuilders, Rebuild(r)
  PROVE  RTypeInv' /\ RLockInv' /\ RebuiltInv'
<1>0. /\ RTypeInv /\ RLockInv /\ RebuiltInv
      /\ rpc \in [Rebuilders -> {"idle", "lock", "scan", "update"}]
      /\ target \in [Rebuilders -> Matches \cup {None}]
      /\ rebuilt \in [Rebuilders -> MatchState \cup {None}]
      /\ advisory \in [LockKeys -> Backends \cup {None}]
  BY DEF RInv, RTypeInv, StoreInv, SerialInv, IdentityInv, TypeOK
<1>1. /\ UNCHANGED match_states
      /\ \A k \in LockKeys : advisory[k] \notin {None, r} => advisory'[k] = advisory[k]
  BY RebuildEffect DEF tables
<1>2. ASSUME NEW q \in Rebuilders, q # r, rpc[q] \in {"scan", "update"}
      PROVE  advisory'[hashtext[target[q]]] = q
  <2>1. q # None /\ hashtext[target[q]] \in LockKeys
    BY <1>0, <1>2, RebuilderFacts
  <2>2. advisory[hashtext[target[q]]] = q
    BY <1>0, <1>2 DEF RLockInv
  <2> QED
    BY <1>1, <1>2, <2>1, <2>2
<1>3. ASSUME \A q \in Rebuilders \ {r} :
               rpc'[q] = rpc[q] /\ target'[q] = target[q] /\ rebuilt'[q] = rebuilt[q],
             rpc'[r] \in {"scan", "update"} => advisory'[hashtext[target'[r]]] = r,
             rpc'[r] = "update" =>
               rebuilt'[r] = match_states[target'[r]] /\ match_states[target'[r]] # None
      PROVE  RLockInv' /\ RebuiltInv'
  <2>1. RLockInv'
    BY <1>2, <1>3 DEF RLockInv
  <2>2. RebuiltInv'
    BY <1>0, <1>1, <1>3 DEF RebuiltInv
  <2> QED
    BY <2>1, <2>2
<1>4. ASSUME NEW o, EndRebuild(r, o)
      PROVE  RTypeInv' /\ RLockInv' /\ RebuiltInv'
  <2>1. /\ rpc'[r] = "idle"
        /\ \A q \in Rebuilders \ {r} :
             rpc'[q] = rpc[q] /\ target'[q] = target[q] /\ rebuilt'[q] = rebuilt[q]
    BY <1>0, <1>4 DEF EndRebuild
  <2>2. RTypeInv'
    BY <1>0, <1>4, <2>1 DEF EndRebuild, RTypeInv
  <2> QED
    BY <1>3, <2>1, <2>2
<1>5. CASE StartRebuild(r)
  <2>1. PICK m \in Matches : target' = [target EXCEPT ![r] = m]
    BY <1>5 DEF StartRebuild
  <2>2. rpc' = [rpc EXCEPT ![r] = "lock"] /\ rebuilt' = rebuilt
    BY <1>5 DEF StartRebuild
  <2>3. /\ rpc'[r] = "lock" /\ target'[r] = m /\ m # None
        /\ \A q \in Rebuilders \ {r} :
             rpc'[q] = rpc[q] /\ target'[q] = target[q] /\ rebuilt'[q] = rebuilt[q]
    BY <1>0, <2>1, <2>2, NoneAssumption
  <2>4. RTypeInv'
    BY <1>0, <2>1, <2>2, <2>3 DEF RTypeInv
  <2> QED
    BY <1>3, <2>3, <2>4
<1>6. CASE LockRebuild(r)
  <2>1. /\ rpc[r] = "lock" /\ rpc' = [rpc EXCEPT ![r] = "scan"]
        /\ target' = target /\ rebuilt' = rebuilt
        /\ advisory' = [advisory EXCEPT ![hashtext[target[r]]] = r]
    BY <1>6 DEF LockRebuild
  <2>2. hashtext[target[r]] \in LockKeys
    BY <1>0, <2>1, RebuilderFacts
  <2>3. /\ rpc'[r] = "scan" /\ advisory'[hashtext[target'[r]]] = r
        /\ \A q \in Rebuilders \ {r} :
             rpc'[q] = rpc[q] /\ target'[q] = target[q] /\ rebuilt'[q] = rebuilt[q]
    BY <1>0, <2>1, <2>2
  <2>4. RTypeInv'
    BY <1>0, <2>1 DEF RTypeInv
  <2> QED
    BY <1>3, <2>3, <2>4
<1>7. CASE ScanHistory(r)
  <2>1. CASE \E o : EndRebuild(r, o)
    BY <1>4, <2>1
  <2>2. CASE /\ match_states[target[r]] # None /\ match_states[target[r]] \in MatchState
             /\ rebuilt' = [rebuilt EXCEPT ![r] = match_states[target[r]]]
             /\ rpc' = [rpc EXCEPT ![r] = "update"]
             /\ UNCHANGED <<advisory, target>>
    <3>1. rpc[r] = "scan"
      BY <1>7 DEF ScanHistory
    <3>2. advisory[hashtext[target[r]]] = r /\ target[r] # None
      BY <1>0, <3>1 DEF RLockInv, RTypeInv
    <3>3. /\ rpc'[r] = "update" /\ advisory'[hashtext[target'[r]]] = r
          /\ rebuilt'[r] = match_states[target'[r]] /\ match_states[target'[r]] # None
          /\ \A q \in Rebuilders \ {r} :
               rpc'[q] = rpc[q] /\ target'[q] = target[q] /\ rebuilt'[q] = rebuilt[q]
      BY <1>0, <2>2, <3>2
    <3>4. RTypeInv'
      BY <1>0, <2>2, <3>2 DEF RTypeInv
    <3> QED
      BY <1>3, <3>3, <3>4
  <2> QED
    BY <1>7, <2>1, <2>2, ScanFolds
<1>8. CASE CommitRebuild(r)
  BY <1>4, <1>8 DEF CommitRebuild
<1>9. CASE FailRebuild(r)
  BY <1>4, <1>9 DEF FailRebuild
<1> QED
  BY <1>5, <1>6, <1>7, <1>8, <1>9 DEF Rebuild

-----------------------------------------------------------------------------
\* Every step of the store or of a rebuild keeps the invariant.
LEMMA RStep == RInv /\ [RNext]_allVars => RInv'
<1> SUFFICES ASSUME RInv, [RNext]_allVars
             PROVE  RInv'
  OBVIOUS
<1>1. CASE [Next]_vars /\ UNCHANGED rebuildVars
  BY <1>1, StoreBesideRebuilds
<1>2. ASSUME NEW r \in Rebuilders, Rebuild(r)
      PROVE  RInv'
  BY <1>2, RebuildKeepsStore, RebuildKeepsRebuilds DEF RInv
<1>3. UNCHANGED allVars => UNCHANGED vars /\ UNCHANGED rebuildVars
  BY DEF allVars
<1> QED
  BY <1>1, <1>2, <1>3 DEF RNext

\* The invariant holds at the start.
LEMMA RInitHolds == RInit => RInv
<1> SUFFICES ASSUME RInit
             PROVE  RInv
  OBVIOUS
<1>1. Init
  BY DEF RInit
<1>2. SerialInv
  <2>1. LockInv /\ RowInv /\ NextInv
    BY <1>1 DEF Init, LockInv, RowInv, NextInv, Locked, Statements
  <2> QED
    BY <1>1, <2>1, IdentityInit DEF SerialInv
<1>3. LatestInv /\ HistoryGapFree
  BY <1>1 DEF Init, LatestInv, HistoryGapFree, History
<1>4. RebuildInv
  <2>1. \A m \in Matches : History(m) = {} /\ match_states[m] = None
    BY <1>1 DEF Init, History
  <2> QED
    BY <2>1, RebuildNothing DEF RebuildInv
<1>5. TallyInv /\ ChangesAnnounced
  BY <1>1 DEF Init, TallyInv, ChangesAnnounced
<1>6. RTypeInv /\ RLockInv /\ RebuiltInv
  BY DEF RInit, RTypeInv, RLockInv, RebuiltInv
<1> QED
  BY <1>2, <1>3, <1>4, <1>5, <1>6 DEF RInv, StoreInv

\* The invariant holds beside rebuilds in every state.
LEMMA RInvariant == RSpec => []RInv
BY RInitHolds, RStep, PTL DEF RSpec, allVars

(***************************************************************************)
(* Beside any number of rebuilds the store keeps what it has without them: *)
(* the snapshot is what the history folds to, the history has no gap, all  *)
(* changes are announced and the figures count the history.                *)
(***************************************************************************)
THEOREM StoreBesideRebuildsCorrect ==
  RSpec => []( /\ TypeOK /\ IdentityExactlyOnce /\ SnapshotIsRebuild
               /\ HistoryGapFree /\ ChangesAnnounced /\ SnapshotTallies )
<1>1. RInv => /\ TypeOK /\ IdentityExactlyOnce /\ HistoryGapFree /\ ChangesAnnounced
              /\ SnapshotIsRebuild
  BY DEF RInv, StoreInv, SerialInv, IdentityInv, RebuildInv, SnapshotIsRebuild
<1>2. RInv => SnapshotTallies
  BY TalliesOfHistory DEF RInv, StoreInv
<1> QED
  BY <1>1, <1>2, RInvariant, PTL

(***************************************************************************)
(* A rebuild beside running projectors never shows: it holds the lock of   *)
(* its match from the scan to the update, and writes the state that is     *)
(* there (storage/postgres.py rebuild_match).                              *)
(***************************************************************************)
THEOREM RebuildIsInvisible == RSpec => RebuildChangesNothing
<1>1. RInv /\ [RNext]_<<vars, rebuildVars>> =>
        [(\E r \in Rebuilders : Rebuild(r)) => UNCHANGED match_states]_<<vars, rebuildVars>>
  BY RebuildEffect DEF tables
<1> QED
  BY <1>1, RInvariant, PTL DEF RSpec, RebuildChangesNothing

\* A step beside rebuilds is a projector's, or one that no table shows.
LEMMA OfProjectorOrHidden ==
  ASSUME RInv, [RNext]_allVars
  PROVE  /\ SerialInv /\ LatestInv
         /\ [Next]_vars \/ UNCHANGED <<tables, call, result>>
<1>1. ASSUME NEW r \in Rebuilders, Rebuild(r)
      PROVE  UNCHANGED <<tables, call, result>>
  BY <1>1, RebuildEffect DEF locals
<1>2. UNCHANGED allVars => UNCHANGED vars
  BY DEF allVars
<1> QED
  BY <1>1, <1>2 DEF RNext, RInv, StoreInv

(***************************************************************************)
(* Nor does a rebuild ever take back an event, a sequence or a goal, as a  *)
(* stale one would that overwrites a projector's later state.              *)
(***************************************************************************)
THEOREM ForwardBesideRebuilds == RSpec => OnlyForward
<1>1. ASSUME RInv, [RNext]_allVars
      PROVE  [ /\ \A m \in Matches : MatchAdvances(m)
               /\ projection_events \subseteq projection_events' ]_vars
  <2>1. CASE [Next]_vars
    BY <1>1, <2>1, OfProjectorOrHidden, ForwardStep
  <2>2. CASE UNCHANGED <<tables, call, result>>
    BY <2>2 DEF tables, MatchAdvances
  <2> QED
    BY <1>1, <2>1, <2>2, OfProjectorOrHidden
<1> QED
  BY <1>1, RInvariant, PTL DEF RSpec, OnlyForward, allVars

(***************************************************************************)
(* process_event keeps its promise beside rebuilds: each call still takes  *)
(* effect at one instant, and its answer is true at that instant.          *)
(***************************************************************************)
THEOREM LinearizableBesideRebuilds == RSpec => Linearizable
<1>1. RInit => Atomic!AInit
  BY DEF RInit, Init, Atomic!AInit
<1>2. ASSUME RInv, [RNext]_allVars
      PROVE  [Atomic!ANext]_(Atomic!aVars)
  <2>1. CASE [Next]_vars
    BY <1>2, <2>1, OfProjectorOrHidden, RefinementStep
  <2>2. CASE UNCHANGED <<tables, call, result>>
    BY <2>2 DEF tables, Atomic!aVars
  <2> QED
    BY <1>2, <2>1, <2>2, OfProjectorOrHidden
<1>3. Linearizable <=> Atomic!AInit /\ [][Atomic!ANext]_(Atomic!aVars)
  BY DEF Linearizable, Atomic!ASpec
<1> QED
  BY <1>1, <1>2, <1>3, RInvariant, PTL DEF RSpec, allVars
=============================================================================
