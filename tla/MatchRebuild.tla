----------------------------- MODULE MatchRebuild -----------------------------
(***************************************************************************)
(* Offline rebuild beside running projectors:                              *)
(* PostgresProjectionRepository.rebuild_match (storage/postgres.py), which *)
(* the rebuild command runs.  It takes the same transaction-scoped         *)
(* advisory lock as process_event, folds the durable history of the match  *)
(* and overwrites the snapshot.                                            *)
(***************************************************************************)
EXTENDS ProjectionStore

CONSTANTS Rebuilders  \* backends running rebuild_match

ASSUME RebuildersAssumption ==
  Rebuilders \subseteq Backends \ Sessions

VARIABLES
  rpc,      \* rpc[r]: the statement rebuilder r runs next
  target,   \* target[r]: the match it rebuilds, or None
  rebuilt,  \* rebuilt[r]: the state it folded from the history, or None
  outcome   \* outcome[r]: how its last rebuild ended

rebuildVars == <<rpc, target, rebuilt, outcome>>

RInit ==
  /\ Init
  /\ rpc = [r \in Rebuilders |-> "idle"]
  /\ target = [r \in Rebuilders |-> None]
  /\ rebuilt = [r \in Rebuilders |-> None]
  /\ outcome = [r \in Rebuilders |-> "none"]

\* The rebuild's transaction ends, and its lock goes with it.
EndRebuild(r, o) ==
  /\ rpc' = [rpc EXCEPT ![r] = "idle"]
  /\ outcome' = [outcome EXCEPT ![r] = o]
  /\ target' = [target EXCEPT ![r] = None]
  /\ rebuilt' = [rebuilt EXCEPT ![r] = None]
  /\ advisory' = Released(r)

StartRebuild(r) ==
  /\ rpc[r] = "idle"
  /\ \E m \in Matches : target' = [target EXCEPT ![r] = m]
  /\ rpc' = [rpc EXCEPT ![r] = "lock"]
  /\ UNCHANGED <<vars, rebuilt, outcome>>

\* Deviation: the rebuild does not lock the match.
UnlockedRebuild(r) ==
  /\ rpc[r] = "lock"
  /\ rpc' = [rpc EXCEPT ![r] = "scan"]
  /\ UNCHANGED <<vars, target, rebuilt, outcome>>

LockRebuild(r) ==
  /\ rpc[r] = "lock"
  /\ Free(hashtext[target[r]])
  /\ advisory' = [advisory EXCEPT ![hashtext[target[r]]] = r]
  /\ rpc' = [rpc EXCEPT ![r] = "scan"]
  /\ UNCHANGED <<tables, channel, pc, locals, result, target, rebuilt, outcome>>

\* SELECT the history and fold it; no history, or a rejected one, is an error.
ScanHistory(r) ==
  /\ rpc[r] = "scan"
  /\ LET events == History(target[r])
         state == RebuildState(target[r], events)
     IN  IF events = {} \/ state = None
         THEN EndRebuild(r, "storage_error")
         ELSE /\ rebuilt' = [rebuilt EXCEPT ![r] = state]
              /\ rpc' = [rpc EXCEPT ![r] = "update"]
              /\ UNCHANGED <<advisory, target, outcome>>
  /\ UNCHANGED <<tables, channel, pc, locals, result>>

\* UPDATE match_states (of exactly one row), pg_notify, COMMIT.
CommitRebuild(r) ==
  /\ rpc[r] = "update"
  /\ match_states[target[r]] # None
  /\ match_states' = [match_states EXCEPT ![target[r]] = rebuilt[r]]
  /\ notified' = notified \cup {target[r]}
  /\ EndRebuild(r, "rebuilt")
  /\ UNCHANGED <<processed_events, projection_events, heard, pc, locals, result>>

\* psycopg.Error, or no row to update: everything is rolled back.
FailRebuild(r) ==
  /\ rpc[r] # "idle"
  /\ EndRebuild(r, "storage_error")
  /\ UNCHANGED <<tables, channel, pc, locals, result>>

Rebuild(r) ==
  \/ StartRebuild(r) \/ LockRebuild(r) \/ ScanHistory(r)
  \/ CommitRebuild(r) \/ FailRebuild(r)

RNext ==
  \/ Next /\ UNCHANGED rebuildVars
  \/ \E r \in Rebuilders : Rebuild(r)

RSpec == RInit /\ [][RNext]_<<vars, rebuildVars>>

-----------------------------------------------------------------------------
(***************************************************************************)
(* A rebuild beside running projectors never shows: it writes the state    *)
(* that is there, and no projector overwrites or is overwritten by it.     *)
(***************************************************************************)
RebuildChangesNothing ==
  [][ (\E r \in Rebuilders : Rebuild(r)) => UNCHANGED match_states ]_<<vars, rebuildVars>>
=============================================================================
