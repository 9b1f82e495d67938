--------------------------- MODULE AtomicProjection ---------------------------
(***************************************************************************)
(* What the durable projection promises its callers                        *)
(* (storage/repository.py, ProjectionRepository.process_event): every call *)
(* takes effect at one instant or not at all.  An event identity is        *)
(* applied at most once over the whole store, only to the state of its own *)
(* match, and only when the transition accepts it; the answer tells which  *)
(* of these happened, except that an error leaves the caller in doubt.     *)
(*                                                                         *)
(* ProjectionStore refines this module; ResilientConsumer relies on it.    *)
(***************************************************************************)
EXTENDS MatchTransition

CONSTANTS
  Sessions,  \* callers of process_event, each with one call at a time
  Events     \* the canonical events that callers may submit

VARIABLES
  current,   \* current[m]: the durable state of match m, or None
  log,       \* the events that have been applied
  pending,   \* pending[s]: the event s is waiting for, or None
  answer     \* answer[s]: how the last call of s ended

aVars == <<current, log, pending, answer>>

Answers == {"none", "applied", "duplicate", "poison", "storage_error"}

StateOrInitial(state, m) == IF state = None THEN InitialState(m) ELSE state

Known(e) == \E f \in log : f.event_id = e.event_id

KnownToItsMatch(e) ==
  \E f \in log : f.event_id = e.event_id /\ f.match_id = e.match_id

AInit ==
  /\ current = [m \in Matches |-> None]
  /\ log = {}
  /\ pending = [s \in Sessions |-> None]
  /\ answer = [s \in Sessions |-> "none"]

Call(s, e) ==
  /\ pending[s] = None
  /\ pending' = [pending EXCEPT ![s] = e]
  /\ UNCHANGED <<current, log, answer>>

Answer(s, a) ==
  /\ pending[s] # None
  /\ pending' = [pending EXCEPT ![s] = None]
  /\ answer' = [answer EXCEPT ![s] = a]

\* The event is applied.  A caller that loses the answer sees an error.
Apply(s) ==
  LET e == pending[s]
      previous == StateOrInitial(current[e.match_id], e.match_id)
  IN  /\ \/ Answer(s, "applied")
         \/ Answer(s, "storage_error")
      /\ ~Known(e)
      /\ Accepts(previous, e)
      /\ current' = [current EXCEPT ![e.match_id] = ApplyEvent(previous, e)]
      /\ log' = log \cup {e}

\* A repeated delivery changes nothing.
Repeat(s) ==
  /\ Answer(s, "duplicate")
  /\ KnownToItsMatch(pending[s])
  /\ UNCHANGED <<current, log>>

\* A rejected event leaves no trace, not even its identity.
Reject(s) ==
  LET e == pending[s]
  IN  /\ Answer(s, "poison")
      /\ ~Known(e)
      /\ ~Accepts(StateOrInitial(current[e.match_id], e.match_id), e)
      /\ UNCHANGED <<current, log>>

FailCall(s) ==
  /\ Answer(s, "storage_error")
  /\ UNCHANGED <<current, log>>

ANext ==
  \E s \in Sessions :
    \/ \E e \in Events : Call(s, e)
    \/ Apply(s)
    \/ Repeat(s)
    \/ Reject(s)
    \/ FailCall(s)

ASpec == AInit /\ [][ANext]_aVars
=============================================================================
