----------------------------- MODULE WireContract -----------------------------
(***************************************************************************)
(* The versioned JSON contract of the events topic: streaming/contract.py. *)
(* A message is an envelope around the event's fields.  There is no state  *)
(* here.                                                                   *)
(*                                                                         *)
(* A field of a received message is a value of the right kind, None (JSON  *)
(* null), Malformed (any other kind of value, a blank string, a number     *)
(* that is not finite, an entity without its id or name) or Missing.       *)
(* "rest" stands for player, location, possession_id, source and           *)
(* source_event_id.  Of metadata only the outcome, a goal or not, is told. *)
(* The contract accepts metadata that is no object, which its readers do   *)
(* not expect; such events are among the Unstorable of ResilientConsumer.  *)
(***************************************************************************)
EXTENDS MatchTransition

CONSTANTS
  Missing,   \* the field is not in the object
  Malformed  \* a JSON value that the field's check refuses

Schema == "matchstream.canonical-event"
SchemaVersion == 1

Fields ==
  {"event_id", "match_id", "sequence", "period", "match_clock_seconds", "event_type",
   "team", "possession_team", "metadata", "rest"}

\* Deviation: the possession team goes out as the event's team.
SwappedTeams(e) ==
  [event_id |-> e.event_id, match_id |-> e.match_id, sequence |-> e.sequence,
   period |-> e.period, match_clock_seconds |-> e.clock, event_type |-> e.event_type,
   team |-> e.possession, possession_team |-> e.team,
   metadata |-> IF e.goal THEN "goal" ELSE "no goal", rest |-> "valid"]

EventToWire(e) ==
  [event_id            |-> e.event_id,
   match_id            |-> e.match_id,
   sequence            |-> e.sequence,
   period              |-> e.period,
   match_clock_seconds |-> e.clock,
   event_type          |-> e.event_type,
   team                |-> e.team,
   possession_team     |-> e.possession,
   metadata            |-> IF e.goal THEN "goal" ELSE "no goal",
   rest                |-> "valid"]

\* What a producer writes.
WireEvent ==
  [event_id            : EventIds,
   match_id            : Matches,
   sequence            : Nat,
   period              : Nat,
   match_clock_seconds : Nat,
   event_type          : EventTypes,
   team                : Teams \cup {None},
   possession_team     : Teams \cup {None},
   metadata            : {"goal", "no goal"},
   rest                : {"valid"}]

ASSUME MalformedAssumption ==
  /\ Missing # Malformed
  /\ {Missing, Malformed} \cap
       (Int \cup Teams \cup EventIds \cup EventTypes \cup Matches \cup
        {"goal", "no goal", "valid"} \cup {None}) = {}
  /\ {Missing, Malformed, None} \cap WireEvent = {}

SerializeEvent(e) ==
  [schema |-> Schema, schema_version |-> SchemaVersion, event |-> EventToWire(e)]

-----------------------------------------------------------------------------
\* _string, _integer, _number: null is refused like any wrong kind.
WellFormed(v) == v \notin {None, Malformed}

\* _entity_from_wire, _optional_string: null is allowed.
NullOrWellFormed(v) == v # Malformed

\* Deviation: the ranges are left to the database.
NoRanges(w) == TRUE

\* What the constructor of CanonicalEvent adds.
InRange(w) == w.sequence >= 0 /\ w.period >= 1 /\ w.match_clock_seconds >= 0

\* The kinds of the fields are checked one by one; metadata may be any JSON value.
Acceptable(w) ==
  /\ \A f \in Fields : w[f] # Missing
  /\ \A f \in {"event_id", "match_id", "event_type", "sequence", "period",
               "match_clock_seconds"} : WellFormed(w[f])
  /\ NullOrWellFormed(w.team) /\ NullOrWellFormed(w.possession_team)
  /\ w.rest # Malformed
  /\ InRange(w)

EventFromWire(w) ==
  [event_id   |-> w.event_id,
   match_id   |-> w.match_id,
   sequence   |-> w.sequence,
   period     |-> w.period,
   clock      |-> w.match_clock_seconds,
   event_type |-> w.event_type,
   goal       |-> w.metadata = "goal",
   team       |-> w.team,
   possession |-> w.possession_team]

\* The event, or None when the message is refused.
DeserializeEvent(message) ==
  IF /\ message.schema = Schema
     /\ message.schema_version = SchemaVersion
     /\ message.event \notin {Missing, None, Malformed}
     /\ Acceptable(message.event)
  THEN EventFromWire(message.event)
  ELSE None
=============================================================================
