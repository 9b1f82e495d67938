-------------------------- MODULE StatsBombIngestion --------------------------
(***************************************************************************)
(* From a provider's file to a replay: ingestion/statsbomb.py converts the *)
(* raw events of one match, puts them in chronological order and refuses   *)
(* the file unless their indexes are then contiguous; replay/engine.py     *)
(* sorts what it is given once more.  There is no state here.              *)
(*                                                                         *)
(* A raw event is a record of what its JSON object says.  A field that is  *)
(* absent or null is None, one with a JSON value of the wrong kind is      *)
(* Invalid.  Only fields that a projection depends on are told apart;      *)
(* "rest" is Invalid when any other one (player, location, possession,     *)
(* duration, a flag, a detail besides the outcome) has a wrong value.      *)
(***************************************************************************)
EXTENDS MatchTransition

CONSTANTS
  Invalid,  \* a JSON value that the field's converter refuses
  Words     \* what identifiers consist of, without surrounding spaces

ASSUME InvalidAssumption ==
  Invalid \notin Int \cup Words \cup Teams \cup {None}

\* Identifiers and types are arbitrary text; None is no value of a field.
ASSUME TextAssumption ==
  /\ Matches \X Words \subseteq EventIds
  /\ Words \subseteq EventTypes
  /\ None \notin Int

(***************************************************************************)
(* Text as it stands in the file, possibly with spaces around it; blank    *)
(* text has nothing but spaces.                                            *)
(***************************************************************************)
Blank == "blank"
Text == [word : Words \cup {Blank}, padded : BOOLEAN]

RawEvent ==
  [id              : Text \cup {None, Invalid},
   index           : Int \cup {None, Invalid},
   period          : Int \cup {None, Invalid},
   timestamp       : (Int \X Int \X Int) \cup {None, Invalid},
   type            : Text \cup {None, Invalid},
   team            : Teams \cup {None, Invalid},
   possession_team : Teams \cup {None, Invalid},
   outcome         : {"Goal", "Saved", None, Invalid},
   rest            : {"valid", Invalid}]

-----------------------------------------------------------------------------
(***************************************************************************)
(* One event.                                                              *)
(***************************************************************************)
Present(v) == v \notin {None, Invalid}

IsIdentifier(v) == Present(v) /\ v.word # Blank

\* str(value).strip()
Identifier(v) == v.word

\* "statsbomb:<match>:<id>": no two pairs share one, as long as the match
\* identifier holds no colon.
EventId(raw, m) == <<m, Identifier(raw.id)>>

IsTimestamp(t) ==
  /\ Present(t)
  /\ t[1] >= 0
  /\ t[2] \in 0 .. 59
  /\ t[3] \in 0 .. 59

ClockSeconds(t) == t[1] * 3600 + t[2] * 60 + t[3]

Convertible(raw) ==
  /\ IsIdentifier(raw.id)
  /\ Present(raw.index) /\ raw.index >= 0
  /\ Present(raw.period) /\ raw.period >= 1
  /\ IsIdentifier(raw.type)
  /\ IsTimestamp(raw.timestamp)
  /\ Invalid \notin {raw.team, raw.possession_team, raw.outcome, raw.rest}

ConvertEvent(raw, m) ==
  [event_id   |-> EventId(raw, m),
   match_id   |-> m,
   sequence   |-> raw.index,
   period     |-> raw.period,
   clock      |-> ClockSeconds(raw.timestamp),
   event_type |-> Identifier(raw.type),
   goal       |-> raw.outcome = "Goal",
   team       |-> raw.team,
   possession |-> raw.possession_team]

-----------------------------------------------------------------------------
(***************************************************************************)
(* A file: an array of raw events.                                         *)
(***************************************************************************)
\* Deviation: the array is taken as it is.
AsInTheFile(converted) == converted

\* Deviation: the indexes decide alone.
ByIndex(converted) ==
  LET Before(i, j) ==
        \/ converted[i].sequence < converted[j].sequence
        \/ converted[i].sequence = converted[j].sequence /\ i < j
      before == {p \in (DOMAIN converted) \X (DOMAIN converted) : Before(p[1], p[2])}
      order == Sorted(DOMAIN converted, before)
  IN  [k \in DOMAIN converted |-> converted[order[k]]]

(***************************************************************************)
(* sorted by event_order_key, then by array position.  The event_id in the *)
(* key decides only between equal sequences, which are refused below.      *)
(***************************************************************************)
Chronological(converted) ==
  LET Before(i, j) ==
        \/ OrderedBefore(converted[i], converted[j])
        \/ ~OrderedBefore(converted[j], converted[i]) /\ i < j
      before == {p \in (DOMAIN converted) \X (DOMAIN converted) : Before(p[1], p[2])}
      order == Sorted(DOMAIN converted, before)
  IN  [k \in DOMAIN converted |-> converted[order[k]]]

\* Deviation: an index may be missing.
Increasing(events) ==
  \A k \in 1 .. Len(events) - 1 : events[k + 1].sequence > events[k].sequence

Contiguous(events) ==
  \A k \in 1 .. Len(events) - 1 : events[k + 1].sequence = events[k].sequence + 1

\* The events in order, or None when the file is refused.
ConvertEvents(array, m) ==
  IF \A i \in DOMAIN array : Convertible(array[i])
  THEN LET events == Chronological([i \in DOMAIN array |-> ConvertEvent(array[i], m)])
       IN  IF Contiguous(events) THEN events ELSE None
  ELSE None

\* MatchReplayer: sorted again, stably; what ingestion returns stays as it is.
Replay(events) == Chronological(events)
=============================================================================
