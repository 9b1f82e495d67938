--------------------------- MODULE MatchTransition ---------------------------
(***************************************************************************)
(* The pure transition of a match projection: matchstream.state.           *)
(*                                                                         *)
(*   state/transition.py   apply_event and the checks it makes first       *)
(*   state/models.py       MatchState and the invariants its constructor   *)
(*                         enforces                                        *)
(*   state/rebuild.py      rebuild_state: sort the history, fold it        *)
(*   models/events.py      CanonicalEvent, event_order_key                 *)
(*                                                                         *)
(* There is no state here: the modules that keep projections EXTEND this   *)
(* one.  An event that the code rejects by raising MatchTransitionError is *)
(* one that Accepts is false of; which subclass is raised is not kept,     *)
(* because nothing in the pipeline tells the subclasses apart.             *)
(*                                                                         *)
(* Here and in the other modules, a definition introduced as a Deviation   *)
(* belongs to no specification: it is what the definition after it would   *)
(* be if the code had the named bug, and a property fails with it.         *)
(***************************************************************************)
EXTENDS Integers, FiniteSets, SequencesExt

CONSTANTS
  Matches,     \* match identifiers
  Teams,       \* team identifiers (EntityReference.id)
  EventIds,    \* CanonicalEvent.event_id
  EventTypes,  \* CanonicalEvent.event_type
  None         \* Python's None

ASSUME NoneAssumption ==
  None \notin Nat \cup Matches \cup Teams \cup EventIds \cup EventTypes

ASSUME EventTypesAssumption == {"Starting XI", "Shot"} \subseteq EventTypes

(***************************************************************************)
(* A canonical event.  "goal" says whether the metadata's outcome names a  *)
(* goal; player, location and the source fields play no part in a          *)
(* transition.                                                             *)
(***************************************************************************)
CanonicalEvent ==
  [event_id   : EventIds,
   match_id   : Matches,
   sequence   : Nat,
   period     : Nat \ {0},
   clock      : Nat,
   event_type : EventTypes,
   goal       : BOOLEAN,
   team       : Teams \cup {None},
   possession : Teams \cup {None}]

\* A Python dict of counts whose keys are in K: None where there is no key.
Tally(K) == [K -> Nat \cup {None}]

MatchState ==
  [match_id        : Matches,
   period          : Nat,
   clock           : Nat,
   latest_sequence : Nat \cup {None},
   total           : Nat,
   home            : Teams \cup {None},
   away            : Teams \cup {None},
   score           : Tally(Teams),
   possession      : Teams \cup {None},
   counts          : Tally(EventTypes),
   last_event_id   : EventIds \cup {None}]

EmptyTally(K) == [k \in K |-> None]

InitialState(m) ==
  [match_id |-> m, period |-> 0, clock |-> 0, latest_sequence |-> None,
   total |-> 0, home |-> None, away |-> None, score |-> EmptyTally(Teams),
   possession |-> None, counts |-> EmptyTally(EventTypes), last_event_id |-> None]

-----------------------------------------------------------------------------
(***************************************************************************)
(* The checks, in terms of the state before the event.                     *)
(***************************************************************************)
IsGoal(e) == e.event_type = "Shot" /\ e.goal

Stale(s, e) == e.sequence <= s.latest_sequence

\* Deviation: one missing event is tolerated.
SmallGapAllowed(s, e) == e.sequence > s.latest_sequence + 2

SequenceGap(s, e) == e.sequence # s.latest_sequence + 1

\* Deviation: the clock is only compared across periods.
PeriodRegression(s, e) == e.period < s.period

ClockRegression(s, e) ==
  \/ e.period < s.period
  \/ e.period = s.period /\ e.clock < s.clock

\* The first event of a match is a baseline: it may carry any sequence.
ValidTransition(s, e) ==
  /\ e.match_id = s.match_id
  /\ e.event_id # s.last_event_id
  /\ s.latest_sequence # None =>
       ~Stale(s, e) /\ ~SequenceGap(s, e) /\ ~ClockRegression(s, e)

Accepts(s, e) ==
  /\ ValidTransition(s, e)
  /\ IsGoal(e) => e.team # None

-----------------------------------------------------------------------------
(***************************************************************************)
(* The new state.                                                          *)
(***************************************************************************)
\* dict.get(k, 0)
Lookup(f, k) == IF f[k] = None THEN 0 ELSE f[k]

\* dict.setdefault(k, 0) for every k of K
WithKeys(f, K) == [k \in DOMAIN f |-> IF k \in K THEN Lookup(f, k) ELSE f[k]]

Bump(f, k) == [f EXCEPT ![k] = Lookup(f, k) + 1]

FirstLineup(s, e) ==
  e.event_type = "Starting XI" /\ e.team # None /\ s.home = None

SecondLineup(s, e) ==
  /\ e.event_type = "Starting XI" /\ e.team # None
  /\ s.home # None /\ s.away = None /\ e.team # s.home

HomeTeam(s, e) == IF FirstLineup(s, e) THEN e.team ELSE s.home
AwayTeam(s, e) == IF SecondLineup(s, e) THEN e.team ELSE s.away

\* Deviation: a goal counts only for a team that is already on the scoreboard.
ScoresOfKnownTeams(s, e) ==
  LET known == WithKeys(s.score, {HomeTeam(s, e), AwayTeam(s, e)} \ {None})
  IN  IF IsGoal(e) /\ known[e.team] # None THEN Bump(known, e.team) ELSE known

Scores(s, e) ==
  LET known == WithKeys(s.score, {HomeTeam(s, e), AwayTeam(s, e)} \ {None})
  IN  IF IsGoal(e) THEN Bump(known, e.team) ELSE known

ApplyEvent(s, e) ==
  [match_id        |-> s.match_id,
   period          |-> e.period,
   clock           |-> e.clock,
   latest_sequence |-> e.sequence,
   total           |-> s.total + 1,
   home            |-> HomeTeam(s, e),
   away            |-> AwayTeam(s, e),
   score           |-> Scores(s, e),
   possession      |-> IF e.possession # None THEN e.possession ELSE s.possession,
   counts          |-> Bump(s.counts, e.event_type),
   last_event_id   |-> e.event_id]

-----------------------------------------------------------------------------
(***************************************************************************)
(* sorted(): before is a strict total order of the finite set S, as a set  *)
(* of pairs, and the element at place k has k - 1 others before it.        *)
(***************************************************************************)
Sorted(S, before) ==
  [k \in 1 .. Cardinality(S) |->
     CHOOSE e \in S : Cardinality({f \in S : <<f, e>> \in before}) = k - 1]

(***************************************************************************)
(* Rebuilding a match from its history.  Histories hold at most one event  *)
(* of a sequence, so the event_id that ends event_order_key never decides. *)
(***************************************************************************)
OrderedBefore(e, f) ==
  \/ e.period < f.period
  \/ e.period = f.period /\ e.clock < f.clock
  \/ e.period = f.period /\ e.clock = f.clock /\ e.sequence < f.sequence

ByEventOrder(E) == {p \in E \X E : OrderedBefore(p[1], p[2])}

\* One step of the fold; None once an event has been rejected (the code raises).
RebuildStep(s, e) ==
  IF s # None /\ Accepts(s, e) THEN ApplyEvent(s, e) ELSE None

RebuildState(m, E) ==
  FoldLeft(RebuildStep, InitialState(m), Sorted(E, ByEventOrder(E)))
=============================================================================
