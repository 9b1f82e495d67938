--------------------------- MODULE MCReplayPipeline ---------------------------
(***************************************************************************)
(* Files of three events for ReplayPipeline.                               *)
(***************************************************************************)
EXTENDS ReplayPipeline

CONSTANTS m1, home, away

Is(w) == [word |-> w, padded |-> FALSE]

Raw(id, index, period, time, type, team, outcome) ==
  [id |-> Is(id), index |-> index, period |-> period, timestamp |-> time,
   type |-> Is(type), team |-> team, possession_team |-> home, outcome |-> outcome,
   rest |-> "valid"]

LineUp == Raw("e1", 4, 1, <<0, 0, 0>>, "Starting XI", home, None)
Late == Raw("e2", 5, 1, <<0, 50, 1>>, "Pass", away, None)
Goal == Raw("e3", 6, 2, <<0, 0, 7>>, "Shot", away, "Goal")

File(array) == [match |-> m1, array |-> array]

MCFiles ==
  {\* a good file, not in order, whose clock starts again at half-time
   File(<<Goal, LineUp, Late>>),
   \* one identity spelt in two ways, and a goal of nobody
   File(<<LineUp, [Late EXCEPT !.id = [word |-> "e1", padded |-> TRUE]],
          [Goal EXCEPT !.team = None]>>),
   \* the indexes go against the clock
   File(<<LineUp, [Late EXCEPT !.index = 6], [Goal EXCEPT !.index = 5]>>),
   \* an index is missing
   File(<<LineUp, Late, [Goal EXCEPT !.index = 7]>>),
   \* no such time
   File(<<LineUp, [Late EXCEPT !.timestamp = <<0, 60, 1>>], Goal>>)}

Genuine ==
  SerializeEvent([event_id |-> <<m1, "e1">>, match_id |-> m1, sequence |-> 4,
                  period |-> 1, clock |-> 0, event_type |-> "Starting XI",
                  goal |-> FALSE, team |-> home, possession |-> home])

MCStrange ==
  {[Genuine EXCEPT !.event.period = 0], [Genuine EXCEPT !.event.team = Missing]}

MCEventIds == {m1} \X Words

ProcessSymmetry == Permutations(Producers) \cup Permutations(Members)
=============================================================================
