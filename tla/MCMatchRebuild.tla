---------------------------- MODULE MCMatchRebuild ----------------------------
(***************************************************************************)
(* One match, two projectors and a rebuild.  The events make every kind of *)
(* trouble for one another: goals of a side whose line-up has not come, a  *)
(* rival for sequence 2 with an older clock, which would sort before its   *)
(* predecessor, a tie on the clock, and a goal of nobody.                  *)
(***************************************************************************)
EXTENDS MatchRebuild, TLC

CONSTANTS m1, home, away

Ev(id, seq, per, clk, type, goal, team) ==
  [event_id |-> id, match_id |-> m1, sequence |-> seq, period |-> per, clock |-> clk,
   event_type |-> type, goal |-> goal, team |-> team, possession |-> None]

RebuildEvents ==
  { Ev("a1", 1, 1, 5, "Starting XI", FALSE, home),
    Ev("a2", 2, 1, 5, "Starting XI", FALSE, away),
    Ev("x2", 2, 1, 4, "Shot", TRUE, away),
    Ev("a3", 3, 2, 0, "Shot", TRUE, away),
    Ev("x3", 3, 2, 1, "Shot", TRUE, None) }

OneLockKey == [m \in Matches |-> 0]

SessionSymmetry == Permutations(Sessions)
=============================================================================
