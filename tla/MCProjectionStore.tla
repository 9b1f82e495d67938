-------------------------- MODULE MCProjectionStore --------------------------
(***************************************************************************)
(* A small instance of ProjectionStore: a match that uses the identities   *)
(* of two others, one under its own lock key and one under another.        *)
(***************************************************************************)
EXTENDS ProjectionStore

CONSTANTS m1, m2, m3, home, away

Ev(id, m, seq, per, clk, type, goal, team) ==
  [event_id |-> id, match_id |-> m, sequence |-> seq, period |-> per, clock |-> clk,
   event_type |-> type, goal |-> goal, team |-> team, possession |-> None]

\* m1 and m3 have colliding keys.
TwoLockKeys == [m \in Matches |-> IF m = m2 THEN 2 ELSE 1]

\* m2 uses the identity a1 of m1, and m3 the identity b1.
IdentityEvents ==
  { Ev("a1", m1, 1, 1, 0, "Shot", TRUE, home),
    Ev("b1", m1, 2, 1, 0, "Pass", FALSE, home),
    Ev("a1", m2, 2, 1, 0, "Pass", FALSE, away),
    Ev("b1", m3, 1, 1, 0, "Shot", TRUE, away) }
=============================================================================
