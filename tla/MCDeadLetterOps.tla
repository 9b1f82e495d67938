---------------------------- MODULE MCDeadLetterOps ----------------------------
(***************************************************************************)
(* One match whose events reach the partition out of order.                *)
(***************************************************************************)
EXTENDS DeadLetterOps

CONSTANTS m1, home

Ev(seq) ==
  [event_id |-> seq, match_id |-> m1, sequence |-> seq, period |-> 1, clock |-> seq,
   event_type |-> "Shot", goal |-> TRUE, team |-> home, possession |-> None]

MCPublications == {<<Ev(1), Ev(3), Ev(2), Ev(4)>>, <<Ev(2), Ev(1), Ev(3)>>}
=============================================================================
