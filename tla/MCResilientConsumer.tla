------------------------- MODULE MCResilientConsumer -------------------------
(***************************************************************************)
(* Small instances of ResilientConsumer: three events of a match, the last *)
(* a goal, published in any order and repeatedly, with a message that is   *)
(* no event and with events that the database refuses; and two matches     *)
(* that share an identity.                                                 *)
(***************************************************************************)
EXTENDS ResilientConsumer, TLC

CONSTANTS m1, m2, home

Ev(id, m, seq, type) ==
  [event_id |-> id, match_id |-> m, sequence |-> seq, period |-> 1, clock |-> seq,
   event_type |-> type, goal |-> type = "Shot", team |-> home, possession |-> None]

RefusedRival == {Ev("b2", m1, 2, "Pass")}

OneMatch ==
  {Ev("a1", m1, 1, "Pass"), Ev("a2", m1, 2, "Pass"), Ev("a3", m1, 3, "Shot")}
    \cup RefusedRival

TwoMatches ==
  {Ev("a1", m1, 1, "Pass"), Ev("a2", m1, 2, "Shot"), Ev("a1", m2, 7, "Pass")}

Oversized == Ev("b8", m2, 8, "Pass")

WithOversized == TwoMatches \cup {Oversized}

MCUnstorable == {Oversized}

ConsumerSymmetry == Permutations(Consumers)
=============================================================================
