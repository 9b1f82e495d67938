---------------------------- MODULE MCLiveUpdates ----------------------------
\* Instances of LiveUpdates for TLC
EXTENDS LiveUpdates, TLC

CONSTANTS w1, w2

MCSockets == {w1, w2}

\* Sockets are interchangeable where only safety is checked, and so are matches.
SafetySymmetry == Permutations(MCSockets) \cup Permutations(Matches)
=============================================================================
