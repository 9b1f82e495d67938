------------------------- MODULE MCDashboardSession -------------------------
\* Instances of DashboardSession for TLC
EXTENDS DashboardSession, TLC
=============================================================================
