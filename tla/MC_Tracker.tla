------------------------------ MODULE MC_Tracker ------------------------------
\* Bounds for a TLC run of Tracker.
EXTENDS Tracker

\* A negative limit, none, one and more than there are entries.
MCLimits == {-1, 0, 1, 3}
================================================================================
