----------------------------- MODULE MCHandoff ------------------------------
EXTENDS Handoff

MCFutexes == Threads \cup {Global}
=============================================================================
