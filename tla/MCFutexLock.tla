---------------------------- MODULE MCFutexLock -----------------------------
EXTENDS FutexLock
=============================================================================
