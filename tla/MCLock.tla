------------------------------- MODULE MCLock -------------------------------
EXTENDS Lock

\* user_init runs before anything was freed: the heap it draws on is zero.
FreshStates == {"RUNNING"}
=============================================================================
