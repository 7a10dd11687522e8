------------------------------ MODULE MCTimers ------------------------------
EXTENDS Timers
=============================================================================
