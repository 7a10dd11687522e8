---------------------------- MODULE MCPageAlloc ----------------------------
EXTENDS PageAlloc
=============================================================================
