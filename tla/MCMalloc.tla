------------------------------ MODULE MCMalloc ------------------------------
EXTENDS Malloc
=============================================================================
