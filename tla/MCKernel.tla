------------------------------ MODULE MCKernel ------------------------------
(***************************************************************************)
(* Constants for the runs of Kernel.                                       *)
(***************************************************************************)
EXTENDS Kernel

\* user_init runs before anything was freed: the heap it draws on is zero.
FreshStates == {"RUNNING"}

\* Tasks of the same kind may be exchanged.
TaskSymmetry == Permutations(Tasks \ Exiters)
=============================================================================
