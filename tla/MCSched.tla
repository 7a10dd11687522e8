------------------------------ MODULE MCSched ------------------------------
(***************************************************************************)
(* Constants for the runs of Sched.  Priorities are small numbers: what    *)
(* matters is their order, equal ones, and whether they lie above the      *)
(* limit at which pop_task stops aging.                                    *)
(***************************************************************************)
EXTENDS Sched

\* user_init runs before anything was freed: the heap it draws on is zero.
FreshStates == {"RUNNING"}

\* Tasks of the same kind may be exchanged.
TaskSymmetry == Permutations(Exiters) \union Permutations(Tasks \ Exiters)
=============================================================================
