------------------------------- MODULE MCHooks -------------------------------
(* Instances of Hooks for TLC. *)
EXTENDS Hooks, TLC

CONSTANTS s1, s2, t1, t2

NestedTasks == [t \in {t1, t2} |-> s1]
=============================================================================
