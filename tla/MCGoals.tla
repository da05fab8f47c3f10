------------------------------- MODULE MCGoals -------------------------------
(* Instances of Goals for TLC. *)
EXTENDS Goals, TLC

Callers == Permutations(Clients)
=============================================================================
