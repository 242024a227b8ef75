----------------------------- MODULE MCMineGate -----------------------------
(* Three processes, one of which goes through the PID guard alone: two that *)
(* steal the palace lock from one another, and one that never looks at it.  *)
EXTENDS MineGate, TLC

Symmetry == Permutations(Procs \ Direct)
=============================================================================
