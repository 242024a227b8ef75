------------------------------ MODULE MCRepair ------------------------------
(* Repair for TLC: drawers are interchangeable.                             *)
EXTENDS Repair, TLC

Symmetry == Permutations(Drawers)
=============================================================================
