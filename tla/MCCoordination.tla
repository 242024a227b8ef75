-------------------------- MODULE MCCoordination --------------------------
(* Two agents whose calls interleave with the clock and with crashes, two  *)
(* actions, which is a circle's least number, and two leases, so that one  *)
(* expires or is released and another one is taken.                        *)
EXTENDS Coordination, TLC

Symmetry == Permutations(Agents) \cup Permutations(Actions) \cup Permutations(LeaseIds)
=============================================================================
