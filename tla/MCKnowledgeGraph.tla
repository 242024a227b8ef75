-------------------------- MODULE MCKnowledgeGraph --------------------------
(* Two callers, two topics with two objects each, and two days in months   *)
(* of their own, so that a fact can be stated again in its own month and   *)
(* in the next one.                                                        *)
EXTENDS KnowledgeGraph, TLC

MCStarts == {-1, 1}
MCEnds == {-1, 0}

MCMonthOf == [d \in 0 .. MaxDay |-> d]

Symmetry == Permutations(Callers) \cup Permutations(Topics) \cup Permutations(Objects)
=============================================================================
