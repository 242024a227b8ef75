--------------------------- MODULE MCPalaceStore ---------------------------
(* Two handles on a palace of two drawers from two source files, with      *)
(* one-row migration batches, so that a migration takes several steps.     *)
EXTENDS PalaceStore, TLC

CONSTANTS d1, d2, s1, s2

MCSourceOf == (d1 :> s1) @@ (d2 :> s2)

Symmetry == Permutations(Handles)
=============================================================================
