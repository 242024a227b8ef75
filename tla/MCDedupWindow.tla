--------------------------- MODULE MCDedupWindow ---------------------------
(* The rolling-window filter with two threads, three observations and a    *)
(* capacity of two, over a clock long enough for an entry to expire twice. *)
EXTENDS DedupWindow, TLC

Symmetry == Permutations(Threads) \cup Permutations(Hashes)
=============================================================================
