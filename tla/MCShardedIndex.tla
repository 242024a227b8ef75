--------------------------- MODULE MCShardedIndex ---------------------------
(***************************************************************************)
(* Instances of ShardedIndex for TLC.                                      *)
(***************************************************************************)
EXTENDS ShardedIndex, TLC

\* A smaller index follows a larger one, so that the tail of an unfinished flush
\* outlives the next.
MCWidth == [v \in 1..MaxFlush |-> IF v % 2 = 1 THEN MaxShards ELSE 1]
=============================================================================
