------------------------------ MODULE MCMining ------------------------------
(* One file with three versions.  As part of a project it has the room of  *)
(* its path whatever it holds; a transcript has that of its topic, or each *)
(* chunk has one for its kind of memory.                                   *)
EXTENDS Mining, TLC

CONSTANTS v1, v2, v3, r1, r2

MCShape ==
  "project"  :> (v1 :> <<r1, r1>> @@ v2 :> <<r1>> @@ v3 :> <<r1, r1>>) @@
  "exchange" :> (v1 :> <<r1, r1>> @@ v2 :> <<r2>> @@ v3 :> <<>>) @@
  "general"  :> (v1 :> <<r1, r2>> @@ v2 :> <<r2>> @@ v3 :> <<r1>>)
=============================================================================
