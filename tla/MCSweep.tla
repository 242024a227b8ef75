------------------------------ MODULE MCSweep ------------------------------
(* Two transcripts of one session: an agent's, and a subagent's of one     *)
(* message.                                                                *)
EXTENDS Sweep, TLC

CONSTANTS agent, subagent

MCSession     == [f \in Files |-> "session"]
MCMaxMessages == agent :> 2 @@ subagent :> 1
=============================================================================
