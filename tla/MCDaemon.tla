------------------------------ MODULE MCDaemon ------------------------------
(* Two clients, two daemons, so that one works off its last job while its  *)
(* successor begins, and two jobs on channels with room for one, so that   *)
(* the second job has to wait, or is turned away, until the first is       *)
(* received.                                                               *)
EXTENDS Daemon
=============================================================================
