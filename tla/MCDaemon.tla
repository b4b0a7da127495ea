------------------------------ MODULE MCDaemon ------------------------------
(* TLC instance of Daemon.                                                 *)
EXTENDS Daemon
=============================================================================
