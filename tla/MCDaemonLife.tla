---------------------------- MODULE MCDaemonLife ----------------------------
EXTENDS DaemonLife

(* Three processes; crashes of the daemon belong to no phase.              *)
Pids == 1..3
NoPhases == {}
=============================================================================
