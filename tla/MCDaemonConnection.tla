------------------------- MODULE MCDaemonConnection -------------------------
(* DaemonConnection with one more caller of the worker. *)
EXTENDS DaemonConnection

MCProcesses == {"w1", "w2"}
MCCallers == {"loop", "check"}
MCCommands == {"c1"}
=============================================================================
