--------------------------- MODULE MCSupervisor ---------------------------
(* Instance of Supervisor for TLC: the constants are in the .cfg files. *)
EXTENDS Supervisor
============================================================================
