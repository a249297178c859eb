------------------------ MODULE MCDispatchMonitor ------------------------
(* DispatchMonitor on a small instance: see DispatchServed.cfg.            *)
EXTENDS DispatchMonitor
===========================================================================
