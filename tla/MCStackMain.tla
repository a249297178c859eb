---------------------------- MODULE MCStackMain ----------------------------
(* StackMain on a small instance: see the .cfg file.                       *)
EXTENDS StackMain
===========================================================================
