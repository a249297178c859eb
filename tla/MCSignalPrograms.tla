-------------------------- MODULE MCSignalPrograms --------------------------
(* SignalPrograms on a small instance: see the .cfg file.                  *)
EXTENDS SignalPrograms
===========================================================================
