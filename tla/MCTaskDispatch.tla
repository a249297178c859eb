-------------------------- MODULE MCTaskDispatch --------------------------
(* TaskDispatch on small instances: see the .cfg files.                    *)
EXTENDS TaskDispatch, TLC

\* Workers are interchangeable in the safety properties.
Symmetry == Permutations(Workers)
===========================================================================
