--------------------------- MODULE MCSeqServers ---------------------------
(* SeqServers on a small instance: see the .cfg file.                      *)
EXTENDS SeqServers

CONSTANTS c1, c2, c3

MCSeqLen == [c \in Clients |-> IF c = c1 THEN 2 ELSE 1]
===========================================================================
