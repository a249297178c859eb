---------------------------- MODULE MCProdCons ----------------------------
(* ProdCons on small instances: see the .cfg files.                        *)
EXTENDS ProdCons
===========================================================================
