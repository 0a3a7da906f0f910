--------------------------- MODULE MCReorgRebuild ---------------------------
(* The concurrent rebuilds on small instances: the bounds are in the .cfg.  *)
EXTENDS ReorgRebuild

CONSTANTS t1, t2, a1, a2, k1, v1
=============================================================================
