---------------------------- MODULE MCZilWorker -----------------------------
(* The Zilliqa worker on small instances: one name, a subdomain of it and a *)
(* name that the worker refuses; bounds in the .cfg.                        *)
EXTENDS ZilWorker

CONSTANTS zil, name, sub, Bad, o1, r1, k1, v1, v2

Parents == [n \in Nodes |-> IF n = sub THEN name ELSE zil]
=============================================================================
