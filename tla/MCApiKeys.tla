----------------------------- MODULE MCApiKeys ------------------------------
(* The API keys on a small instance: bounds in the .cfg.                    *)
EXTENDS ApiKeys

CONSTANTS p1, p2, q1, q2, k1, k2, n1, n2
=============================================================================
