---------------------------- MODULE MCDomainApi -----------------------------
(* The API over two chains on small instances: one token that is sold, and   *)
(* perhaps another that stays with one of the owners; bounds in the .cfg.    *)
EXTENDS DomainApi

CONSTANTS t1, t2, a1, a2

MCOwners == [t \in Tokens |-> IF t = t1 THEN {a1, a2} ELSE {a1}]
MCOneOwner == [t \in Tokens |-> {a1}]
=============================================================================
