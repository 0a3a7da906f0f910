--------------------------- MODULE MCDomainPages ----------------------------
(* Paging on a small instance: bounds in the .cfg.                          *)
EXTENDS DomainPages, TLC

CONSTANTS w1, w2

\* No action and no property names a writer.
Symmetry == Permutations(Writers)
=============================================================================
