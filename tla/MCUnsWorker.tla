---------------------------- MODULE MCUnsWorker -----------------------------
(* The strategy of an EVM chain on small instances: bounds in the .cfg.     *)
EXTENDS UnsWorker, TLC

CONSTANTS t1, t2, a1, a2, k1, k2, v1, v2, r1, r2

\* No action and no property names a token, owner, key, value or resolver.
Symmetry ==
    Permutations(Tokens) \cup Permutations(Owners) \cup Permutations(Keys)
        \cup Permutations(Values) \cup Permutations(Resolvers)
=============================================================================
