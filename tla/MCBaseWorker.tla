---------------------------- MODULE MCBaseWorker ----------------------------
(* The worker of one chain on small instances: the bounds are in the .cfg.  *)
EXTENDS BaseWorker, TLC

CONSTANTS t1, t2

\* Tokens are interchangeable as long as none has a short id.
TokenSymmetry == Permutations(Tokens)
=============================================================================
