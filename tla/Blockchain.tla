----------------------------- MODULE Blockchain -----------------------------
(***************************************************************************)
(* The chain a worker mirrors, as the JSON-RPC node of the provider shows  *)
(* it: an external component, modelled from the four questions that        *)
(* UnsWorkerStrategy asks it (the head, the block at a number, the events  *)
(* of a range of blocks, and no other).                                    *)
(*                                                                         *)
(* A block carries its hash and the set of tokens that have an event in    *)
(* it.  The worker only ever compares hashes of blocks of the SAME number, *)
(* and two blocks of one number are equal exactly when the same fork mined *)
(* them, so the hash of a block is the number of the fork that mined it.   *)
(***************************************************************************)
EXTENDS Integers, Sequences, FiniteSets

CONSTANTS
    Tokens,         \* the token ids that may have events
    StartBlock,     \* config.eventsStartingBlock
    FinalityDepth,  \* a block under this many others is never orphaned
    MaxHeight,      \* bound: the chain stops growing at this height
    MaxForks        \* bound: the last fork that may replace the chain's tail

ASSUME ChainAssumption ==
    /\ StartBlock \in Nat \ {0}
    /\ FinalityDepth \in Nat
    /\ MaxHeight \in Nat
    /\ MaxForks \in Nat

VARIABLES
    chain,          \* the canonical chain; chain[n] is the block of number n
    forks,          \* the fork that mines now
    final           \* the highest block number that is final

chainVars == <<chain, forks, final>>

NoHash == 0         \* the hash of a block that the node does not know

Block == [hash : Nat, ev : SUBSET Tokens]
EventBlock == [block : Nat, hash : Nat]
Event == [block : Nat, hash : Nat, token : Tokens]

\* The provider's getBlock(n).hash: undefined beyond the head.
HashAt(n) == IF n \in DOMAIN chain THEN chain[n].hash ELSE NoHash

\* The registry's queryFilter({}, from, to).
EventsIn(from, to) ==
    UNION {{[block |-> n, hash |-> chain[n].hash, token |-> t] :
                t \in chain[n].ev} : n \in (from .. to) \cap DOMAIN chain}

\* The block of event e is on the chain.
Canonical(e) == HashAt(e.block) = e.hash

Finalized(height) ==
    IF height - FinalityDepth > final THEN height - FinalityDepth ELSE final

-----------------------------------------------------------------------------
ChainTypeOK ==
    /\ chain \in Seq(Block)
    /\ forks \in Nat \ {0}
    /\ final \in Nat

ChainInit ==
    /\ chain \in [1 .. StartBlock -> [hash : {1}, ev : SUBSET Tokens]]
    /\ forks = 1
    /\ final = IF StartBlock > FinalityDepth THEN StartBlock - FinalityDepth ELSE 0

\* A block with events of the tokens S is mined on the head.
Mine(S) ==
    /\ Len(chain) < MaxHeight
    /\ chain' = Append(chain, [hash |-> forks, ev |-> S])
    /\ final' = Finalized(Len(chain) + 1)
    /\ UNCHANGED forks

\* The node switches to a fork that leaves the chain after block k; the rest
\* of the new fork arrives by Mine, so the head may be lower for a while.
Reorg(k, S) ==
    /\ forks < MaxForks
    /\ k >= final
    /\ chain' = Append(SubSeq(chain, 1, k), [hash |-> forks + 1, ev |-> S])
    /\ forks' = forks + 1
    /\ UNCHANGED final

\* The head a node reports may only change by these steps.
ChainStep ==
    \E S \in SUBSET Tokens :
        \/ Mine(S)
        \/ \E k \in 1 .. Len(chain) - 1 : Reorg(k, S)
=============================================================================
