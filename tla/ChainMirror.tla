----------------------------- MODULE ChainMirror -----------------------------
(***************************************************************************)
(* What a worker promises: the committed database is always an exact       *)
(* picture of some prefix of the chain.  The mirror may lag, and after a   *)
(* reorg it may show a prefix that is no longer canonical until the next   *)
(* publication, but one publication never mixes two forks, never skips an  *)
(* event and never leaves a domain that its events do not explain.         *)
(***************************************************************************)
EXTENDS Blockchain

VARIABLE mirror     \* [block, hash, events, domains], as the readers see it

mirrorVars == <<chainVars, mirror>>

\* The domain of token t as the events E of a mirror produce it: the blocks
\* whose event of t has been applied.
AppliedBlocks(E, t) ==
    {[block |-> e.block, hash |-> e.hash] : e \in {f \in E : f.token = t}}

\* The events of the chain up to block n that a worker mirrors.
MirroredEvents(n) == EventsIn(StartBlock + 1, n)

Snapshot(n) ==
    [block   |-> n,
     hash    |-> HashAt(n),
     events  |-> MirroredEvents(n),
     domains |-> [t \in Tokens |-> AppliedBlocks(MirroredEvents(n), t)]]

Empty ==
    [block |-> 0, hash |-> NoHash, events |-> {},
     domains |-> [t \in Tokens |-> {}]]

MirrorInit == ChainInit /\ mirror = Empty

\* One committed run of the worker.
Publish ==
    /\ \E n \in DOMAIN chain : mirror' = Snapshot(n)
    /\ UNCHANGED chainVars

MirrorNext == Publish \/ (ChainStep /\ UNCHANGED mirror)

MirrorSpec == MirrorInit /\ [][MirrorNext]_mirrorVars
=============================================================================
