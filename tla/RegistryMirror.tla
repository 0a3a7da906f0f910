--------------------------- MODULE RegistryMirror ---------------------------
(***************************************************************************)
(* What the strategy of an EVM chain promises for the registry whose       *)
(* events tell everything (UNS): the committed tables are always the state *)
(* of the registry after one of its blocks, and only move forward.         *)
(***************************************************************************)
EXTENDS Registries

VARIABLE mirror     \* [block, rows, rev]

mirrorVars == <<registryVars, mirror>>

\* The state of the registry after its first n blocks.
StateAfter(n) ==
    IF n = 0 THEN [rows |-> NoRecords, rev |-> {}] ELSE blocks[n].after

MirrorOf(n) ==
    [block |-> n, rows |-> StateAfter(n).rows, rev |-> StateAfter(n).rev]

MirrorInit == RegistryInit /\ mirror = MirrorOf(0)

Publish ==
    /\ \E n \in mirror.block .. Len(blocks) : mirror' = MirrorOf(n)
    /\ UNCHANGED registryVars

MirrorNext == Publish \/ (RegistryStep /\ UNCHANGED mirror)

MirrorSpec == MirrorInit /\ [][MirrorNext]_mirrorVars
=============================================================================
