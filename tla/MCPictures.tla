----------------------------- MODULE MCPictures -----------------------------
(* Pictures on a small instance: a domain of a1 and two NFTs, e of Ethereum, *)
(* which a1 never owns, and m, which a1 and a2 sell to each other.           *)
EXTENDS Pictures

CONSTANTS d1, e, m, a1, a2

MCOwners == [d \in Domains |-> {a1}]
MCHolders == [p \in Pictures |-> IF p = m THEN {a1, a2} ELSE {a2}]
MCOldFiles == {<<m, d1>>}
MCNamed == [d \in Domains |-> Pictures \cup {Invalid}]
=============================================================================
